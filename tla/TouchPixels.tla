----------------------------- MODULE TouchPixels -----------------------------
(***************************************************************************)
(* A finger on the touch screen, along one axis: the pixel it is on, the   *)
(* one it was on before, and the coordinates that an emulator got for them.*)
(***************************************************************************)
EXTENDS TouchScreen

VARIABLES
    axis,    \* the axis looked at
    before,  \* the touch of the packet before: its pixel and coordinate
    now      \* the touch of the last packet

vars == <<axis, before, now>>

Sent(pixel) == [pixel |-> pixel, coordinate |-> Coordinate(axis, pixel)]

Init ==
    /\ axis \in DOMAIN LastPixel
    /\ before = Sent(0)
    /\ now = Sent(0)

\* The next packet, with the finger on `pixel`
Touch(pixel) ==
    /\ now' = Sent(pixel)
    /\ before' = now
    /\ axis' = axis

Next == \E pixel \in Pixels(axis) : Touch(pixel)

Spec == Init /\ [][Next]_vars

\* "it preserves every pixel the 3DS can physically resolve"
\* (Mappings.cpp:369): an emulator can tell two pixels apart.
PixelsDistinct ==
    before.pixel # now.pixel => before.coordinate # now.coordinate
=============================================================================
