----------------------------- MODULE TouchScreen -----------------------------
(***************************************************************************)
(* The way of a touched pixel to the emulator: sendInputPacket multiplies  *)
(* it by TOUCH_NORM and clamps (main.cpp), the relay multiplies by 319 or  *)
(* 239 and truncates (Mappings.cpp).  Both multiply in 32-bit floats, with *)
(* 24 bits of significand, rounded half to even; a float is [m, e] and     *)
(* stands for m / 2^e.                                                     *)
(***************************************************************************)
EXTENDS Integers

\* The last pixel of the screen: 320 columns, 240 rows
LastPixel == [x |-> 319, y |-> 239]

\* TOUCH_NORM_X and TOUCH_NORM_Y, 1/319 and 1/239 as floats
TouchNorm == [x |-> [m |-> 13463847, e |-> 32], y |-> [m |-> 8985287, e |-> 31]]

\* The product of a natural k < 2^9 and a float: exactly high * 2^12 + low,
\* then without the `drop` lowest bits that make it longer than 24.
Times(k, f) ==
    LET high == k * (f.m \div 4096) + (k * (f.m % 4096)) \div 4096
        low  == (k * (f.m % 4096)) % 4096
        drop == CHOOSE d \in 0..12 :
                    /\ high < 2^(12 + d)
                    /\ d > 0 => high >= 2^(11 + d)
        cut  == high * 2^(12 - drop) + low \div 2^drop
        rest == low % 2^drop
        up   == 2 * rest > 2^drop \/ (2 * rest = 2^drop /\ cut % 2 = 1)
    IN  [m |-> IF up THEN cut + 1 ELSE cut, e |-> f.e - drop]

One == [m |-> 2^23, e |-> 23]

\* A significand is at most 2^24, and TLC computes no power from 2^31 on.
Floor(f) == IF f.e > 24 THEN 0 ELSE f.m \div 2^f.e

\* clampf to 0..1, of a float that is not negative
Clamp(f) == IF Floor(f) >= 1 THEN One ELSE f

Normalised(axis, pixel) ==
    IF pixel = 0 THEN [m |-> 0, e |-> 0]
    ELSE Clamp(Times(pixel, TouchNorm[axis]))

\* static_cast<uint16_t>(code.touch[i] * 319.0f)
Coordinate(axis, pixel) ==
    Floor(Times(LastPixel[axis], Normalised(axis, pixel)))

Pixels(axis) == 0..LastPixel[axis]

\* "the four corners land at (0,0), (319,0), (0,239), (319,239)"
\* (Mappings.cpp:371)
CornersLand ==
    \A axis \in DOMAIN LastPixel :
        /\ Coordinate(axis, 0) = 0
        /\ Coordinate(axis, LastPixel[axis]) = LastPixel[axis]

\* A coordinate is the pixel or the one before it, and order is kept.
OffByOneAtMost ==
    \A axis \in DOMAIN LastPixel : \A p \in Pixels(axis) :
        /\ Coordinate(axis, p) \in {p - 1, p}
        /\ p > 0 => Coordinate(axis, p - 1) <= Coordinate(axis, p)
=============================================================================
