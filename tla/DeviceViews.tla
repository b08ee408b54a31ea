----------------------------- MODULE DeviceViews -----------------------------
(***************************************************************************)
(* What the PC program promises the two consumers of a packet, the         *)
(* emulators at the DSU server and the programs that read the virtual pad. *)
(* Each sees one whole packet at a time, the emulators first, and no       *)
(* packet reaches anyone while one of them still waits for the packet      *)
(* before it.                                                              *)
(***************************************************************************)
CONSTANTS
    Inputs,         \* packets
    Nothing,        \* the packet of a console that nobody touches
    EmulatorImage,  \* what a packet means to an emulator
    PadImage,       \* and to a reader of the pad
    Gone            \* the pad that is unplugged

VARIABLES
    emulator,  \* what an emulator sees
    pad,       \* what a reader of the pad sees
    newest,    \* the packet that the pad waits for
    behind     \* whether it does

vars == <<emulator, pad, newest, behind>>

Init ==
    /\ emulator = EmulatorImage[Nothing]
    /\ pad = PadImage[Nothing]
    /\ newest = Nothing
    /\ behind = FALSE

Relay(p) ==
    /\ pad # Gone
    /\ ~behind
    /\ emulator' = EmulatorImage[p]
    /\ newest' = p
    /\ behind' = TRUE
    /\ pad' = pad

Report ==
    /\ behind
    /\ pad' = PadImage[newest]
    /\ behind' = FALSE
    /\ newest' = Nothing
    /\ emulator' = emulator

\* The program ends; an emulator is not told and keeps what it has.
End ==
    /\ pad # Gone
    /\ pad' = Gone
    /\ behind' = FALSE
    /\ newest' = Nothing
    /\ emulator' = emulator

Next ==
    \/ \E p \in Inputs : Relay(p)
    \/ Report
    \/ End

Spec == Init /\ [][Next]_vars
=============================================================================
