---------------------------- MODULE InputPackets ----------------------------
(***************************************************************************)
(* The inputs of one frame: packed on the 3DS (sendInputPacket), unpacked  *)
(* on the PC and compared with the packet before (get_diffs).  Packets get *)
(* lost and overtake one another, so the PC may see any one after any      *)
(* other.                                                                  *)
(***************************************************************************)
EXTENDS Integers

CONSTANTS
    Pressable,  \* the buttons the user presses, some of ButtonMask
    MaxPos      \* touch positions are 0..MaxPos; they differ by > DELTA_EPSILON

ASSUME PositionAssumption == MaxPos \in Nat

\* ButtonMask without NEVER
Buttons == {"A", "B", "X", "Y", "UP", "DOWN", "LEFT", "RIGHT", "L", "R",
            "ZL", "ZR", "SELECT", "START"}

ASSUME PressableAssumption == Pressable \subseteq Buttons

Positions == 0..MaxPos

\* sendInputPacket: an untouched screen is sent as position 0.  Circle pads,
\* gyroscope and accelerometer are left out.
Pack(held, touching, at) ==
    [buttons |-> held, touch |-> touching, pos |-> IF touching THEN at ELSE 0]

Packets == {Pack(held, touching, at) :
               held \in SUBSET Pressable, touching \in BOOLEAN, at \in Positions}

\* RawInput prev_input{}
NoInput == Pack({}, FALSE, 0)

\* Mutant: a button only counts when it goes down.
Diffs_PressedOnly(prev, cur) ==
    {"FIRST", "ALWAYS", "LAST"} \cup (cur.buttons \ prev.buttons)
    \cup (IF prev.touch # cur.touch \/ prev.pos # cur.pos THEN {"TOUCH"} ELSE {})

\* get_diffs, as the set of the inputs whose handlers fire
Diffs(prev, cur) ==
    {"FIRST", "ALWAYS", "LAST"}
    \cup (prev.buttons \ cur.buttons) \cup (cur.buttons \ prev.buttons)
    \cup (IF prev.touch # cur.touch \/ prev.pos # cur.pos THEN {"TOUCH"} ELSE {})
=============================================================================
