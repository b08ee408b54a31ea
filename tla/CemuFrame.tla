------------------------------ MODULE CemuFrame ------------------------------
(***************************************************************************)
(* The frame that InputCemuGamepad builds up and sends to the DSU server   *)
(* (Objects.cpp), and the relay that rebuilds it from every packet of the  *)
(* 3DS (InputCemuRelay3DS::translate, Mappings.cpp).  A button has a bit   *)
(* and, for twelve of them, a pressure byte; the bytes are derived from    *)
(* the bits until somebody sets a pressure.  The setters are public: the   *)
(* owner of the object may call them between two packets.                  *)
(* Sticks, motion, touch coordinates and the slot descriptor are left out. *)
(***************************************************************************)
EXTENDS InputPackets

CONSTANTS
    ApiButtons, \* bound: the buttons that the owner sets
    Full,       \* the highest pressure, for 255
    IdMod       \* touch_id_ counts modulo this (256)

\* DSU buttons with a pressure byte (dsu_analog_field), and all the others
Dpad == {"DPAD_LEFT", "DPAD_DOWN", "DPAD_RIGHT", "DPAD_UP"}
Triggers == {"L2", "R2"}
Analogs == {"Y", "B", "A", "X", "R1", "L1"} \cup Triggers \cup Dpad
DsuButtons ==
    Analogs \cup {"SHARE", "OPTIONS", "HOME", "L3", "R3", "TOUCH_BUTTON"}

ASSUME FrameAssumption ==
    /\ ApiButtons \subseteq DsuButtons
    /\ Full \in Nat \ {0}
    /\ IdMod \in Nat /\ IdMod > 1

Pressures == 0..Full

VARIABLES
    frame,      \* frame_: bits, explicit pressures, derive_analog_from_digital
    touch,      \* touch1 of the frame
    prev_touch, \* prev_touch_
    touch_id,   \* touch_id_
    packet,     \* history: the last packet, if no setter was called since
    aimed       \* history: the buttons that the last call was about

vars == <<frame, touch, prev_touch, touch_id, packet, aimed>>

NoPacket == [buttons |-> {}, touch |-> FALSE, pos |-> MaxPos + 1]

Frames == [bits : SUBSET DsuButtons, analog : [Analogs -> Pressures],
           derive : BOOLEAN]

TypeOK ==
    /\ frame \in Frames
    /\ touch \in [active : BOOLEAN, id : 0..IdMod - 1]
    /\ prev_touch \in BOOLEAN
    /\ touch_id \in 0..IdMod - 1
    /\ packet \in Packets \cup {NoPacket}
    /\ aimed \subseteq DsuButtons

Init ==
    /\ frame = [bits |-> {}, analog |-> [b \in Analogs |-> 0], derive |-> TRUE]
    /\ touch = [active |-> FALSE, id |-> 0]
    /\ prev_touch = FALSE
    /\ touch_id = 0
    /\ packet = NoPacket
    /\ aimed = {}

-----------------------------------------------------------------------------
(* The setters, on a frame f *)

Digital(bits) == [b \in Analogs |-> IF b \in bits THEN Full ELSE 0]

\* ControllerData::serialize: the pressure bytes that are sent
Sent(f) == IF f.derive THEN Digital(f.bits) ELSE f.analog

\* Mutant: a released button keeps its explicit pressure.
SetButtons_KeepPressure(f, among, on) ==
    [bits |-> (f.bits \ among) \cup on,
     analog |-> [b \in Analogs |->
                    IF ~f.derive /\ b \in on THEN Full ELSE f.analog[b]],
     derive |-> f.derive]

\* button_down, button_up and set_dpad: the buttons of `among` go down if
\* they are in `on`, else up; explicit pressures follow.
SetButtons(f, among, on) ==
    [bits |-> (f.bits \ among) \cup on,
     analog |-> [b \in Analogs |->
                    IF ~f.derive /\ b \in among
                    THEN IF b \in on THEN Full ELSE 0
                    ELSE f.analog[b]],
     derive |-> f.derive]

\* Mutant: the other buttons' pressures are not captured first.
SetPressure_NoBackfill(f, b, amount) ==
    [bits |-> f.bits,
     analog |-> [a \in Analogs |-> IF a = b THEN amount ELSE f.analog[a]],
     derive |-> FALSE]

\* set_analog_pressure: what was derived so far becomes explicit first; a
\* button without pressure changes nothing else.
SetPressure(f, b, amount) ==
    [bits |-> f.bits,
     analog |-> [a \in Analogs |-> IF a = b THEN amount ELSE Sent(f)[a]],
     derive |-> FALSE]

SetBit(f, b, down) ==
    [f EXCEPT !.bits = IF down THEN @ \cup {b} ELSE @ \ {b}]

\* set_trigger
SetTrigger(f, b, amount) == SetPressure(SetBit(f, b, amount > 0), b, amount)

-----------------------------------------------------------------------------
(* InputCemuRelay3DS::translate *)

\* button_table, through dsu_button_field
Table == [A |-> "A", B |-> "B", X |-> "X", Y |-> "Y", L |-> "L1", R |-> "R1",
          SELECT |-> "SHARE", START |-> "OPTIONS"]
TableButtons == {Table[k] : k \in DOMAIN Table}

\* set_dpad of {RIGHT - LEFT, DOWN - UP}: opposite buttons cancel out.
DpadOf(held) ==
    (IF "LEFT" \in held /\ "RIGHT" \notin held THEN {"DPAD_LEFT"} ELSE {})
    \cup (IF "RIGHT" \in held /\ "LEFT" \notin held THEN {"DPAD_RIGHT"} ELSE {})
    \cup (IF "UP" \in held /\ "DOWN" \notin held THEN {"DPAD_UP"} ELSE {})
    \cup (IF "DOWN" \in held /\ "UP" \notin held THEN {"DPAD_DOWN"} ELSE {})

TriggerAmount(held, k) == IF k \in held THEN Full ELSE 0

Translated(f, p) ==
    LET face == SetButtons(f, TableButtons,
                    {Table[k] : k \in DOMAIN Table \cap p.buttons})
        dpad == SetButtons(face, Dpad, DpadOf(p.buttons))
        left == SetTrigger(dpad, "L2", TriggerAmount(p.buttons, "ZL"))
        both == SetTrigger(left, "R2", TriggerAmount(p.buttons, "ZR"))
    IN  SetBit(both, "TOUCH_BUTTON", p.touch)

\* Mutant: the id counts every packet of a touch.
NextTouchId_Always(p) == IF p.touch THEN (touch_id + 1) % IdMod ELSE touch_id

\* Mutant: the id does not wrap.
NextTouchId_NoWrap(p) ==
    IF p.touch /\ ~prev_touch THEN touch_id + 1 ELSE touch_id

NextTouchId(p) ==
    IF p.touch /\ ~prev_touch THEN (touch_id + 1) % IdMod ELSE touch_id

\* ALWAYS of a packet: what will be sent when LAST comes
Packet(p) ==
    /\ frame' = Translated(frame, p)
    /\ touch_id' = NextTouchId(p)
    /\ prev_touch' = p.touch
    /\ touch' = [active |-> p.touch, id |-> NextTouchId(p)]
    /\ packet' = p
    /\ aimed' = DsuButtons

(* Calls of the owner *)

Call(f, about) ==
    /\ frame' = f
    /\ packet' = NoPacket
    /\ aimed' = about
    /\ UNCHANGED <<touch, prev_touch, touch_id>>

\* button_down, button_up; set_home, set_touch_button for theirs
PressOrRelease(b, down) ==
    Call(SetButtons(frame, {b}, IF down THEN {b} ELSE {}), {b})

\* set_dpad in the direction that the held buttons give
CallDpad(held) == Call(SetButtons(frame, Dpad, DpadOf(held)), Dpad)

CallTrigger(b, amount) == Call(SetTrigger(frame, b, amount), {b})

\* set_analog_pressure, also for a button that has no pressure
CallPressure(b, amount) == Call(SetPressure(frame, b, amount), {b})

\* clear_analog_pressures
ClearPressures == Call([frame EXCEPT !.derive = TRUE], DsuButtons)

Setter ==
    \/ \E b \in ApiButtons, down \in BOOLEAN : PressOrRelease(b, down)
    \/ \E b \in ApiButtons \cap Triggers, amount \in Pressures :
          CallTrigger(b, amount)
    \/ \E b \in ApiButtons, amount \in Pressures : CallPressure(b, amount)
    \/ \E held \in SUBSET Pressable : CallDpad(held)
    \/ ClearPressures

Next ==
    \/ \E p \in Packets : Packet(p)
    \/ Setter

Spec == Init /\ [][Next]_vars

-----------------------------------------------------------------------------
Relayed == TableButtons \cup Dpad \cup Triggers \cup {"TOUCH_BUTTON"}

\* The buttons a packet means, in DSU's names
Meant(p) ==
    {Table[k] : k \in DOMAIN Table \cap p.buttons} \cup DpadOf(p.buttons)
    \cup (IF "ZL" \in p.buttons THEN {"L2"} ELSE {})
    \cup (IF "ZR" \in p.buttons THEN {"R2"} ELSE {})
    \cup (IF p.touch THEN {"TOUCH_BUTTON"} ELSE {})

\* What is sent for a packet is that packet, bits and pressures, whatever
\* packets were lost before and whatever the owner had set.
FrameFollowsPacket ==
    packet # NoPacket =>
        /\ frame.bits \cap Relayed = Meant(packet)
        /\ Sent(frame) = Digital(Meant(packet))

\* "so they don't all snap to 0 when we stop deriving" (Objects.cpp:332): a
\* call changes what is sent of the buttons it is about, and of no other.
OthersKept ==
    [][ \A b \in DsuButtons \ aimed' :
            /\ b \in frame'.bits <=> b \in frame.bits
            /\ b \in Analogs => Sent(frame')[b] = Sent(frame)[b] ]_vars

\* "stable for one continuous touch" (Messages.h:64), and a new touch gets
\* another id than the one before.
TouchIdStable ==
    [][ touch'.active => (touch'.id = touch.id <=> touch.active) ]_<<touch, packet>>
=============================================================================
