------------------------------ MODULE Pipeline ------------------------------
(***************************************************************************)
(* One packet on its way through the controller of main.cpp's ds(): an     *)
(* InputCemuRelay3DS, whose frames go to emulators, and an InputGamepad,   *)
(* whose events go to uinput.  run_client fires FIRST, ALWAYS and LAST; in *)
(* each the relay was created first and comes first.  Up to the gamepad's  *)
(* ALWAYS nothing leaves the program and nothing can fail, so Receive is   *)
(* one step; from there on each handler is a step, because readers of the  *)
(* device and emulators look in between and a write to uinput may throw.   *)
(* Nobody catches, so that ends the program, as the end of the session     *)
(* does.  Sticks and motion are left out, as in CemuFrame.                 *)
(***************************************************************************)
EXTENDS CemuFrame

VARIABLES
    pc,      \* the handler that is next; "idle" between packets
    cur,     \* the packet in hand; NoInput between packets
    device,  \* the gamepad's keys and axes as written to uinput
    shown,   \* those a reader has seen: the state at the last SYN_REPORT
    sent     \* the last frame given to Connection::send

held == <<cur, device, shown, sent>>
allVars == <<vars, pc, held>>

PadKey == [A |-> "BTN_A", B |-> "BTN_B", X |-> "BTN_X", Y |-> "BTN_Y",
           L |-> "BTN_TL", R |-> "BTN_TR", SELECT |-> "BTN_SELECT",
           START |-> "BTN_START"]
PadKeys == {PadKey[k] : k \in DOMAIN PadKey}

Hat == -1..1
Devices == [keys : SUBSET PadKeys, x : Hat, y : Hat,
            left : {0, Full}, right : {0, Full}]
AllUp == [keys |-> {}, x |-> 0, y |-> 0, left |-> 0, right |-> 0]

\* The device that libevdev_uinput_destroy, or the exit, took away
Gone == [AllUp EXCEPT !.left = -1]

Views == [bits : SUBSET Relayed, analog : [Analogs -> Pressures],
          active : BOOLEAN]

PipelineTypeOK ==
    /\ TypeOK
    /\ pc \in {"idle", "padAlways", "relayLast", "padLast", "gone"}
    /\ cur \in Packets
    /\ device \in Devices
    /\ shown \in Devices \cup {Gone}
    /\ sent \in Views

\* What an emulator makes of the frame f with the touch t
View(f, t) == [bits |-> f.bits \cap Relayed, analog |-> Sent(f),
               active |-> t.active]

PipelineInit ==
    /\ Init
    /\ pc = "idle"
    /\ cur = NoInput
    /\ device = AllUp
    /\ shown = AllUp
    /\ sent = View(frame, touch)

-----------------------------------------------------------------------------
Axis(buttons, up, down) ==
    (IF up \in buttons THEN 1 ELSE 0) - (IF down \in buttons THEN 1 ELSE 0)

\* Mutant: keys are only ever pressed.
Apply_NoRelease(p) ==
    [keys |-> device.keys \cup {PadKey[k] : k \in DOMAIN PadKey \cap p.buttons},
     x |-> Axis(p.buttons, "RIGHT", "LEFT"), y |-> Axis(p.buttons, "DOWN", "UP"),
     left |-> TriggerAmount(p.buttons, "ZL"),
     right |-> TriggerAmount(p.buttons, "ZR")]

\* gamepad::apply: every key and every axis is written anew.
Apply(p) ==
    [keys |-> (device.keys \ PadKeys)
                  \cup {PadKey[k] : k \in DOMAIN PadKey \cap p.buttons},
     x |-> Axis(p.buttons, "RIGHT", "LEFT"), y |-> Axis(p.buttons, "DOWN", "UP"),
     left |-> TriggerAmount(p.buttons, "ZL"),
     right |-> TriggerAmount(p.buttons, "ZR")]

\* A packet comes in: FIRST of the relay polls, its ALWAYS translates.
Receive(p) ==
    /\ pc = "idle"
    /\ Packet(p)
    /\ pc' = "padAlways"
    /\ cur' = p
    /\ UNCHANGED <<device, shown, sent>>

PadAlways ==
    /\ pc = "padAlways"
    /\ device' = Apply(cur)
    /\ pc' = "relayLast"
    /\ UNCHANGED <<vars, cur, shown, sent>>

RelayLast ==
    /\ pc = "relayLast"
    /\ sent' = View(frame, touch)
    /\ pc' = "padLast"
    /\ UNCHANGED <<vars, cur, device, shown>>

\* OSWrapper::sync: `queued` is set since the first packet.
PadLast ==
    /\ pc = "padLast"
    /\ shown' = device
    /\ pc' = "idle"
    /\ cur' = NoInput
    /\ UNCHANGED <<vars, device, sent>>

\* The device goes with the program or the controller, released by nobody.
Vanish ==
    /\ pc' = "gone"
    /\ shown' = Gone
    /\ cur' = NoInput
    /\ UNCHANGED <<vars, device, sent>>

\* A write to uinput fails and throws std::system_error: past run_client, past
\* main.  Some of the writes of `apply` were made, for nobody to read.
WriteFails == pc \in {"padAlways", "padLast"} /\ Vanish

\* The session ends (AUTO_TERMINATE_S) and main returns.
Leave == pc = "idle" /\ Vanish

\* The owner's calls come between packets: program and handlers share a thread.
Set ==
    /\ pc = "idle"
    /\ Setter
    /\ UNCHANGED <<pc, held>>

PipelineNext ==
    \/ \E p \in Packets : Receive(p)
    \/ PadAlways
    \/ RelayLast
    \/ PadLast
    \/ WriteFails
    \/ Leave
    \/ Set

PipelineSpec == PipelineInit /\ [][PipelineNext]_allVars

-----------------------------------------------------------------------------
EmulatorImageOf == [p \in Packets |->
    [bits |-> Meant(p), analog |-> Digital(Meant(p)), active |-> p.touch]]

\* The pad's own reading of a packet, from the packet alone
PadImageOf == [p \in Packets |->
    [keys |-> {PadKey[k] : k \in DOMAIN PadKey \cap p.buttons},
     x |-> Axis(p.buttons, "RIGHT", "LEFT"), y |-> Axis(p.buttons, "DOWN", "UP"),
     left |-> TriggerAmount(p.buttons, "ZL"),
     right |-> TriggerAmount(p.buttons, "ZR")]]

Promised == INSTANCE DeviceViews WITH
    Inputs <- Packets, Nothing <- NoInput,
    EmulatorImage <- EmulatorImageOf, PadImage <- PadImageOf, Gone <- Gone,
    emulator <- sent, pad <- shown, newest <- IF pc = "padLast" THEN cur ELSE NoInput, behind <- pc = "padLast"

\* The handlers of one packet, run one object at a time, amount to DeviceViews:
\* neither consumer ever sees half a packet or a mix of two, whatever was held
\* before, whatever the owner set in between and wherever a write fails.
ImplementsViews == Promised!Spec
=============================================================================
