---------------------------- MODULE MouseMapping ----------------------------
(***************************************************************************)
(* A virtual mouse driven by packets: the MOUSE map (Mappings.cpp) with    *)
(* its touchpad, whose taps become clicks when a timer runs out, and the   *)
(* uinput device it writes to (InputMouse, OSWrapper).  Timers are looked  *)
(* at when a packet arrives and at no other time.  The handlers of a       *)
(* packet run on one thread in the order of TotalInputMask.  Movement is   *)
(* left out but for one thing: a touch that moves the pointer is a drag.   *)
(***************************************************************************)
EXTENDS InputPackets, Sequences, FiniteSets

CONSTANTS
    TapRelease,     \* tap_release_ms, in time units
    TapReenter,     \* tap_reenter_ms
    ClickThreshold  \* scroll.is_click_threshold_ms

ASSUME TimerAssumption ==
    /\ TapRelease \in Nat
    /\ TapReenter \in Nat
    /\ ClickThreshold \in Nat

VARIABLES
    prev,       \* prev_input
    keys,       \* the mouse keys that are down, as the kernel sees them
    out,        \* what the last step wrote to uinput
    pad,        \* the statics of mouse::touchpad
    xAge,       \* time since last_press of X
    seen,       \* history: the positions of the present or the last touch
    quiet       \* history: the last step was a time unit without a packet

vars == <<prev, keys, out, pad, xAge, seen, quiet>>

MouseKeys == {"BTN_LEFT", "BTN_RIGHT", "BTN_MIDDLE"}

\* Bound: consec_taps (16 bits) stops at three, which all mean BTN_MIDDLE.
TapCap == 3
TouchCap == TapRelease
ReleaseCap == TapReenter + 1
XCap == ClickThreshold

AtMost(cap, n) == IF n > cap THEN cap ELSE n

\* touchAge and releaseAge: time since last_touch and last_touch_release
Pads == [pressed : BOOLEAN, taps : 0..TapCap, drag : BOOLEAN,
         lastPos : Positions, touchAge : 0..TouchCap, releaseAge : 0..ReleaseCap]

\* One write: a key goes down or up, or SYN_REPORT ends a report.
SYN == <<"SYN", 0>>
Down(key) == <<key, 1>>
Up(key) == <<key, 0>>
Events == {SYN} \cup {Down(k) : k \in MouseKeys} \cup {Up(k) : k \in MouseKeys}

TypeOK ==
    /\ prev \in Packets
    /\ keys \subseteq MouseKeys
    /\ out \in Seq(Events)
    /\ pad \in Pads
    /\ xAge \in 0..XCap
    /\ seen \subseteq Positions
    /\ quiet \in BOOLEAN

Init ==
    /\ prev = NoInput
    /\ keys = {}
    /\ out = <<>>
    /\ pad = [pressed |-> FALSE, taps |-> 0, drag |-> FALSE, lastPos |-> 0,
              touchAge |-> 0, releaseAge |-> 0]
    /\ xAge = 0
    /\ seen = {}
    /\ quiet = TRUE

-----------------------------------------------------------------------------
(* The writes of a packet, one handler at a time in the order of firing.   *)

\* Mutant: the code of the 3DS button is written.
KeyEdge_Unmapped(button, key, cur) ==
    IF button \notin Diffs(prev, cur) THEN <<>>
    ELSE IF button \in cur.buttons THEN <<Down(button)>> ELSE <<Up(button)>>

\* button_down or button_up for a 3DS button that changed
KeyEdge(button, key, cur) ==
    IF button \notin Diffs(prev, cur) THEN <<>>
    ELSE IF button \in cur.buttons THEN <<Down(key)>> ELSE <<Up(key)>>

\* button_click: two reports of its own
Click(key) == <<Down(key), SYN, Up(key), SYN>>

\* X released early is a middle click.
XEdge(cur) ==
    IF "X" \in prev.buttons \ cur.buttons /\ xAge < ClickThreshold
    THEN Click("BTN_MIDDLE") ELSE <<>>

\* Mutant: the position of the last touch is kept.
Touch_StalePos(cur) ==
    IF "TOUCH" \notin Diffs(prev, cur) THEN pad
    ELSE IF cur.touch /\ ~pad.pressed
    THEN [pad EXCEPT !.touchAge = 0, !.drag = FALSE, !.pressed = TRUE]
    ELSE IF ~cur.touch /\ pad.pressed
    THEN [pad EXCEPT !.releaseAge = 0, !.pressed = FALSE,
             !.taps = IF ~pad.drag /\ pad.touchAge < TapRelease
                      THEN AtMost(TapCap, @ + 1) ELSE 0]
    ELSE pad

\* determine_input: a touch begins; or it ends, as one tap more or, dragged
\* or held too long, as the end of every pending tap.
Touch(cur) ==
    IF "TOUCH" \notin Diffs(prev, cur) THEN pad
    ELSE IF cur.touch /\ ~pad.pressed
    THEN [pad EXCEPT !.touchAge = 0, !.lastPos = cur.pos, !.drag = FALSE,
                     !.pressed = TRUE]
    ELSE IF ~cur.touch /\ pad.pressed
    THEN [pad EXCEPT !.releaseAge = 0, !.pressed = FALSE,
             !.taps = IF ~pad.drag /\ pad.touchAge < TapRelease
                      THEN AtMost(TapCap, @ + 1) ELSE 0]
    ELSE pad

\* Mutant: pending taps are clicked although the finger is down again.
Due_Pressed(p) == p.taps # 0 /\ p.releaseAge > TapReenter

\* flush_pending_taps: the finger has been up for long enough.
Due(p) == ~p.pressed /\ p.taps # 0 /\ p.releaseAge > TapReenter

TapKey(n) ==
    CASE n = 1 -> "BTN_LEFT" [] n = 2 -> "BTN_RIGHT" [] OTHER -> "BTN_MIDDLE"

\* Mutant: the clicked taps stay pending.
Flush_Keep(p) == p

Flush(p) == IF Due(p) THEN [p EXCEPT !.taps = 0] ELSE p

\* The rest of ALWAYS: a touch that has moved may move the pointer, which
\* makes it a drag and drops the pending taps; moves says whether it does
\* (dead zone, speed and the debt decide).
Move(p, cur, moves) ==
    IF ~(cur.touch /\ p.pressed) THEN p
    ELSE IF moves /\ cur.pos # p.lastPos
    THEN [p EXCEPT !.lastPos = cur.pos, !.drag = TRUE, !.taps = 0]
    ELSE [p EXCEPT !.lastPos = cur.pos]

\* Every event that the packet writes.  LAST reports what is left.  (`queued`
\* is never reset, so later on LAST also ends empty reports, which the kernel
\* drops.)
Written(cur) ==
    LET p == Touch(cur)
        w == KeyEdge("A", "BTN_LEFT", cur) \o KeyEdge("B", "BTN_RIGHT", cur)
             \o XEdge(cur)
             \o KeyEdge("L", "BTN_LEFT", cur) \o KeyEdge("R", "BTN_RIGHT", cur)
             \o (IF Due(p) THEN Click(TapKey(p.taps)) ELSE <<>>)
    IN  IF w = <<>> THEN <<>> ELSE Append(w, SYN)

\* What the kernel makes of the events: the last one of a key counts.
After(k, events) ==
    {key \in MouseKeys :
        LET S == {i \in DOMAIN events : events[i][1] = key}
        IN  IF S = {} THEN key \in k
            ELSE events[CHOOSE i \in S : \A j \in S : j <= i] = Down(key)}

-----------------------------------------------------------------------------
\* An input packet arrives; moves matters only for a touch that moved.
Packet(cur, moves) ==
    /\ moves => cur.touch /\ cur.pos # pad.lastPos
    /\ out' = Written(cur)
    /\ keys' = After(keys, Written(cur))
    /\ pad' = Move(Flush(Touch(cur)), cur, moves)
    /\ xAge' = IF "X" \in cur.buttons \ prev.buttons THEN 0 ELSE xAge
    /\ seen' = IF ~cur.touch THEN seen
               ELSE IF prev.touch THEN seen \cup {cur.pos} ELSE {cur.pos}
    /\ prev' = cur
    /\ quiet' = FALSE

Tick ==
    /\ xAge' = AtMost(XCap, xAge + 1)
    /\ pad' = [pad EXCEPT !.touchAge = AtMost(TouchCap, @ + 1),
                          !.releaseAge = AtMost(ReleaseCap, @ + 1)]
    /\ out' = <<>>
    /\ quiet' = TRUE
    /\ UNCHANGED <<prev, keys, seen>>

Next ==
    \/ \E cur \in Packets, moves \in BOOLEAN : Packet(cur, moves)
    \/ Tick

Spec == Init /\ [][Next]_vars

\* Time goes on, and the console streams: packets keep arriving.
FairSpec == Spec /\ []<>quiet /\ []<>~quiet

-----------------------------------------------------------------------------
\* The 3DS buttons that hold a mouse key
Holders(key) ==
    CASE key = "BTN_LEFT" -> {"A", "L"} [] key = "BTN_RIGHT" -> {"B", "R"}
      [] OTHER -> {}

\* No key is stuck: whatever packets were lost or overtaken, a mouse key is
\* up when the last packet has none of its buttons.
NoStuckButton ==
    \A key \in MouseKeys : Holders(key) \cap prev.buttons = {} => key \notin keys

\* A touch that stayed where it began and was short is one tap more, after
\* any drag or long touch and wherever the touch before it was.
StillTapCounts ==
    [][ /\ prev.touch /\ ~prev'.touch
        /\ Cardinality(seen) = 1
        /\ pad.touchAge < TapRelease
        => pad'.taps = AtMost(TapCap, pad.taps + 1) ]_vars

\* Pending taps end in one of three ways: as the click of their number, with
\* the finger up; in a touch that moved; or with a touch that was too long.
TapOutcome ==
    [][ pad.taps > 0 /\ pad'.taps = 0
        => \/ /\ ~prev.touch /\ ~prev'.touch
              /\ pad.releaseAge > TapReenter
              /\ \E i \in DOMAIN out' : out'[i] = Down(TapKey(pad.taps))
           \/ prev.touch /\ prev'.touch /\ Cardinality(seen') > 1
           \/ prev.touch /\ ~prev'.touch /\ pad.touchAge >= TapRelease ]_vars

\* A tap is clicked in the end, unless the finger comes down again.
TapResolves == pad.taps > 0 ~> pad.taps = 0 \/ pad.pressed
=============================================================================
