--------------------------- MODULE Pipeline_proofs ---------------------------
(***************************************************************************)
(* Theorems about CemuFrame and about Pipeline, which extends it.          *)
(*                                                                         *)
(* CemuFrame: type correctness; that what is sent for a packet is that     *)
(* packet (the setters compose, and what translate makes of the Relayed    *)
(* buttons does not depend on the frame it found); and that a call leaves  *)
(* the buttons alone that it is not about.                                 *)
(*                                                                         *)
(* Pipeline: that it is CemuFrame, so that what is proved there holds      *)
(* here; type correctness; and that it implements DeviceViews.  Why it     *)
(* does: from Receive to PadLast no call of the owner comes in between, so *)
(* the frame is the packet in hand (FrameFollowsPacket), and apply leaves  *)
(* nothing of the packet before on the device.                             *)
(***************************************************************************)
EXTENDS Pipeline, TLAPS

-----------------------------------------------------------------------------
(* CemuFrame: the setters *)

LEMMA ButtonSets ==
    /\ Dpad \subseteq Analogs /\ Triggers \subseteq Analogs
    /\ Analogs \subseteq DsuButtons /\ "TOUCH_BUTTON" \in DsuButtons
    /\ "L2" \in Triggers /\ "R2" \in Triggers
    /\ "TOUCH_BUTTON" \notin Analogs
BY DEF Dpad, Triggers, Analogs, DsuButtons

\* The setters in terms of the fields of the frame they yield

LEMMA SetButtonsFields ==
    ASSUME NEW f \in Frames, NEW among, NEW on
    PROVE  LET g == SetButtons(f, among, on)
           IN  /\ g.bits = (f.bits \ among) \cup on
               /\ g.derive = f.derive
               /\ g.analog = [b \in Analogs |->
                      IF ~f.derive /\ b \in among
                      THEN IF b \in on THEN Full ELSE 0
                      ELSE f.analog[b]]
BY DEF SetButtons

LEMMA SetButtonsBits ==
    ASSUME NEW f \in Frames, NEW among, NEW on
    PROVE  SetButtons(f, among, on).bits = (f.bits \ among) \cup on
BY DEF SetButtons

LEMMA SetButtonsType ==
    ASSUME NEW f \in Frames, NEW among \in SUBSET DsuButtons,
           NEW on \in SUBSET DsuButtons
    PROVE  SetButtons(f, among, on) \in Frames
BY FrameAssumption DEF SetButtons, Frames, Pressures

LEMMA SentType ==
    ASSUME NEW f \in Frames
    PROVE  Sent(f) \in [Analogs -> Pressures]
BY FrameAssumption DEF Sent, Digital, Frames, Pressures

LEMMA SetPressureType ==
    ASSUME NEW f \in Frames, NEW b, NEW amount \in Pressures
    PROVE  SetPressure(f, b, amount) \in Frames
<1>1. Sent(f) \in [Analogs -> Pressures]
  BY SentType
<1> QED
  BY <1>1 DEF SetPressure, Frames

LEMMA SetBitType ==
    ASSUME NEW f \in Frames, NEW b \in DsuButtons, NEW down \in BOOLEAN
    PROVE  /\ SetBit(f, b, down) \in Frames
           /\ SetBit(f, b, down).bits =
                 IF down THEN f.bits \cup {b} ELSE f.bits \ {b}
           /\ SetBit(f, b, down).analog = f.analog
           /\ SetBit(f, b, down).derive = f.derive
BY DEF SetBit, Frames

LEMMA SetTriggerType ==
    ASSUME NEW f \in Frames, NEW b \in Triggers, NEW amount \in Pressures
    PROVE  SetTrigger(f, b, amount) \in Frames
<1>1. b \in Analogs /\ b \in DsuButtons
  BY ButtonSets
<1>2. (amount > 0) \in BOOLEAN
  OBVIOUS
<1>3. SetBit(f, b, amount > 0) \in Frames
  BY <1>1, <1>2, SetBitType
<1> QED
  BY <1>1, <1>3, SetPressureType DEF SetTrigger

-----------------------------------------------------------------------------
(* What the setters do to the pressures that are sent *)

LEMMA SentButtons ==
    ASSUME NEW f \in Frames, NEW among \in SUBSET DsuButtons,
           NEW on \in SUBSET among, NEW b \in Analogs
    PROVE  Sent(SetButtons(f, among, on))[b] =
               IF b \in among THEN IF b \in on THEN Full ELSE 0 ELSE Sent(f)[b]
<1> DEFINE g == SetButtons(f, among, on)
<1>1. /\ g.bits = (f.bits \ among) \cup on
      /\ g.derive = f.derive
      /\ g.analog = [a \in Analogs |->
            IF ~f.derive /\ a \in among THEN IF a \in on THEN Full ELSE 0
            ELSE f.analog[a]]
  BY SetButtonsFields
<1> DEFINE r == IF b \in among THEN IF b \in on THEN Full ELSE 0 ELSE Sent(f)[b]
<1> SUFFICES Sent(g)[b] = r
  OBVIOUS
<1> HIDE DEF g
<1>2. CASE f.derive
  BY <1>1, <1>2 DEF Sent, Digital
<1>3. CASE ~f.derive
  BY <1>1, <1>3 DEF Sent
<1> QED
  BY <1>2, <1>3

LEMMA SentPressure ==
    ASSUME NEW f \in Frames, NEW b, NEW amount \in Pressures,
           NEW a \in Analogs
    PROVE  Sent(SetPressure(f, b, amount))[a] =
               IF a = b THEN amount ELSE Sent(f)[a]
BY DEF SetPressure, Sent

LEMMA SetTriggerFields ==
    ASSUME NEW f \in Frames, NEW b \in Triggers, NEW amount \in Pressures
    PROVE  SetTrigger(f, b, amount).bits =
               IF amount > 0 THEN f.bits \cup {b} ELSE f.bits \ {b}
<1> DEFINE g == SetBit(f, b, amount > 0)
<1>1. b \in DsuButtons /\ (amount > 0) \in BOOLEAN
  BY ButtonSets
<1>2. g.bits = IF amount > 0 THEN f.bits \cup {b} ELSE f.bits \ {b}
  BY DEF SetBit, Frames
<1>3. SetTrigger(f, b, amount) = SetPressure(g, b, amount)
  BY DEF SetTrigger
<1>4. SetPressure(g, b, amount).bits = g.bits
  BY DEF SetPressure
<1> HIDE DEF g
<1> QED
  BY <1>2, <1>3, <1>4

LEMMA SentTrigger ==
    ASSUME NEW f \in Frames, NEW b \in Triggers, NEW amount \in Pressures,
           NEW a \in Analogs
    PROVE  Sent(SetTrigger(f, b, amount))[a] =
               IF a = b THEN amount ELSE Sent(f)[a]
<1> DEFINE g == SetBit(f, b, amount > 0)
<1>1. b \in Analogs /\ b \in DsuButtons /\ (amount > 0) \in BOOLEAN
  BY ButtonSets
<1>2. /\ g \in Frames
      /\ g.bits = IF amount > 0 THEN f.bits \cup {b} ELSE f.bits \ {b}
      /\ g.analog = f.analog
      /\ g.derive = f.derive
  BY <1>1, SetBitType
<1>3. SetTrigger(f, b, amount) = SetPressure(g, b, amount)
  BY DEF SetTrigger
<1> HIDE DEF g
<1>4. a # b => Sent(g)[a] = Sent(f)[a]
  BY <1>2 DEF Sent, Digital
<1>5. Sent(SetPressure(g, b, amount))[a] = IF a = b THEN amount ELSE Sent(g)[a]
  BY <1>1, <1>2, SentPressure
<1> QED
  BY <1>3, <1>4, <1>5

LEMMA DpadOfType ==
    ASSUME NEW pressed
    PROVE  DpadOf(pressed) \in SUBSET Dpad
BY DEF DpadOf, Dpad

LEMMA TableFacts ==
    ASSUME NEW pressed \in SUBSET Buttons
    PROVE  LET S == {Table[k] : k \in DOMAIN Table \cap pressed}
           IN  /\ TableButtons = {"A", "B", "X", "Y", "L1", "R1", "SHARE", "OPTIONS"}
               /\ S \in SUBSET TableButtons
               /\ DpadOf(pressed) \in SUBSET Dpad
               /\ TriggerAmount(pressed, "ZL") \in Pressures
               /\ TriggerAmount(pressed, "ZR") \in Pressures
               /\ TriggerAmount(pressed, "ZL") > 0 <=> "ZL" \in pressed
               /\ TriggerAmount(pressed, "ZR") > 0 <=> "ZR" \in pressed
<1>1. DOMAIN Table = {"A", "B", "X", "Y", "L", "R", "SELECT", "START"}
  BY DEF Table
<1>2. TableButtons = {"A", "B", "X", "Y", "L1", "R1", "SHARE", "OPTIONS"}
  BY DEF Table, TableButtons
<1>3. {Table[k] : k \in DOMAIN Table \cap pressed} \in SUBSET TableButtons
  BY DEF TableButtons
<1>4. DpadOf(pressed) \in SUBSET Dpad
  BY DpadOfType
<1> QED
  BY <1>2, <1>3, <1>4, FrameAssumption DEF TriggerAmount, Pressures

\* translate, from any frame: the frame of the packet
LEMMA TranslatedIsMeant ==
    ASSUME NEW f \in Frames, NEW p \in Packets
    PROVE  /\ Translated(f, p) \in Frames
           /\ Translated(f, p).bits \cap Relayed = Meant(p)
           /\ Sent(Translated(f, p)) = Digital(Meant(p))
<1> DEFINE S == {Table[k] : k \in DOMAIN Table \cap p.buttons}
           D == DpadOf(p.buttons)
           zl == TriggerAmount(p.buttons, "ZL")
           zr == TriggerAmount(p.buttons, "ZR")
           face == SetButtons(f, TableButtons, S)
           dpad == SetButtons(face, Dpad, D)
           left == SetTrigger(dpad, "L2", zl)
           both == SetTrigger(left, "R2", zr)
           g == SetBit(both, "TOUCH_BUTTON", p.touch)
<1>1. p.buttons \in SUBSET Buttons /\ p.touch \in BOOLEAN
  BY PressableAssumption DEF Packets, Pack
<1>2. /\ TableButtons = {"A", "B", "X", "Y", "L1", "R1", "SHARE", "OPTIONS"}
      /\ S \in SUBSET TableButtons
      /\ D \in SUBSET Dpad
      /\ zl \in Pressures /\ zr \in Pressures
      /\ zl > 0 <=> "ZL" \in p.buttons
      /\ zr > 0 <=> "ZR" \in p.buttons
  BY <1>1, TableFacts
<1>3. TableButtons \subseteq DsuButtons
  BY <1>2 DEF DsuButtons, Analogs
<1> HIDE DEF S, D, zl, zr
<1>4. /\ face \in Frames
      /\ face.bits = (f.bits \ TableButtons) \cup S
      /\ \A b \in Analogs : Sent(face)[b] =
            IF b \in TableButtons THEN IF b \in S THEN Full ELSE 0 ELSE Sent(f)[b]
  <2>1. /\ f \in Frames /\ TableButtons \in SUBSET DsuButtons
        /\ S \in SUBSET TableButtons /\ S \in SUBSET DsuButtons
    BY <1>2, <1>3
  <2>2. face \in Frames
    BY <2>1, SetButtonsType
  <2>3. face.bits = (f.bits \ TableButtons) \cup S
    BY <2>1, SetButtonsBits
  <2>4. ASSUME NEW b \in Analogs
        PROVE  Sent(face)[b] =
            IF b \in TableButtons THEN IF b \in S THEN Full ELSE 0 ELSE Sent(f)[b]
    BY <2>1, SentButtons
  <2> HIDE DEF face
  <2> QED
    BY <2>2, <2>3, <2>4
<1> HIDE DEF face
<1>5. /\ dpad \in Frames
      /\ dpad.bits = (face.bits \ Dpad) \cup D
      /\ \A b \in Analogs : Sent(dpad)[b] =
            IF b \in Dpad THEN IF b \in D THEN Full ELSE 0 ELSE Sent(face)[b]
  <2>1. /\ face \in Frames /\ Dpad \in SUBSET DsuButtons
        /\ D \in SUBSET Dpad /\ D \in SUBSET DsuButtons
    BY <1>2, <1>4, ButtonSets
  <2>2. dpad \in Frames
    BY <2>1, SetButtonsType
  <2>3. dpad.bits = (face.bits \ Dpad) \cup D
    BY <2>1, SetButtonsBits
  <2>4. ASSUME NEW b \in Analogs
        PROVE  Sent(dpad)[b] =
            IF b \in Dpad THEN IF b \in D THEN Full ELSE 0 ELSE Sent(face)[b]
    BY <2>1, SentButtons
  <2> HIDE DEF dpad
  <2> QED
    BY <2>2, <2>3, <2>4
<1> HIDE DEF dpad
<1>6. /\ left \in Frames
      /\ left.bits = IF zl > 0 THEN dpad.bits \cup {"L2"} ELSE dpad.bits \ {"L2"}
      /\ \A b \in Analogs : Sent(left)[b] = IF b = "L2" THEN zl ELSE Sent(dpad)[b]
  <2>1. dpad \in Frames /\ "L2" \in Triggers /\ zl \in Pressures
    BY <1>2, <1>5, ButtonSets
  <2>2. left \in Frames
    BY <2>1, SetTriggerType
  <2>3. left.bits = IF zl > 0 THEN dpad.bits \cup {"L2"} ELSE dpad.bits \ {"L2"}
    BY <2>1, SetTriggerFields
  <2>4. ASSUME NEW b \in Analogs
        PROVE  Sent(left)[b] = IF b = "L2" THEN zl ELSE Sent(dpad)[b]
    BY <2>1, SentTrigger
  <2> HIDE DEF left
  <2> QED
    BY <2>2, <2>3, <2>4
<1> HIDE DEF left
<1>7. /\ both \in Frames
      /\ both.bits = IF zr > 0 THEN left.bits \cup {"R2"} ELSE left.bits \ {"R2"}
      /\ \A b \in Analogs : Sent(both)[b] = IF b = "R2" THEN zr ELSE Sent(left)[b]
      /\ both.derive = FALSE
  <2>1. left \in Frames /\ "R2" \in Triggers /\ zr \in Pressures
    BY <1>2, <1>6, ButtonSets
  <2>2. both \in Frames
    BY <2>1, SetTriggerType
  <2>3. both.bits = IF zr > 0 THEN left.bits \cup {"R2"} ELSE left.bits \ {"R2"}
    BY <2>1, SetTriggerFields
  <2>4. ASSUME NEW b \in Analogs
        PROVE  Sent(both)[b] = IF b = "R2" THEN zr ELSE Sent(left)[b]
    BY <2>1, SentTrigger
  <2>5. both.derive = FALSE
    BY DEF SetTrigger, SetPressure
  <2> HIDE DEF both
  <2> QED
    BY <2>2, <2>3, <2>4, <2>5
<1> HIDE DEF both
<1>8. /\ g \in Frames
      /\ g.bits = IF p.touch THEN both.bits \cup {"TOUCH_BUTTON"}
                  ELSE both.bits \ {"TOUCH_BUTTON"}
      /\ Sent(g) = Sent(both)
  <2>1. /\ g \in Frames
        /\ g.bits = IF p.touch THEN both.bits \cup {"TOUCH_BUTTON"}
                    ELSE both.bits \ {"TOUCH_BUTTON"}
        /\ g.analog = both.analog
        /\ g.derive = both.derive
    BY <1>1, <1>7, ButtonSets, SetBitType
  <2> HIDE DEF g
  <2> QED
    BY <1>7, <2>1 DEF Sent
<1>9. Translated(f, p) = g
  BY DEF Translated, face, dpad, left, both, S, D, zl, zr
<1> HIDE DEF g
<1>10. Meant(p) = S \cup D \cup (IF "ZL" \in p.buttons THEN {"L2"} ELSE {})
                  \cup (IF "ZR" \in p.buttons THEN {"R2"} ELSE {})
                  \cup (IF p.touch THEN {"TOUCH_BUTTON"} ELSE {})
  BY DEF Meant, S, D
<1>11. g.bits \cap Relayed = Meant(p)
  BY <1>2, <1>4, <1>5, <1>6, <1>7, <1>8, <1>10 DEF Relayed, Triggers, Dpad
<1>12. ASSUME NEW b \in Analogs
       PROVE  Sent(g)[b] = Digital(Meant(p))[b]
  <2>1. Digital(Meant(p))[b] = IF b \in Meant(p) THEN Full ELSE 0
    BY DEF Digital
  <2>2. CASE b \in TableButtons
    BY <1>2, <1>4, <1>5, <1>6, <1>7, <1>8, <1>10, <2>1, <2>2 DEF Dpad
  <2>3. CASE b \in Dpad
    BY <1>2, <1>4, <1>5, <1>6, <1>7, <1>8, <1>10, <2>1, <2>3 DEF Dpad
  <2>4. CASE b = "L2"
    BY <1>2, <1>6, <1>7, <1>8, <1>10, <2>1, <2>4 DEF Dpad, zl, TriggerAmount
  <2>5. CASE b = "R2"
    BY <1>2, <1>6, <1>7, <1>8, <1>10, <2>1, <2>5 DEF Dpad, zr, TriggerAmount
  <2> QED
    BY <1>2, <2>2, <2>3, <2>4, <2>5 DEF Analogs, Triggers, Dpad
<1>13. Sent(g) = Digital(Meant(p))
  <2>1. Sent(g) \in [Analogs -> Pressures]
    BY <1>8, SentType
  <2>2. Digital(Meant(p)) \in [Analogs -> Pressures]
    BY FrameAssumption DEF Digital, Pressures
  <2> QED
    BY <1>12, <2>1, <2>2
<1> QED
  BY <1>8, <1>9, <1>11, <1>13

-----------------------------------------------------------------------------
LEMMA InitType == Init => TypeOK
<1> SUFFICES ASSUME Init
             PROVE  TypeOK
  OBVIOUS
<1>1. frame.analog \in [Analogs -> Pressures]
  BY FrameAssumption DEF Init, Pressures
<1>2. frame \in Frames
  BY <1>1 DEF Init, Frames
<1>3. 0 \in 0..IdMod - 1
  BY FrameAssumption
<1>4. touch \in [active : BOOLEAN, id : 0..IdMod - 1]
  BY <1>3 DEF Init
<1> QED
  BY <1>2, <1>3, <1>4 DEF Init, TypeOK

LEMMA NextTouchIdType ==
    ASSUME TypeOK, NEW p \in Packets
    PROVE  NextTouchId(p) \in 0..IdMod - 1
BY FrameAssumption DEF TypeOK, NextTouchId

LEMMA NextType == TypeOK /\ [Next]_vars => TypeOK'
<1> SUFFICES ASSUME TypeOK, [Next]_vars
             PROVE  TypeOK'
  OBVIOUS
<1>1. ASSUME NEW p \in Packets, Packet(p)
      PROVE  TypeOK'
  <2>1. Translated(frame, p) \in Frames
    BY TranslatedIsMeant DEF TypeOK
  <2>2. NextTouchId(p) \in 0..IdMod - 1
    BY NextTouchIdType
  <2>3. p.touch \in BOOLEAN
    BY DEF Packets, Pack
  <2> QED
    BY <1>1, <2>1, <2>2, <2>3 DEF Packet, TypeOK
<1>2. ASSUME NEW f \in Frames, NEW about \in SUBSET DsuButtons, Call(f, about)
      PROVE  TypeOK'
  BY <1>2 DEF Call, TypeOK
<1>3. ASSUME NEW b \in ApiButtons, NEW down \in BOOLEAN, PressOrRelease(b, down)
      PROVE  TypeOK'
  <2>1. b \in DsuButtons
    BY FrameAssumption
  <2>2. SetButtons(frame, {b}, IF down THEN {b} ELSE {}) \in Frames
    BY <2>1, SetButtonsType DEF TypeOK
  <2> QED
    BY <1>2, <1>3, <2>1, <2>2 DEF PressOrRelease
<1>4. ASSUME NEW b \in ApiButtons \cap Triggers, NEW amount \in Pressures,
             CallTrigger(b, amount)
      PROVE  TypeOK'
  <2>1. SetTrigger(frame, b, amount) \in Frames
    BY SetTriggerType DEF TypeOK
  <2> QED
    BY <1>2, <1>4, <2>1, FrameAssumption DEF CallTrigger
<1>5. ASSUME NEW b \in ApiButtons, NEW amount \in Pressures,
             CallPressure(b, amount)
      PROVE  TypeOK'
  <2>1. SetPressure(frame, b, amount) \in Frames
    BY SetPressureType DEF TypeOK
  <2> QED
    BY <1>2, <1>5, <2>1, FrameAssumption DEF CallPressure
<1>6. CASE ClearPressures
  <2>1. [frame EXCEPT !.derive = TRUE] \in Frames
    BY DEF TypeOK, Frames
  <2> QED
    BY <1>2, <1>6, <2>1 DEF ClearPressures
<1>7. ASSUME NEW pressed \in SUBSET Pressable, CallDpad(pressed)
      PROVE  TypeOK'
  <2>1. Dpad \in SUBSET DsuButtons /\ DpadOf(pressed) \in SUBSET DsuButtons
    BY ButtonSets, DpadOfType
  <2>2. SetButtons(frame, Dpad, DpadOf(pressed)) \in Frames
    BY <2>1, SetButtonsType DEF TypeOK
  <2> QED
    BY <1>2, <1>7, <2>1, <2>2 DEF CallDpad
<1>8. CASE UNCHANGED vars
  BY <1>8 DEF vars, TypeOK
<1> QED
  BY <1>1, <1>3, <1>4, <1>5, <1>6, <1>7, <1>8 DEF Next, Setter

\* Every frame that is built is a frame of the protocol: known buttons and
\* pressures in range, and a touch id that fits its byte.
THEOREM TypeSafe == Spec => []TypeOK
BY InitType, NextType, PTL DEF Spec

-----------------------------------------------------------------------------
\* Only a packet sets `packet`; any call clears it.
LEMMA NextFollows ==
    TypeOK /\ FrameFollowsPacket /\ [Next]_vars => FrameFollowsPacket'
<1> SUFFICES ASSUME TypeOK, FrameFollowsPacket, [Next]_vars
             PROVE  FrameFollowsPacket'
  OBVIOUS
<1>1. ASSUME NEW p \in Packets, Packet(p)
      PROVE  FrameFollowsPacket'
  BY <1>1, TranslatedIsMeant DEF Packet, TypeOK, FrameFollowsPacket
<1>2. ASSUME packet' = NoPacket
      PROVE  FrameFollowsPacket'
  BY <1>2 DEF FrameFollowsPacket
<1>3. CASE UNCHANGED vars
  BY <1>3 DEF vars, FrameFollowsPacket
<1> QED
  BY <1>1, <1>2, <1>3
     DEF Next, Setter, PressOrRelease, CallDpad, CallTrigger, CallPressure,
         ClearPressures, Call

\* What is sent for a packet is that packet, from any frame before it.
THEOREM FrameSafe == Spec => []FrameFollowsPacket
<1>1. Init => FrameFollowsPacket
  BY DEF Init, FrameFollowsPacket
<1> QED
  BY <1>1, NextFollows, TypeSafe, PTL DEF Spec

-----------------------------------------------------------------------------
KeptExcept(f, g, about) ==
    \A b \in DsuButtons \ about :
        /\ b \in g.bits <=> b \in f.bits
        /\ b \in Analogs => Sent(g)[b] = Sent(f)[b]

LEMMA SettersKeep ==
    ASSUME NEW f \in Frames
    PROVE  /\ \A among \in SUBSET DsuButtons : \A on \in SUBSET among :
                 KeptExcept(f, SetButtons(f, among, on), among)
           /\ \A b \in Triggers, amount \in Pressures :
                 KeptExcept(f, SetTrigger(f, b, amount), {b})
           /\ \A b \in DsuButtons, amount \in Pressures :
                 KeptExcept(f, SetPressure(f, b, amount), {b})
<1>1. ASSUME NEW among \in SUBSET DsuButtons, NEW on \in SUBSET among
      PROVE  KeptExcept(f, SetButtons(f, among, on), among)
  <2> DEFINE g == SetButtons(f, among, on)
  <2>1. g.bits = (f.bits \ among) \cup on
    BY SetButtonsBits
  <2>2. ASSUME NEW a \in Analogs, a \notin among
        PROVE  Sent(g)[a] = Sent(f)[a]
    BY <2>2, SentButtons
  <2> HIDE DEF g
  <2>3. KeptExcept(f, g, among)
    BY <2>1, <2>2 DEF KeptExcept
  <2> QED
    BY <2>3 DEF g
<1>2. ASSUME NEW b \in Triggers, NEW amount \in Pressures
      PROVE  KeptExcept(f, SetTrigger(f, b, amount), {b})
  <2> DEFINE g == SetTrigger(f, b, amount)
  <2>1. g.bits = IF amount > 0 THEN f.bits \cup {b} ELSE f.bits \ {b}
    BY SetTriggerFields
  <2>2. ASSUME NEW a \in Analogs, a # b
        PROVE  Sent(g)[a] = Sent(f)[a]
    BY <2>2, SentTrigger
  <2> HIDE DEF g
  <2>3. KeptExcept(f, g, {b})
    BY <2>1, <2>2 DEF KeptExcept
  <2> QED
    BY <2>3 DEF g
<1>3. ASSUME NEW b \in DsuButtons, NEW amount \in Pressures
      PROVE  KeptExcept(f, SetPressure(f, b, amount), {b})
  <2> DEFINE g == SetPressure(f, b, amount)
  <2>1. g.bits = f.bits
    BY DEF SetPressure
  <2>2. ASSUME NEW a \in Analogs, a # b
        PROVE  Sent(g)[a] = Sent(f)[a]
    BY <2>2, SentPressure
  <2> HIDE DEF g
  <2>3. KeptExcept(f, g, {b})
    BY <2>1, <2>2 DEF KeptExcept
  <2> QED
    BY <2>3 DEF g
<1> QED
  BY <1>1, <1>2, <1>3

LEMMA StepKeeps == TypeOK /\ [Next]_vars => KeptExcept(frame, frame', aimed') \/ UNCHANGED vars
<1> SUFFICES ASSUME TypeOK, Next
             PROVE  KeptExcept(frame, frame', aimed')
  OBVIOUS
<1>1. frame \in Frames /\ ApiButtons \subseteq DsuButtons
  BY FrameAssumption DEF TypeOK
<1>2. ASSUME NEW p \in Packets, Packet(p)
      PROVE  KeptExcept(frame, frame', aimed')
  BY <1>2 DEF Packet, KeptExcept
<1>3. ASSUME NEW b \in ApiButtons, NEW down \in BOOLEAN, PressOrRelease(b, down)
      PROVE  KeptExcept(frame, frame', aimed')
  <2> DEFINE on == IF down THEN {b} ELSE {}
  <2>1. {b} \in SUBSET DsuButtons /\ on \in SUBSET {b}
    BY <1>1
  <2>2. frame' = SetButtons(frame, {b}, on) /\ aimed' = {b}
    BY <1>3 DEF PressOrRelease, Call
  <2> HIDE DEF on
  <2> QED
    BY <1>1, <2>1, <2>2, SettersKeep
<1>4. ASSUME NEW b \in ApiButtons \cap Triggers, NEW amount \in Pressures,
             CallTrigger(b, amount)
      PROVE  KeptExcept(frame, frame', aimed')
  BY <1>1, <1>4, SettersKeep DEF CallTrigger, Call
<1>5. ASSUME NEW b \in ApiButtons, NEW amount \in Pressures,
             CallPressure(b, amount)
      PROVE  KeptExcept(frame, frame', aimed')
  BY <1>1, <1>5, SettersKeep DEF CallPressure, Call
<1>6. CASE ClearPressures
  BY <1>6 DEF ClearPressures, Call, KeptExcept
<1>7. ASSUME NEW pressed \in SUBSET Pressable, CallDpad(pressed)
      PROVE  KeptExcept(frame, frame', aimed')
  <2>1. Dpad \in SUBSET DsuButtons /\ DpadOf(pressed) \in SUBSET Dpad
    BY ButtonSets, DpadOfType
  <2>2. frame' = SetButtons(frame, Dpad, DpadOf(pressed)) /\ aimed' = Dpad
    BY <1>7 DEF CallDpad, Call
  <2> QED
    BY <1>1, <2>1, <2>2, SettersKeep
<1> QED
  BY <1>2, <1>3, <1>4, <1>5, <1>6, <1>7 DEF Next, Setter

\* A setter changes what is sent of its own button and of no other.
THEOREM OthersSafe == Spec => OthersKept
<1>1. TypeOK /\ [Next]_vars =>
        [\A b \in DsuButtons \ aimed' :
            /\ b \in frame'.bits <=> b \in frame.bits
            /\ b \in Analogs => Sent(frame')[b] = Sent(frame)[b]]_vars
  BY StepKeeps DEF KeptExcept
<1> QED
  BY <1>1, TypeSafe, PTL DEF Spec, OthersKept

-----------------------------------------------------------------------------
\* The touch that was sent is the one that translate remembers.
Remembered == touch.active = prev_touch /\ touch.id = touch_id

LEMMA NextRemembered == TypeOK /\ Remembered /\ [Next]_vars => Remembered'
<1> SUFFICES ASSUME TypeOK, Remembered, [Next]_vars
             PROVE  Remembered'
  OBVIOUS
<1>1. ASSUME NEW p \in Packets, Packet(p)
      PROVE  Remembered'
  BY <1>1 DEF Packet, Remembered
<1>2. ASSUME UNCHANGED <<touch, prev_touch, touch_id>>
      PROVE  Remembered'
  BY <1>2 DEF Remembered
<1> QED
  BY <1>1, <1>2
     DEF Next, Setter, PressOrRelease, CallDpad, CallTrigger, CallPressure,
         ClearPressures, Call, vars

LEMMA NextIdDiffers ==
    ASSUME NEW n \in 0..IdMod - 1
    PROVE  (n + 1) % IdMod # n
<1>1. IdMod \in Nat /\ IdMod > 1
  BY FrameAssumption
<1>2. CASE n = IdMod - 1
  <2>1. (n + 1) % IdMod = 0
    BY <1>1, <1>2
  <2> QED
    BY <1>1, <1>2, <2>1
<1>3. CASE n # IdMod - 1
  <2>1. (n + 1) % IdMod = n + 1
    BY <1>1, <1>3
  <2> QED
    BY <2>1
<1> QED
  BY <1>2, <1>3

\* The id of a touch stays while the finger is down and changes from one
\* touch to the next, packets lost or not, for any width of the counter.
THEOREM TouchSafe == Spec => TouchIdStable
<1>1. Init => Remembered
  <2> SUFFICES ASSUME Init
               PROVE  Remembered
    OBVIOUS
  <2>1. touch.active = FALSE /\ touch.id = 0
    BY DEF Init
  <2> QED
    BY <2>1 DEF Init, Remembered
<1>2. TypeOK /\ Remembered /\ [Next]_vars =>
        [touch'.active => (touch'.id = touch.id <=> touch.active)]_<<touch, packet>>
  <2> SUFFICES ASSUME TypeOK, Remembered, [Next]_vars,
                      <<touch, packet>>' # <<touch, packet>>
               PROVE  touch'.active => (touch'.id = touch.id <=> touch.active)
    OBVIOUS
  <2>1. ASSUME NEW p \in Packets, Packet(p)
        PROVE  touch'.active => (touch'.id = touch.id <=> touch.active)
    <3>1. touch_id \in 0..IdMod - 1 /\ (touch_id + 1) % IdMod # touch_id
      BY NextIdDiffers DEF TypeOK
    <3>2. touch'.active = p.touch /\ touch'.id = NextTouchId(p)
      BY <2>1 DEF Packet
    <3>3. CASE prev_touch
      BY <3>2, <3>3 DEF NextTouchId, Remembered
    <3>4. CASE ~prev_touch
      BY <3>1, <3>2, <3>4 DEF NextTouchId, Remembered
    <3> QED
      BY <3>3, <3>4
  <2>2. ASSUME NEW f, NEW about, Call(f, about)
        PROVE  touch'.active => (touch'.id = touch.id <=> touch.active)
    BY <2>2 DEF Call
  <2> QED
    BY <2>1, <2>2
       DEF Next, Setter, PressOrRelease, CallDpad, CallTrigger, CallPressure,
           ClearPressures, vars
<1> QED
  BY <1>1, <1>2, NextRemembered, TypeSafe, PTL DEF Spec, TouchIdStable

-----------------------------------------------------------------------------
(* Pipeline *)

\* Every step of the pipeline is a step of CemuFrame or none.
THEOREM PipelineIsFrame == PipelineSpec => Spec
<1>1. PipelineInit => Init
  BY DEF PipelineInit
<1>2. [PipelineNext]_allVars => [Next]_vars
  BY DEF PipelineNext, allVars, Receive, PadAlways, RelayLast, PadLast,
         WriteFails, Leave, Vanish, Set, Next
<1> QED
  BY <1>1, <1>2, PTL DEF PipelineSpec, Spec

-----------------------------------------------------------------------------
(* The inductive invariant *)

Busy == pc \in {"padAlways", "relayLast", "padLast"}

InHand == Busy => packet = cur /\ touch.active = cur.touch

Applied == pc \in {"relayLast", "padLast"} => device = PadImageOf[cur]

Plugged == pc # "gone" => shown \in Devices

Inv == PipelineTypeOK /\ FrameFollowsPacket /\ InHand /\ Applied /\ Plugged

LEMMA NoInputIsPacket ==
    /\ NoInput \in Packets
    /\ NoInput.buttons = {} /\ NoInput.touch = FALSE
<1>1. 0 \in Positions
  BY PositionAssumption DEF Positions
<1>2. NoInput \in Packets
  <2>1. \E h \in SUBSET Pressable, t \in BOOLEAN, at \in Positions :
           NoInput = Pack(h, t, at)
    <3>1. WITNESS {} \in SUBSET Pressable, FALSE \in BOOLEAN, 0 \in Positions
    <3> QED
      BY DEF NoInput
  <2> QED
    BY <2>1 DEF Packets
<1> QED
  BY <1>2 DEF NoInput, Pack

LEMMA PacketFields ==
    ASSUME NEW p \in Packets
    PROVE  p.buttons \in SUBSET Buttons /\ p.touch \in BOOLEAN
BY PressableAssumption DEF Packets, Pack

LEMMA PadImageType ==
    ASSUME NEW p \in Packets
    PROVE  /\ PadImageOf[p] \in Devices
           /\ PadImageOf[p] =
                 [keys |-> {PadKey[k] : k \in DOMAIN PadKey \cap p.buttons},
                  x |-> Axis(p.buttons, "RIGHT", "LEFT"),
                  y |-> Axis(p.buttons, "DOWN", "UP"),
                  left |-> TriggerAmount(p.buttons, "ZL"),
                  right |-> TriggerAmount(p.buttons, "ZR")]
<1>1. {PadKey[k] : k \in DOMAIN PadKey \cap p.buttons} \in SUBSET PadKeys
  BY DEF PadKeys
<1>2. /\ Axis(p.buttons, "RIGHT", "LEFT") \in Hat
      /\ Axis(p.buttons, "DOWN", "UP") \in Hat
  BY DEF Axis, Hat
<1>3. /\ TriggerAmount(p.buttons, "ZL") \in {0, Full}
      /\ TriggerAmount(p.buttons, "ZR") \in {0, Full}
  BY DEF TriggerAmount
<1>4. PadImageOf[p] =
          [keys |-> {PadKey[k] : k \in DOMAIN PadKey \cap p.buttons},
           x |-> Axis(p.buttons, "RIGHT", "LEFT"),
           y |-> Axis(p.buttons, "DOWN", "UP"),
           left |-> TriggerAmount(p.buttons, "ZL"),
           right |-> TriggerAmount(p.buttons, "ZR")]
  BY DEF PadImageOf
<1> QED
  BY <1>1, <1>2, <1>3, <1>4 DEF Devices

\* apply leaves nothing of what was pressed before.
LEMMA ApplyIsImage ==
    ASSUME PipelineTypeOK, NEW p \in Packets
    PROVE  Apply(p) = PadImageOf[p]
<1>1. device.keys \ PadKeys = {}
  BY DEF PipelineTypeOK, Devices
<1>2. (device.keys \ PadKeys) \cup {PadKey[k] : k \in DOMAIN PadKey \cap p.buttons}
        = {PadKey[k] : k \in DOMAIN PadKey \cap p.buttons}
  BY <1>1
<1> QED
  BY <1>2, PadImageType DEF Apply

LEMMA GoneIsNone == Gone \notin Devices
<1>1. Gone.left = -1
  BY DEF Gone, AllUp
<1>2. \A d \in Devices : d.left \in {0, Full}
  BY DEF Devices
<1>3. -1 \notin {0, Full}
  BY FrameAssumption
<1> QED
  BY <1>1, <1>2, <1>3

LEMMA ViewType ==
    ASSUME NEW f \in Frames, NEW t, t.active \in BOOLEAN
    PROVE  View(f, t) \in Views
<1>1. Sent(f) \in [Analogs -> Pressures]
  BY SentType
<1> QED
  BY <1>1 DEF View, Views

-----------------------------------------------------------------------------
LEMMA PipelineInitInv == PipelineInit => Inv
<1> SUFFICES ASSUME PipelineInit
             PROVE  Inv
  OBVIOUS
<1>1. TypeOK
  BY InitType DEF PipelineInit
<1>2. cur \in Packets
  BY NoInputIsPacket DEF PipelineInit
<1>3. device \in Devices /\ shown \in Devices
  BY DEF PipelineInit, AllUp, Devices, Hat
<1>4. sent \in Views
  BY <1>1, ViewType DEF PipelineInit, TypeOK
<1>5. FrameFollowsPacket
  BY DEF PipelineInit, Init, FrameFollowsPacket
<1> QED
  BY <1>1, <1>2, <1>3, <1>4, <1>5
     DEF Inv, PipelineInit, PipelineTypeOK, InHand, Busy, Applied, Plugged

LEMMA FrameStep ==
    Inv /\ [PipelineNext]_allVars => TypeOK' /\ FrameFollowsPacket'
<1>1. [PipelineNext]_allVars => [Next]_vars
  BY DEF PipelineNext, allVars, Receive, PadAlways, RelayLast, PadLast,
         WriteFails, Leave, Vanish, Set, Next
<1> QED
  BY <1>1, NextType, NextFollows DEF Inv, PipelineTypeOK

LEMMA PipelineNextInv == Inv /\ [PipelineNext]_allVars => Inv'
<1> SUFFICES ASSUME Inv, [PipelineNext]_allVars
             PROVE  Inv'
  OBVIOUS
<1>1. TypeOK' /\ FrameFollowsPacket'
  BY FrameStep
<1> USE DEF Busy
<1>2. ASSUME NEW p \in Packets, Receive(p)
      PROVE  Inv'
  <2>1. packet' = cur' /\ touch'.active = cur'.touch
    BY <1>2 DEF Receive, Packet
  <2> QED
    BY <1>1, <1>2, <2>1
       DEF Inv, Receive, PipelineTypeOK, InHand, Applied, Plugged
<1>3. CASE PadAlways
  <2>1. device' = PadImageOf[cur] /\ PadImageOf[cur] \in Devices
    BY <1>3, ApplyIsImage, PadImageType DEF PadAlways, Inv, PipelineTypeOK
  <2> QED
    BY <1>1, <1>3, <2>1
       DEF Inv, PadAlways, PipelineTypeOK, InHand, Applied, Plugged, vars
<1>4. CASE RelayLast
  <2>1. sent' \in Views
    BY <1>4, ViewType DEF RelayLast, Inv, PipelineTypeOK, TypeOK
  <2> QED
    BY <1>1, <1>4, <2>1
       DEF Inv, RelayLast, PipelineTypeOK, InHand, Applied, Plugged, vars
<1>5. CASE PadLast
  BY <1>1, <1>5, NoInputIsPacket
     DEF Inv, PadLast, PipelineTypeOK, InHand, Applied, Plugged, vars
<1>6. CASE Vanish
  BY <1>1, <1>6, NoInputIsPacket
     DEF Inv, Vanish, PipelineTypeOK, InHand, Applied, Plugged, vars
<1>7. CASE Set
  BY <1>1, <1>7
     DEF Inv, Set, held, PipelineTypeOK, InHand, Applied, Plugged
<1>8. CASE UNCHANGED allVars
  BY <1>1, <1>8
     DEF Inv, allVars, held, vars, PipelineTypeOK, InHand, Applied, Plugged
<1> QED
  BY <1>2, <1>3, <1>4, <1>5, <1>6, <1>7, <1>8
     DEF PipelineNext, WriteFails, Leave

\* The states of the composition are those of its parts.
THEOREM PipelineTypeSafe == PipelineSpec => []PipelineTypeOK
<1>1. Inv => PipelineTypeOK
  BY DEF Inv
<1> QED
  BY <1>1, PipelineInitInv, PipelineNextInv, PTL DEF PipelineSpec

-----------------------------------------------------------------------------
(* The refinement *)

Behind == pc = "padLast"
Newest == IF pc = "padLast" THEN cur ELSE NoInput

LEMMA EmulatorImageIs ==
    ASSUME NEW p \in Packets
    PROVE  EmulatorImageOf[p] =
              [bits |-> Meant(p), analog |-> Digital(Meant(p)), active |-> p.touch]
BY DEF EmulatorImageOf

\* The frame that is sent for a packet is what that packet means.
LEMMA ViewIsImage ==
    ASSUME Inv, Busy
    PROVE  View(frame, touch) = EmulatorImageOf[cur]
<1>1. cur \in Packets /\ packet = cur /\ touch.active = cur.touch
  BY DEF Inv, PipelineTypeOK, InHand
<1>2. cur # NoPacket
  <2>1. cur.pos \in Positions /\ NoPacket.pos = MaxPos + 1
    BY <1>1, PositionAssumption DEF Packets, Pack, Positions, NoPacket
  <2> QED
    BY <2>1, PositionAssumption DEF Positions
<1>3. frame.bits \cap Relayed = Meant(cur) /\ Sent(frame) = Digital(Meant(cur))
  BY <1>1, <1>2 DEF Inv, FrameFollowsPacket
<1> QED
  BY <1>1, <1>3, EmulatorImageIs DEF View

LEMMA InitViews == PipelineInit => Promised!Init
<1> SUFFICES ASSUME PipelineInit
             PROVE  Promised!Init
  OBVIOUS
<1>1. frame.bits = {} /\ frame.derive = TRUE /\ touch.active = FALSE
  BY DEF PipelineInit, Init
<1>2. Meant(NoInput) = {}
  BY NoInputIsPacket DEF Meant, DpadOf
<1>3. sent = EmulatorImageOf[NoInput]
  <2>1. sent = [bits |-> {}, analog |-> Digital({}), active |-> FALSE]
    BY <1>1 DEF PipelineInit, View, Sent
  <2> QED
    BY <1>2, <2>1, NoInputIsPacket, EmulatorImageIs
<1>4. shown = PadImageOf[NoInput]
  <2>1. {PadKey[k] : k \in DOMAIN PadKey \cap NoInput.buttons} = {}
    BY NoInputIsPacket
  <2>2. /\ Axis(NoInput.buttons, "RIGHT", "LEFT") = 0
        /\ Axis(NoInput.buttons, "DOWN", "UP") = 0
    BY NoInputIsPacket DEF Axis
  <2>3. /\ TriggerAmount(NoInput.buttons, "ZL") = 0
        /\ TriggerAmount(NoInput.buttons, "ZR") = 0
    BY NoInputIsPacket DEF TriggerAmount
  <2> QED
    BY <2>1, <2>2, <2>3, NoInputIsPacket, PadImageType DEF PipelineInit, AllUp
<1>5. pc = "idle"
  BY DEF PipelineInit
<1> QED
  BY <1>3, <1>4, <1>5 DEF Promised!Init

LEMMA StepViews ==
    Inv /\ [PipelineNext]_allVars => [Promised!Next]_(Promised!vars)
<1> SUFFICES ASSUME Inv, [PipelineNext]_allVars
             PROVE  Promised!Next \/ UNCHANGED Promised!vars
  BY DEF Promised!Next
<1> DEFINE Same == UNCHANGED <<sent, shown>> /\ pc # "padLast" /\ pc' # "padLast"
<1>1. Same => UNCHANGED Promised!vars
  BY DEF Promised!vars
<1>2. ASSUME NEW p \in Packets, Receive(p)
      PROVE  Same
  BY <1>2 DEF Receive
<1>3. CASE PadAlways
  BY <1>1, <1>3 DEF PadAlways
<1>4. CASE RelayLast
  <2>1. sent' = EmulatorImageOf[cur] /\ cur \in Packets
    BY <1>4, ViewIsImage DEF RelayLast, Busy, Inv, PipelineTypeOK
  <2>2. shown # Gone
    BY <1>4, GoneIsNone DEF RelayLast, Inv, Plugged
  <2>3. Promised!Relay(cur)
    BY <1>4, <2>1, <2>2 DEF RelayLast, Promised!Relay
  <2> QED
    BY <2>1, <2>3 DEF Promised!Next
<1>5. CASE PadLast
  <2>1. shown' = PadImageOf[cur]
    BY <1>5 DEF PadLast, Inv, Applied
  <2>2. Promised!Report
    BY <1>5, <2>1 DEF PadLast, Promised!Report
  <2> QED
    BY <2>2 DEF Promised!Next
<1>6. ASSUME Vanish, pc # "gone"
      PROVE  Promised!Next
  <2>1. shown # Gone
    BY <1>6, GoneIsNone DEF Inv, Plugged
  <2>2. Promised!End
    BY <1>6, <2>1 DEF Vanish, Promised!End
  <2> QED
    BY <2>2 DEF Promised!Next
<1>7. CASE Set
  BY <1>1, <1>7 DEF Set, held
<1>8. CASE UNCHANGED allVars
  BY <1>8 DEF allVars, held, Promised!vars
<1> QED
  BY <1>1, <1>2, <1>3, <1>4, <1>5, <1>6, <1>7, <1>8
     DEF PipelineNext, WriteFails, Leave

\* Neither consumer ever sees half a packet or a mix of two, for any buttons,
\* pressures and calls of the owner, and wherever a write fails.
THEOREM ViewsSafe == PipelineSpec => ImplementsViews
BY PipelineInitInv, PipelineNextInv, InitViews, StepViews, PTL
   DEF PipelineSpec, ImplementsViews, Promised!Spec
=============================================================================
