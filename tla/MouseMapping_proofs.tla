------------------------ MODULE MouseMapping_proofs ------------------------
(***************************************************************************)
(* Theorems about MouseMapping, for every timer, every set of buttons and  *)
(* every number of positions: type correctness, that no mouse key is       *)
(* stuck, and that a tap counts and ends as it should.                     *)
(***************************************************************************)
EXTENDS MouseMapping, FiniteSetTheorems, SequenceTheorems,
        WellFoundedInduction, TLAPS

-----------------------------------------------------------------------------
(* The last event of a key *)

\* The library's induction over Nat, as the existence of a least element
LEMMA LeastElement ==
    ASSUME NEW S \in SUBSET Nat, S # {}
    PROVE  \E m \in S : \A n \in S : m <= n
<1>1. PICK m \in S : \A n \in S : <<n, m>> \notin OpToRel(<, Nat)
  BY NatLessThanWellFounded, WFMin
<1>2. ASSUME NEW n \in S PROVE m <= n
  <2>1. ASSUME n < m PROVE FALSE
    <3> DEFINE pair == <<n, m>>
    <3>1. pair \in Nat \X Nat /\ pair[1] < pair[2]
      BY <2>1
    <3>2. pair \in OpToRel(<, Nat)
      BY <3>1 DEF OpToRel
    <3> QED
      BY <1>1, <3>2
  <2> QED
    BY <2>1
<1> QED
  BY <1>2

LEMMA GreatestElement ==
    ASSUME NEW n \in Nat, NEW S \in SUBSET (1..n), S # {}
    PROVE  \E m \in S : \A j \in S : j <= m
<1> DEFINE T == {n - j : j \in S}
<1>1. T \in SUBSET Nat /\ T # {}
  <2>1. \A j \in S : n - j \in Nat
    OBVIOUS
  <2> QED
    BY <2>1
<1> HIDE DEF T
<1>2. PICK t \in T : \A u \in T : t <= u
  BY <1>1, LeastElement
<1>3. PICK m \in S : t = n - m
  BY <1>2 DEF T
<1>4. ASSUME NEW j \in S PROVE j <= m
  <2>1. n - m <= n - j
    BY <1>2, <1>3 DEF T
  <2> QED
    BY <2>1
<1> QED
  BY <1>4

LEMMA EventFacts ==
    /\ SYN \in Events /\ SYN[1] \notin MouseKeys
    /\ \A key \in MouseKeys :
          /\ Down(key) \in Events /\ Up(key) \in Events
          /\ Down(key)[1] = key /\ Up(key)[1] = key
          /\ Down(key) # Up(key)
BY DEF Events, SYN, Down, Up, MouseKeys

\* What After makes of a key whose last event is number i
LEMMA AfterLast ==
    ASSUME NEW k, NEW s \in Seq(Events), NEW key \in MouseKeys,
           NEW i \in 1..Len(s), s[i][1] = key,
           \A j \in 1..Len(s) : s[j][1] = key => j <= i
    PROVE  key \in After(k, s) <=> s[i] = Down(key)
<1> DEFINE S == {j \in DOMAIN s : s[j][1] = key}
           m == CHOOSE j \in S : \A l \in S : l <= j
<1>1. i \in S /\ \A j \in S : j <= i
  OBVIOUS
<1>2. m \in S /\ \A j \in S : j <= m
  BY <1>1
<1>3. m = i
  BY <1>1, <1>2
<1>4. S # {}
  BY <1>1
<1>5. key \in After(k, s) <=>
         IF S = {} THEN key \in k ELSE s[m] = Down(key)
  BY DEF After
<1> QED
  BY <1>3, <1>4, <1>5

LEMMA AfterNone ==
    ASSUME NEW k, NEW s \in Seq(Events), NEW key \in MouseKeys,
           \A j \in 1..Len(s) : s[j][1] # key
    PROVE  key \in After(k, s) <=> key \in k
BY DEF After

\* One write after another
LEMMA AfterConcat ==
    ASSUME NEW k, NEW s \in Seq(Events), NEW t \in Seq(Events)
    PROVE  After(k, s \o t) = After(After(k, s), t)
<1>1. /\ s \o t \in Seq(Events) /\ Len(s \o t) = Len(s) + Len(t)
      /\ Len(s) \in Nat /\ Len(t) \in Nat
      /\ \A i \in 1..Len(s) : (s \o t)[i] = s[i]
      /\ \A i \in 1..Len(t) : (s \o t)[Len(s) + i] = t[i]
  BY ConcatProperties, LenProperties
<1>2. ASSUME NEW key \in MouseKeys
      PROVE  key \in After(k, s \o t) <=> key \in After(After(k, s), t)
  <2>1. CASE \E j \in 1..Len(t) : t[j][1] = key
    <3> DEFINE T == {j \in 1..Len(t) : t[j][1] = key}
    <3>1. PICK m \in T : \A j \in T : j <= m
      <4>1. T \in SUBSET (1..Len(t)) /\ T # {}
        BY <2>1
      <4> HIDE DEF T
      <4> QED
        BY <1>1, <4>1, GreatestElement
    <3>2. key \in After(After(k, s), t) <=> t[m] = Down(key)
      BY <3>1, AfterLast
    <3>3. /\ Len(s) + m \in 1..Len(s \o t)
          /\ (s \o t)[Len(s) + m] = t[m] /\ t[m][1] = key
      BY <1>1, <3>1
    <3>4. ASSUME NEW j \in 1..Len(s \o t), (s \o t)[j][1] = key
          PROVE  j <= Len(s) + m
      <4>1. CASE j <= Len(s)
        BY <1>1, <3>1, <4>1
      <4>2. CASE j > Len(s)
        <5>1. j - Len(s) \in 1..Len(t) /\ j = Len(s) + (j - Len(s))
          BY <1>1, <4>2
        <5>2. t[j - Len(s)] = (s \o t)[j]
          BY <1>1, <5>1
        <5>3. j - Len(s) \in T
          BY <3>4, <5>1, <5>2
        <5> QED
          BY <1>1, <3>1, <5>1, <5>3
      <4> QED
        BY <1>1, <4>1, <4>2
    <3>5. key \in After(k, s \o t) <=> (s \o t)[Len(s) + m] = Down(key)
      <4> DEFINE st == s \o t
                 i == Len(s) + m
      <4>1. /\ st \in Seq(Events) /\ i \in 1..Len(st) /\ st[i][1] = key
            /\ \A j \in 1..Len(st) : st[j][1] = key => j <= i
        BY <1>1, <3>3, <3>4
      <4> HIDE DEF st, i
      <4>2. key \in After(k, st) <=> st[i] = Down(key)
        BY <4>1, AfterLast
      <4> QED
        BY <4>2 DEF st, i
    <3> QED
      BY <3>2, <3>3, <3>5
  <2>2. CASE \A j \in 1..Len(t) : t[j][1] # key
    <3>1. key \in After(After(k, s), t) <=> key \in After(k, s)
      BY <2>2, AfterNone
    <3>2. ASSUME NEW j \in 1..Len(s \o t), (s \o t)[j][1] = key
          PROVE  j \in 1..Len(s) /\ s[j][1] = key
      <4>1. CASE j <= Len(s)
        BY <1>1, <3>2, <4>1
      <4>2. CASE j > Len(s)
        <5>1. j - Len(s) \in 1..Len(t) /\ j = Len(s) + (j - Len(s))
          BY <1>1, <4>2
        <5>2. t[j - Len(s)] = (s \o t)[j]
          BY <1>1, <5>1
        <5> QED
          BY <2>2, <3>2, <5>1, <5>2
      <4> QED
        BY <1>1, <4>1, <4>2
    <3>3. CASE \E j \in 1..Len(s) : s[j][1] = key
      <4> DEFINE S == {j \in 1..Len(s) : s[j][1] = key}
      <4>1. PICK m \in S : \A j \in S : j <= m
        <5>1. S \in SUBSET (1..Len(s)) /\ S # {}
          BY <3>3
        <5> HIDE DEF S
        <5> QED
          BY <1>1, <5>1, GreatestElement
      <4>2. key \in After(k, s) <=> s[m] = Down(key)
        BY <4>1, AfterLast
      <4>3. /\ m \in 1..Len(s \o t)
            /\ (s \o t)[m] = s[m] /\ s[m][1] = key
        BY <1>1, <4>1
      <4>4. \A j \in 1..Len(s \o t) : (s \o t)[j][1] = key => j <= m
        BY <3>2, <4>1
      <4>5. key \in After(k, s \o t) <=> (s \o t)[m] = Down(key)
        <5> DEFINE st == s \o t
        <5>1. /\ st \in Seq(Events) /\ m \in 1..Len(st) /\ st[m][1] = key
              /\ \A j \in 1..Len(st) : st[j][1] = key => j <= m
          BY <1>1, <4>3, <4>4
        <5> HIDE DEF st
        <5>2. key \in After(k, st) <=> st[m] = Down(key)
          BY <5>1, AfterLast
        <5> QED
          BY <5>2 DEF st
      <4> QED
        BY <3>1, <4>2, <4>3, <4>5
    <3>4. CASE \A j \in 1..Len(s) : s[j][1] # key
      <4>1. key \in After(k, s) <=> key \in k
        BY <3>4, AfterNone
      <4>2. key \in After(k, s \o t) <=> key \in k
        BY <1>1, <3>2, <3>4, AfterNone
      <4> QED
        BY <3>1, <4>1, <4>2
    <3> QED
      BY <3>3, <3>4
  <2> QED
    BY <2>1, <2>2
<1>3. /\ After(k, s \o t) \subseteq MouseKeys
      /\ After(After(k, s), t) \subseteq MouseKeys
  BY DEF After
<1> QED
  BY <1>2, <1>3

-----------------------------------------------------------------------------
(* What the handlers write *)

LEMMA AfterNothing ==
    ASSUME NEW k \in SUBSET MouseKeys
    PROVE  After(k, <<>>) = k
BY DEF After

LEMMA AfterSyn ==
    ASSUME NEW k \in SUBSET MouseKeys
    PROVE  <<SYN>> \in Seq(Events) /\ After(k, <<SYN>>) = k
<1> DEFINE s == <<SYN>>
<1>1. s \in Seq(Events) /\ Len(s) = 1 /\ s[1] = SYN
  BY EventFacts
<1> HIDE DEF s
<1>2. ASSUME NEW key \in MouseKeys
      PROVE  key \in After(k, s) <=> key \in k
  <2>1. \A j \in 1..Len(s) : s[j][1] # key
    BY <1>1, EventFacts
  <2> QED
    BY <1>1, <2>1, AfterNone
<1>3. After(k, s) \subseteq MouseKeys
  BY DEF After
<1>4. After(k, s) = k
  BY <1>2, <1>3
<1> QED
  BY <1>1, <1>4 DEF s

LEMMA AfterOne ==
    ASSUME NEW k \in SUBSET MouseKeys, NEW key \in MouseKeys,
           NEW e \in {Down(key), Up(key)}
    PROVE  /\ <<e>> \in Seq(Events)
           /\ After(k, <<e>>) = IF e = Down(key) THEN k \cup {key} ELSE k \ {key}
<1> DEFINE s == <<e>>
<1>1. /\ s \in Seq(Events) /\ Len(s) = 1 /\ s[1] = e /\ e[1] = key
      /\ 1 \in 1..Len(s)
  BY EventFacts
<1> HIDE DEF s
<1>2. key \in After(k, s) <=> e = Down(key)
  <2>1. \A j \in 1..Len(s) : s[j][1] = key => j <= 1
    BY <1>1
  <2>2. key \in After(k, s) <=> s[1] = Down(key)
    BY <1>1, <2>1, AfterLast
  <2> QED
    BY <1>1, <2>2
<1>3. ASSUME NEW other \in MouseKeys, other # key
      PROVE  other \in After(k, s) <=> other \in k
  <2>1. \A j \in 1..Len(s) : s[j][1] # other
    BY <1>1, <1>3
  <2> QED
    BY <1>1, <2>1, AfterNone
<1>4. After(k, s) \subseteq MouseKeys
  BY DEF After
<1>5. After(k, s) = IF e = Down(key) THEN k \cup {key} ELSE k \ {key}
  BY <1>2, <1>3, <1>4
<1> QED
  BY <1>1, <1>5 DEF s

\* button_down or button_up of a 3DS button
LEMMA AfterKeyEdge ==
    ASSUME NEW k \in SUBSET MouseKeys, NEW key \in MouseKeys, NEW button, NEW cur
    PROVE  /\ KeyEdge(button, key, cur) \in Seq(Events)
           /\ After(k, KeyEdge(button, key, cur)) =
                 IF button \notin Diffs(prev, cur) THEN k
                 ELSE IF button \in cur.buttons THEN k \cup {key} ELSE k \ {key}
<1>1. CASE button \notin Diffs(prev, cur)
  <2>1. KeyEdge(button, key, cur) = <<>> /\ <<>> \in Seq(Events)
    BY <1>1 DEF KeyEdge
  <2> QED
    BY <1>1, <2>1, AfterNothing
<1>2. CASE button \in Diffs(prev, cur) /\ button \in cur.buttons
  <2>1. KeyEdge(button, key, cur) = <<Down(key)>>
    BY <1>2 DEF KeyEdge
  <2> QED
    BY <1>2, <2>1, AfterOne
<1>3. CASE button \in Diffs(prev, cur) /\ button \notin cur.buttons
  <2>1. KeyEdge(button, key, cur) = <<Up(key)>>
    BY <1>3 DEF KeyEdge
  <2> QED
    BY <1>3, <2>1, AfterOne, EventFacts
<1> QED
  BY <1>1, <1>2, <1>3

\* A click leaves its key up and the others as they were.
LEMMA AfterClick ==
    ASSUME NEW k \in SUBSET MouseKeys, NEW key \in MouseKeys
    PROVE  /\ Click(key) \in Seq(Events)
           /\ Len(Click(key)) = 4 /\ Click(key)[1] = Down(key)
           /\ After(k, Click(key)) = k \ {key}
<1> DEFINE s == Click(key)
<1>1. /\ s \in Seq(Events) /\ Len(s) = 4
      /\ s[1] = Down(key) /\ s[2] = SYN /\ s[3] = Up(key) /\ s[4] = SYN
  BY EventFacts DEF Click
<1> HIDE DEF s
<1>2. \A j \in 1..Len(s) : j = 1 \/ j = 2 \/ j = 3 \/ j = 4
  BY <1>1
<1>3. key \notin After(k, s)
  <2>1. \A j \in 1..Len(s) : s[j][1] = key => j <= 3
    BY <1>1, <1>2, EventFacts
  <2>2. 3 \in 1..Len(s) /\ s[3][1] = key
    BY <1>1, EventFacts
  <2>3. key \in After(k, s) <=> s[3] = Down(key)
    BY <1>1, <2>1, <2>2, AfterLast
  <2> QED
    BY <1>1, <2>3, EventFacts
<1>4. ASSUME NEW other \in MouseKeys, other # key
      PROVE  other \in After(k, s) <=> other \in k
  <2>1. \A j \in 1..Len(s) : s[j][1] # other
    BY <1>1, <1>2, <1>4, EventFacts
  <2> QED
    BY <1>1, <2>1, AfterNone
<1>5. After(k, s) \subseteq MouseKeys
  BY DEF After
<1>6. After(k, s) = k \ {key}
  BY <1>3, <1>4, <1>5
<1> QED
  BY <1>1, <1>6 DEF s

LEMMA AfterIsKeys ==
    ASSUME NEW k, NEW s
    PROVE  After(k, s) \in SUBSET MouseKeys
BY DEF After

\* The keys after an edge, after the release of X and after the pending taps
Edged(k, button, key, cur) ==
    IF button \notin Diffs(prev, cur) THEN k
    ELSE IF button \in cur.buttons THEN k \cup {key} ELSE k \ {key}

XEdged(k, cur) == IF XEdge(cur) = <<>> THEN k ELSE k \ {"BTN_MIDDLE"}

Taps(p) == IF Due(p) THEN Click(TapKey(p.taps)) ELSE <<>>

Tapped(k, p) == IF Due(p) THEN k \ {TapKey(p.taps)} ELSE k

LEMMA AfterXEdge ==
    ASSUME NEW k \in SUBSET MouseKeys, NEW cur
    PROVE  XEdge(cur) \in Seq(Events) /\ After(k, XEdge(cur)) = XEdged(k, cur)
<1>1. CASE XEdge(cur) = <<>>
  BY <1>1, AfterNothing DEF XEdged
<1>2. CASE XEdge(cur) # <<>>
  <2>1. XEdge(cur) = Click("BTN_MIDDLE") /\ "BTN_MIDDLE" \in MouseKeys
    BY <1>2 DEF XEdge, MouseKeys
  <2> QED
    BY <1>2, <2>1, AfterClick DEF XEdged
<1> QED
  BY <1>1, <1>2

LEMMA TapKeyType == \A n : TapKey(n) \in MouseKeys
BY DEF TapKey, MouseKeys

LEMMA AfterTaps ==
    ASSUME NEW k \in SUBSET MouseKeys, NEW p
    PROVE  Taps(p) \in Seq(Events) /\ After(k, Taps(p)) = Tapped(k, p)
<1>1. CASE Due(p)
  BY <1>1, AfterClick, TapKeyType DEF Taps, Tapped
<1>2. CASE ~Due(p)
  BY <1>2, AfterNothing DEF Taps, Tapped
<1> QED
  BY <1>1, <1>2

\* The events of a packet before LAST; the writes up to the taps
ByButtons(cur) ==
    KeyEdge("A", "BTN_LEFT", cur) \o KeyEdge("B", "BTN_RIGHT", cur)
        \o XEdge(cur)
        \o KeyEdge("L", "BTN_LEFT", cur) \o KeyEdge("R", "BTN_RIGHT", cur)

LEMMA WrittenIs ==
    ASSUME NEW cur
    PROVE  LET w == ByButtons(cur) \o Taps(Touch(cur))
           IN  Written(cur) = IF w = <<>> THEN <<>> ELSE Append(w, SYN)
BY DEF Written, ByButtons, Taps

LEMMA AfterButtons ==
    ASSUME NEW k \in SUBSET MouseKeys, NEW cur
    PROVE  /\ ByButtons(cur) \in Seq(Events)
           /\ After(k, ByButtons(cur)) =
                 Edged(Edged(XEdged(Edged(Edged(k, "A", "BTN_LEFT", cur),
                                          "B", "BTN_RIGHT", cur), cur),
                             "L", "BTN_LEFT", cur), "R", "BTN_RIGHT", cur)
<1> DEFINE a == KeyEdge("A", "BTN_LEFT", cur)
           b == KeyEdge("B", "BTN_RIGHT", cur)
           x == XEdge(cur)
           l == KeyEdge("L", "BTN_LEFT", cur)
           r == KeyEdge("R", "BTN_RIGHT", cur)
           k1 == Edged(k, "A", "BTN_LEFT", cur)
           k2 == Edged(k1, "B", "BTN_RIGHT", cur)
           k3 == XEdged(k2, cur)
           k4 == Edged(k3, "L", "BTN_LEFT", cur)
           k5 == Edged(k4, "R", "BTN_RIGHT", cur)
<1>0. {"BTN_LEFT", "BTN_RIGHT"} \subseteq MouseKeys
  BY DEF MouseKeys
<1>1. a \in Seq(Events) /\ After(k, a) = k1
  BY <1>0, AfterKeyEdge DEF Edged
<1>2. k1 \in SUBSET MouseKeys
  BY <1>1, AfterIsKeys
<1>3. b \in Seq(Events) /\ After(k1, b) = k2
  <2> HIDE DEF k1
  <2> QED
    BY <1>0, <1>2, AfterKeyEdge DEF Edged
<1>4. k2 \in SUBSET MouseKeys
  BY <1>3, AfterIsKeys
<1>5. x \in Seq(Events) /\ After(k2, x) = k3
  <2> HIDE DEF k2
  <2> QED
    BY <1>4, AfterXEdge
<1>6. k3 \in SUBSET MouseKeys
  BY <1>5, AfterIsKeys
<1>7. l \in Seq(Events) /\ After(k3, l) = k4
  <2> HIDE DEF k3
  <2> QED
    BY <1>0, <1>6, AfterKeyEdge DEF Edged
<1>8. k4 \in SUBSET MouseKeys
  BY <1>7, AfterIsKeys
<1>9. r \in Seq(Events) /\ After(k4, r) = k5
  <2> HIDE DEF k4
  <2> QED
    BY <1>0, <1>8, AfterKeyEdge DEF Edged
<1> HIDE DEF a, b, x, l, r, k1, k2, k3, k4, k5
<1>10. a \o b \in Seq(Events) /\ After(k, a \o b) = k2
  BY <1>1, <1>3, AfterConcat, ConcatProperties
<1>11. a \o b \o x \in Seq(Events) /\ After(k, a \o b \o x) = k3
  BY <1>5, <1>10, AfterConcat, ConcatProperties
<1>12. a \o b \o x \o l \in Seq(Events) /\ After(k, a \o b \o x \o l) = k4
  BY <1>7, <1>11, AfterConcat, ConcatProperties
<1>13. /\ a \o b \o x \o l \o r \in Seq(Events)
       /\ After(k, a \o b \o x \o l \o r) = k5
  BY <1>9, <1>12, AfterConcat, ConcatProperties
<1> QED
  BY <1>13 DEF ByButtons, a, b, x, l, r, k1, k2, k3, k4, k5

\* The keys after a packet
LEMMA AfterWritten ==
    ASSUME NEW k \in SUBSET MouseKeys, NEW cur
    PROVE  /\ Written(cur) \in Seq(Events)
           /\ After(k, Written(cur)) =
                 Tapped(After(k, ByButtons(cur)), Touch(cur))
<1> DEFINE w == ByButtons(cur) \o Taps(Touch(cur))
<1>1. w \in Seq(Events)
  BY AfterButtons, AfterTaps, ConcatProperties
<1>2. After(k, w) = Tapped(After(k, ByButtons(cur)), Touch(cur))
  <2> DEFINE b == ByButtons(cur)
             t == Taps(Touch(cur))
  <2>1. b \in Seq(Events) /\ After(k, b) \in SUBSET MouseKeys
    BY AfterButtons, AfterIsKeys
  <2>2. t \in Seq(Events) /\ After(After(k, b), t) = Tapped(After(k, b), Touch(cur))
    <3> HIDE DEF b
    <3> QED
      BY <2>1, AfterTaps
  <2> HIDE DEF b, t
  <2>3. After(k, b \o t) = After(After(k, b), t)
    BY <2>1, <2>2, AfterConcat
  <2> QED
    BY <2>2, <2>3 DEF b, t
<1>3. CASE w = <<>>
  BY <1>1, <1>2, <1>3, WrittenIs
<1>4. CASE w # <<>>
  <2>1. Written(cur) = Append(w, SYN)
    BY <1>4, WrittenIs
  <2> HIDE DEF w
  <2>2. Append(w, SYN) = w \o <<SYN>> /\ Append(w, SYN) \in Seq(Events)
    BY <1>1, EventFacts, AppendIsConcat, AppendProperties
  <2>3. After(k, w) \in SUBSET MouseKeys
    BY AfterIsKeys
  <2>4. After(k, w \o <<SYN>>) = After(k, w)
    BY <1>1, <2>3, AfterSyn, AfterConcat
  <2> QED
    BY <1>2, <2>1, <2>2, <2>4
<1> QED
  BY <1>3, <1>4

\* Taps that are due are clicked.
LEMMA DueIsClicked ==
    ASSUME NEW cur, Due(Touch(cur))
    PROVE  \E i \in DOMAIN Written(cur) :
               Written(cur)[i] = Down(TapKey(Touch(cur).taps))
<1> DEFINE b == ByButtons(cur)
           t == Taps(Touch(cur))
           key == TapKey(Touch(cur).taps)
<1>1. b \in Seq(Events)
  BY AfterButtons
<1>2. t \in Seq(Events) /\ Len(t) = 4 /\ t[1] = Down(key)
  BY TapKeyType, AfterClick DEF Taps
<1>3. Written(cur) = IF b \o t = <<>> THEN <<>> ELSE Append(b \o t, SYN)
  BY WrittenIs
<1> HIDE DEF b, t, key
<1> DEFINE w == b \o t
           i == Len(b) + 1
<1>4. /\ w \in Seq(Events) /\ Len(w) = Len(b) + 4 /\ Len(b) \in Nat
      /\ i \in 1..Len(w) /\ w[i] = Down(key)
  <2>1. Len(b) \in Nat /\ Len(w) = Len(b) + Len(t) /\ w \in Seq(Events)
    BY <1>1, <1>2, ConcatProperties, LenProperties
  <2>2. w[i] = t[1]
    BY <1>1, <1>2, <2>1, ConcatProperties
  <2> QED
    BY <1>2, <2>1, <2>2
<1> HIDE DEF w, i
<1>5. w # <<>>
  BY <1>4
<1>6. Append(w, SYN)[i] = Down(key) /\ i \in DOMAIN Append(w, SYN)
  BY <1>4, EventFacts, AppendProperties, LenProperties
<1>7. Written(cur) = Append(w, SYN)
  BY <1>3, <1>5 DEF w
<1> QED
  BY <1>6, <1>7 DEF key

-----------------------------------------------------------------------------
(* Types *)

LEMMA PacketFields ==
    ASSUME NEW p \in Packets
    PROVE  /\ p.buttons \in SUBSET Pressable /\ p.touch \in BOOLEAN
           /\ p.pos \in Positions
           /\ ~p.touch => p.pos = 0
<1>1. PICK held \in SUBSET Pressable, touching \in BOOLEAN, at \in Positions :
          p = Pack(held, touching, at)
  BY DEF Packets
<1>2. 0 \in Positions
  BY PositionAssumption DEF Positions
<1> QED
  BY <1>1, <1>2 DEF Pack

LEMMA NoInputIsPacket == NoInput \in Packets /\ NoInput.touch = FALSE
<1>1. 0 \in Positions
  BY PositionAssumption DEF Positions
<1>2. NoInput \in Packets
  <2>1. \E h \in SUBSET Pressable, t \in BOOLEAN, at \in Positions :
           NoInput = Pack(h, t, at)
    <3>1. WITNESS {} \in SUBSET Pressable, FALSE \in BOOLEAN, 0 \in Positions
    <3> QED
      BY DEF NoInput
  <2> QED
    BY <2>1 DEF Packets
<1> QED
  BY <1>2 DEF NoInput, Pack

LEMMA AtMostType ==
    ASSUME NEW cap \in Nat, NEW n \in Nat
    PROVE  AtMost(cap, n) \in 0..cap /\ (n > 0 /\ cap > 0 => AtMost(cap, n) > 0)
BY DEF AtMost

LEMMA PadFields ==
    ASSUME NEW p \in Pads
    PROVE  /\ p.pressed \in BOOLEAN /\ p.taps \in 0..TapCap /\ p.drag \in BOOLEAN
           /\ p.lastPos \in Positions /\ p.touchAge \in 0..TouchCap
           /\ p.releaseAge \in 0..ReleaseCap
BY DEF Pads

\* What a packet makes of a touch, field by field
Begins(cur) == cur.touch /\ ~pad.pressed
Ends(cur) == ~cur.touch /\ pad.pressed
Short == ~pad.drag /\ pad.touchAge < TapRelease

LEMMA TouchFields ==
    ASSUME pad \in Pads, prev \in Packets, NEW cur \in Packets,
           pad.pressed = prev.touch
    PROVE  LET p == Touch(cur)
           IN  /\ p \in Pads
               /\ p.pressed = cur.touch
               /\ p.taps = IF Ends(cur)
                           THEN IF Short THEN AtMost(TapCap, pad.taps + 1) ELSE 0
                           ELSE pad.taps
               /\ p.drag = IF Begins(cur) THEN FALSE ELSE pad.drag
               /\ p.lastPos = IF Begins(cur) THEN cur.pos ELSE pad.lastPos
               /\ p.releaseAge = IF Ends(cur) THEN 0 ELSE pad.releaseAge
<1>1. /\ pad.pressed \in BOOLEAN /\ pad.taps \in 0..3
      /\ cur.touch \in BOOLEAN /\ cur.pos \in Positions
      /\ 0 \in 0..TouchCap /\ 0 \in 0..ReleaseCap /\ 0 \in 0..TapCap
  BY PacketFields, PadFields, TimerAssumption DEF TapCap, TouchCap, ReleaseCap
<1>5. AtMost(TapCap, pad.taps + 1) \in 0..TapCap
  <2>1. TapCap \in Nat /\ pad.taps + 1 \in Nat
    BY <1>1 DEF TapCap
  <2> QED
    BY <2>1, AtMostType
<1>2. CASE Begins(cur)
  <2>1. "TOUCH" \in Diffs(prev, cur)
    BY <1>1, <1>2 DEF Diffs, Begins
  <2>2. Touch(cur) = [pad EXCEPT !.touchAge = 0, !.lastPos = cur.pos,
                                 !.drag = FALSE, !.pressed = TRUE]
    BY <1>2, <2>1 DEF Touch, Begins
  <2> QED
    BY <1>1, <1>2, <2>2 DEF Pads, Begins, Ends
<1>3. CASE Ends(cur)
  <2>1. "TOUCH" \in Diffs(prev, cur)
    BY <1>1, <1>3 DEF Diffs, Ends
  <2>2. Touch(cur) = [pad EXCEPT !.releaseAge = 0, !.pressed = FALSE,
                         !.taps = IF Short THEN AtMost(TapCap, @ + 1) ELSE 0]
    BY <1>3, <2>1 DEF Touch, Ends, Short
  <2> QED
    BY <1>1, <1>3, <1>5, <2>2 DEF Pads, Begins, Ends
<1>4. CASE ~Begins(cur) /\ ~Ends(cur)
  <2>1. Touch(cur) = pad
    BY <1>4 DEF Touch, Begins, Ends
  <2> QED
    BY <1>1, <1>4, <2>1 DEF Begins, Ends
<1> QED
  BY <1>2, <1>3, <1>4

LEMMA FlushFields ==
    ASSUME NEW p \in Pads
    PROVE  LET q == Flush(p)
           IN  /\ q \in Pads
               /\ q.pressed = p.pressed /\ q.drag = p.drag
               /\ q.lastPos = p.lastPos
               /\ q.taps = IF Due(p) THEN 0 ELSE p.taps
<1>1. 0 \in 0..TapCap
  BY DEF TapCap
<1> QED
  BY <1>1 DEF Flush, Pads

Drags(p, cur, moves) == cur.touch /\ p.pressed /\ moves /\ cur.pos # p.lastPos

LEMMA MoveFields ==
    ASSUME NEW p \in Pads, NEW cur \in Packets, NEW moves \in BOOLEAN
    PROVE  LET q == Move(p, cur, moves)
           IN  /\ q \in Pads
               /\ q.pressed = p.pressed
               /\ q.drag = IF Drags(p, cur, moves) THEN TRUE ELSE p.drag
               /\ q.taps = IF Drags(p, cur, moves) THEN 0 ELSE p.taps
               /\ q.lastPos = IF cur.touch /\ p.pressed THEN cur.pos ELSE p.lastPos
<1>1. cur.pos \in Positions /\ 0 \in 0..TapCap
  BY PacketFields DEF TapCap
<1> QED
  BY <1>1 DEF Move, Pads, Drags

-----------------------------------------------------------------------------
(* The inductive invariant *)

\* The statics of the touchpad follow the packets; a touch is a drag only
\* when it was seen in two positions, and a drag has no pending taps.
PadFollows == pad.pressed = prev.touch

SeenLast == prev.touch => pad.lastPos \in seen

DragMoved ==
    prev.touch /\ pad.drag => pad.taps = 0 /\ \E p, q \in seen : p # q

Inv == TypeOK /\ PadFollows /\ SeenLast /\ DragMoved

LEMMA InitInv == Init => Inv
<1> SUFFICES ASSUME Init PROVE Inv
  OBVIOUS
<1>1. /\ 0 \in Positions /\ 0 \in 0..TapCap /\ 0 \in 0..TouchCap
      /\ 0 \in 0..ReleaseCap /\ 0 \in 0..XCap
  BY PositionAssumption, TimerAssumption
     DEF Positions, TapCap, TouchCap, ReleaseCap, XCap
<1>2. pad \in Pads /\ pad.pressed = FALSE
  BY <1>1 DEF Init, Pads
<1>3. /\ prev \in Packets /\ prev.touch = FALSE
      /\ keys \subseteq MouseKeys /\ seen \subseteq Positions
  BY NoInputIsPacket DEF Init
<1>4. out \in Seq(Events) /\ xAge \in 0..XCap /\ quiet \in BOOLEAN
  BY <1>1 DEF Init
<1> QED
  BY <1>2, <1>3, <1>4 DEF Inv, TypeOK, PadFollows, SeenLast, DragMoved

\* A packet, as far as the touchpad goes
LEMMA PacketPad ==
    ASSUME Inv, NEW cur \in Packets, NEW moves \in BOOLEAN, Packet(cur, moves)
    PROVE  LET p == Touch(cur)
               drags == Drags(p, cur, moves)
           IN  /\ pad' \in Pads
               /\ p \in Pads
               /\ pad'.pressed = cur.touch
               /\ pad'.drag = IF drags THEN TRUE ELSE p.drag
               /\ pad'.taps = IF drags \/ Due(p) THEN 0 ELSE p.taps
               /\ pad'.lastPos = IF cur.touch THEN cur.pos ELSE p.lastPos
<1> DEFINE p == Touch(cur)
           q == Flush(p)
<1>1. p \in Pads /\ p.pressed = cur.touch
  BY TouchFields DEF Inv, TypeOK, PadFollows
<1>2. pad' = Move(q, cur, moves)
  BY DEF Packet
<1> HIDE DEF p
<1>3. /\ q \in Pads /\ q.pressed = p.pressed /\ q.drag = p.drag
      /\ q.lastPos = p.lastPos /\ q.taps = IF Due(p) THEN 0 ELSE p.taps
  BY <1>1, FlushFields
<1> HIDE DEF q
<1>4. Drags(q, cur, moves) <=> Drags(p, cur, moves)
  BY <1>3 DEF Drags
<1>5. /\ pad' \in Pads
      /\ pad'.pressed = q.pressed
      /\ pad'.drag = IF Drags(q, cur, moves) THEN TRUE ELSE q.drag
      /\ pad'.taps = IF Drags(q, cur, moves) THEN 0 ELSE q.taps
      /\ pad'.lastPos = IF cur.touch /\ q.pressed THEN cur.pos ELSE q.lastPos
  BY <1>2, <1>3, MoveFields
<1> QED
  BY <1>1, <1>3, <1>4, <1>5 DEF p

\* What a packet adds to the positions that were seen
LEMMA PacketSeen ==
    ASSUME Inv, NEW cur \in Packets, NEW moves \in BOOLEAN, Packet(cur, moves)
    PROVE  /\ seen' \in SUBSET Positions
           /\ cur.touch => cur.pos \in seen'
           /\ cur.touch /\ prev.touch => seen \subseteq seen'
           /\ ~cur.touch => seen' = seen
BY PacketFields DEF Packet, Inv, TypeOK

LEMMA TickPad ==
    ASSUME pad \in Pads, Tick
    PROVE  /\ pad' \in Pads
           /\ pad'.pressed = pad.pressed /\ pad'.taps = pad.taps
           /\ pad'.drag = pad.drag /\ pad'.lastPos = pad.lastPos
<1>1. pad.touchAge + 1 \in Nat /\ pad.releaseAge + 1 \in Nat
  BY PadFields, TimerAssumption DEF TouchCap, ReleaseCap
<1>2. TouchCap \in Nat /\ ReleaseCap \in Nat
  BY TimerAssumption DEF TouchCap, ReleaseCap
<1>3. /\ AtMost(TouchCap, pad.touchAge + 1) \in 0..TouchCap
      /\ AtMost(ReleaseCap, pad.releaseAge + 1) \in 0..ReleaseCap
  BY <1>1, <1>2, AtMostType
<1>4. pad' = [pad EXCEPT !.touchAge = AtMost(TouchCap, @ + 1),
                         !.releaseAge = AtMost(ReleaseCap, @ + 1)]
  BY DEF Tick
<1> QED
  BY <1>3, <1>4 DEF Pads

LEMMA PacketInv ==
    ASSUME Inv, NEW cur \in Packets, NEW moves \in BOOLEAN, Packet(cur, moves)
    PROVE  Inv'
<1> DEFINE p == Touch(cur)
           drags == Drags(p, cur, moves)
<1>1. /\ p \in Pads /\ p.pressed = cur.touch
      /\ p.taps = IF Ends(cur)
                  THEN IF Short THEN AtMost(TapCap, pad.taps + 1) ELSE 0
                  ELSE pad.taps
      /\ p.drag = IF Begins(cur) THEN FALSE ELSE pad.drag
      /\ p.lastPos = IF Begins(cur) THEN cur.pos ELSE pad.lastPos
  BY TouchFields DEF Inv, TypeOK, PadFollows
<1>2. /\ pad' \in Pads
      /\ pad'.pressed = cur.touch
      /\ pad'.drag = IF drags THEN TRUE ELSE p.drag
      /\ pad'.taps = IF drags \/ Due(p) THEN 0 ELSE p.taps
      /\ pad'.lastPos = IF cur.touch THEN cur.pos ELSE p.lastPos
  BY PacketPad
<1>3. drags <=> cur.touch /\ p.pressed /\ moves /\ cur.pos # p.lastPos
  BY DEF Drags
<1> HIDE DEF p, drags
<1>4. prev' = cur
  BY DEF Packet
<1>5. TypeOK'
  <2>1. keys' \in SUBSET MouseKeys /\ out' \in Seq(Events)
    BY AfterIsKeys, AfterWritten DEF Packet, Inv, TypeOK
  <2>2. xAge' \in 0..XCap
    <3>1. 0 \in 0..XCap
      BY TimerAssumption DEF XCap
    <3> QED
      BY <3>1 DEF Packet, Inv, TypeOK
  <2>3. quiet' \in BOOLEAN
    BY DEF Packet
  <2> QED
    BY <1>2, <1>4, <2>1, <2>2, <2>3, PacketSeen DEF TypeOK
<1>6. PadFollows'
  BY <1>2, <1>4 DEF PadFollows
<1>7. SeenLast'
  BY <1>2, <1>4, PacketSeen DEF SeenLast
<1>8. DragMoved'
  <2> SUFFICES ASSUME cur.touch, pad'.drag
               PROVE  pad'.taps = 0 /\ \E x, y \in seen' : x # y
    BY <1>4 DEF DragMoved
  <2>1. ~Begins(cur) /\ prev.touch /\ pad.pressed
    <3>1. CASE drags
      <4>1. p.lastPos # cur.pos
        BY <1>3, <3>1
      <4>2. ~Begins(cur)
        BY <1>1, <4>1
      <4> QED
        BY <4>2 DEF Begins, Inv, PadFollows
    <3>2. CASE ~drags
      <4>1. ~Begins(cur)
        BY <1>1, <1>2, <3>2
      <4> QED
        BY <4>1 DEF Begins, Inv, PadFollows
    <3> QED
      BY <3>1, <3>2
  <2>2. pad.lastPos \in seen /\ seen \subseteq seen' /\ cur.pos \in seen'
    BY <2>1, PacketSeen DEF Inv, SeenLast
  <2>3. CASE drags
    <3>1. pad.lastPos # cur.pos
      BY <1>1, <1>3, <2>1, <2>3
    <3> QED
      BY <1>2, <2>2, <2>3, <3>1
  <2>4. CASE ~drags
    <3>1. pad.drag
      BY <1>1, <1>2, <2>1, <2>4
    <3>2. pad.taps = 0 /\ \E x, y \in seen : x # y
      BY <2>1, <3>1 DEF Inv, DragMoved
    <3>3. ~Ends(cur)
      BY DEF Ends
    <3>4. p.taps = 0
      BY <1>1, <3>2, <3>3
    <3> QED
      BY <1>2, <2>2, <3>2, <3>4
  <2> QED
    BY <2>3, <2>4
<1> QED
  BY <1>5, <1>6, <1>7, <1>8 DEF Inv

LEMMA NextInv == Inv /\ [Next]_vars => Inv'
<1> SUFFICES ASSUME Inv, [Next]_vars PROVE Inv'
  OBVIOUS
<1>1. ASSUME NEW cur \in Packets, NEW moves \in BOOLEAN, Packet(cur, moves)
      PROVE  Inv'
  BY <1>1, PacketInv
<1>2. CASE Tick
  <2>1. /\ pad' \in Pads
        /\ pad'.pressed = pad.pressed /\ pad'.taps = pad.taps
        /\ pad'.drag = pad.drag /\ pad'.lastPos = pad.lastPos
    BY <1>2, TickPad DEF Inv, TypeOK
  <2>2. xAge' \in 0..XCap
    <3>1. XCap \in Nat /\ xAge + 1 \in Nat /\ xAge' = AtMost(XCap, xAge + 1)
      BY <1>2, TimerAssumption DEF Tick, Inv, TypeOK, XCap
    <3> QED
      BY <3>1, AtMostType
  <2>3. /\ prev' = prev /\ keys' = keys /\ seen' = seen
        /\ out' \in Seq(Events) /\ quiet' \in BOOLEAN
    BY <1>2 DEF Tick
  <2> QED
    BY <2>1, <2>2, <2>3 DEF Inv, TypeOK, PadFollows, SeenLast, DragMoved
<1>3. CASE UNCHANGED vars
  BY <1>3 DEF vars, Inv, TypeOK, PadFollows, SeenLast, DragMoved
<1> QED
  BY <1>1, <1>2, <1>3 DEF Next

\* What holds in every state of the mouse
LEMMA InvHolds == Spec => []Inv
BY InitInv, NextInv, PTL DEF Spec

\* Type correctness: the device gets mouse keys and reports only, and the
\* statics of the touchpad stay in range, whatever packets come.
THEOREM TypeSafe == Spec => []TypeOK
<1>1. Inv => TypeOK
  BY DEF Inv
<1> QED
  BY <1>1, InvHolds, PTL

-----------------------------------------------------------------------------
(* No key is stuck *)

\* The last edge, or click, of a key leaves it down only if one of its
\* buttons is held now.
LEMMA PacketUnstuck ==
    ASSUME Inv, NoStuckButton,
           NEW cur \in Packets, NEW moves \in BOOLEAN, Packet(cur, moves)
    PROVE  NoStuckButton'
<1> DEFINE k1 == Edged(keys, "A", "BTN_LEFT", cur)
           k2 == Edged(k1, "B", "BTN_RIGHT", cur)
           k3 == XEdged(k2, cur)
           k4 == Edged(k3, "L", "BTN_LEFT", cur)
           k5 == Edged(k4, "R", "BTN_RIGHT", cur)
<1>1. prev' = cur /\ keys' = Tapped(k5, Touch(cur))
  BY AfterWritten, AfterButtons DEF Packet, Inv, TypeOK
<1>2. keys' \subseteq k5
  BY <1>1 DEF Tapped
<1>3. k3 \subseteq k2
  BY DEF XEdged
<1>4. ASSUME NEW b \in {"A", "B", "L", "R"}
      PROVE  b \in Diffs(prev, cur) <=> (b \in prev.buttons <=> b \notin cur.buttons)
  BY DEF Diffs
<1> SUFFICES ASSUME NEW key \in MouseKeys, Holders(key) \cap cur.buttons = {}
             PROVE  key \notin k5
  BY <1>1, <1>2 DEF NoStuckButton
<1>5. CASE key = "BTN_LEFT"
  <2>1. "A" \notin cur.buttons /\ "L" \notin cur.buttons
    BY <1>5 DEF Holders
  <2>2. CASE "A" \in prev.buttons \/ "L" \in prev.buttons
    <3>1. CASE "L" \in prev.buttons
      <4>1. key \notin k4
        BY <1>4, <1>5, <2>1, <3>1 DEF Edged
      <4> QED
        BY <1>5, <4>1 DEF Edged
    <3>2. CASE "A" \in prev.buttons
      <4>1. key \notin k1
        BY <1>4, <1>5, <2>1, <3>2 DEF Edged
      <4>2. key \notin k3
        BY <1>3, <1>5, <4>1 DEF Edged
      <4>3. key \notin k4
        BY <2>1, <4>2 DEF Edged
      <4> QED
        BY <1>5, <4>3 DEF Edged
    <3> QED
      BY <2>2, <3>1, <3>2
  <2>3. CASE "A" \notin prev.buttons /\ "L" \notin prev.buttons
    <3>1. key \notin keys
      BY <1>5, <2>3 DEF NoStuckButton, Holders
    <3>2. key \notin k1
      BY <2>1, <3>1 DEF Edged
    <3>3. key \notin k3
      BY <1>3, <1>5, <3>2 DEF Edged
    <3>4. key \notin k4
      BY <2>1, <3>3 DEF Edged
    <3> QED
      BY <1>5, <3>4 DEF Edged
  <2> QED
    BY <2>2, <2>3
<1>6. CASE key = "BTN_RIGHT"
  <2>1. "B" \notin cur.buttons /\ "R" \notin cur.buttons
    BY <1>6 DEF Holders
  <2>2. CASE "R" \in prev.buttons
    BY <1>4, <1>6, <2>1, <2>2 DEF Edged
  <2>3. CASE "R" \notin prev.buttons
    <3>1. key \notin k2
      <4>1. CASE "B" \in prev.buttons
        BY <1>4, <1>6, <2>1, <4>1 DEF Edged
      <4>2. CASE "B" \notin prev.buttons
        <5>1. key \notin keys
          BY <1>6, <2>3, <4>2 DEF NoStuckButton, Holders
        <5>2. key \notin k1
          BY <1>6, <5>1 DEF Edged
        <5> QED
          BY <2>1, <5>2 DEF Edged
      <4> QED
        BY <4>1, <4>2
    <3>2. key \notin k4
      BY <1>3, <1>6, <3>1 DEF Edged
    <3> QED
      BY <2>1, <3>2 DEF Edged
  <2> QED
    BY <2>2, <2>3
<1>7. CASE key = "BTN_MIDDLE"
  <2>1. key \notin keys
    BY <1>7 DEF NoStuckButton, Holders
  <2>2. key \notin k2
    BY <1>7, <2>1 DEF Edged
  <2>3. key \notin k3
    BY <1>3, <2>2
  <2> QED
    BY <1>7, <2>3 DEF Edged
<1> QED
  BY <1>5, <1>6, <1>7 DEF MouseKeys

LEMMA NextUnstuck == Inv /\ NoStuckButton /\ [Next]_vars => NoStuckButton'
<1> SUFFICES ASSUME Inv, NoStuckButton, [Next]_vars PROVE NoStuckButton'
  OBVIOUS
<1>1. ASSUME NEW cur \in Packets, NEW moves \in BOOLEAN, Packet(cur, moves)
      PROVE  NoStuckButton'
  BY <1>1, PacketUnstuck
<1>2. CASE Tick
  BY <1>2 DEF Tick, NoStuckButton
<1>3. CASE UNCHANGED vars
  BY <1>3 DEF vars, NoStuckButton
<1> QED
  BY <1>1, <1>2, <1>3 DEF Next

\* A mouse key is up when the last packet has none of its buttons, whatever
\* packets were lost or overtaken before it: every handler compares with the
\* packet it saw last, and every click ends with the key up.
THEOREM UnstuckSafe == Spec => []NoStuckButton
<1>1. Init => NoStuckButton
  BY DEF Init, NoStuckButton
<1> QED
  BY <1>1, InvHolds, NextUnstuck, PTL DEF Spec

-----------------------------------------------------------------------------
(* Taps *)

LEMMA OnePosition ==
    ASSUME NEW S \in SUBSET Positions, NEW p \in S, NEW q \in S, p # q
    PROVE  Cardinality(S) > 1
<1>1. IsFiniteSet(S)
  <2>1. IsFiniteSet(0..MaxPos)
    BY PositionAssumption, FS_Interval
  <2> QED
    BY <2>1, FS_Subset DEF Positions
<1>2. Cardinality(S) \in Nat
  BY <1>1, FS_CardinalityType
<1>3. Cardinality(S) # 0
  BY <1>1, FS_EmptySet
<1>4. Cardinality(S) # 1
  BY <1>1, FS_Singleton
<1> QED
  BY <1>2, <1>3, <1>4

\* A short touch that stayed where it began is one tap more: the drag of an
\* earlier touch is forgotten when this one begins, and nothing is flushed
\* while the time since the release is zero.
THEOREM TapCounts == Spec => StillTapCounts
<1> DEFINE P ==
          /\ prev.touch /\ ~prev'.touch
          /\ Cardinality(seen) = 1
          /\ pad.touchAge < TapRelease
        => pad'.taps = AtMost(TapCap, pad.taps + 1)
<1>1. Inv /\ [Next]_vars => [P]_vars
  <2> SUFFICES ASSUME Inv, [Next]_vars, vars' # vars,
                      prev.touch, ~prev'.touch, Cardinality(seen) = 1,
                      pad.touchAge < TapRelease
               PROVE  pad'.taps = AtMost(TapCap, pad.taps + 1)
    OBVIOUS
  <2>1. PICK cur \in Packets, moves \in BOOLEAN : Packet(cur, moves)
    BY DEF Next, Tick
  <2>2. ~cur.touch /\ pad.pressed
    BY <2>1 DEF Packet, Inv, PadFollows
  <2>3. Short
    <3>1. ASSUME pad.drag PROVE FALSE
      <4>1. PICK p \in seen, q \in seen : p # q
        BY <3>1 DEF Inv, DragMoved
      <4>2. Cardinality(seen) > 1
        BY <4>1, OnePosition DEF Inv, TypeOK
      <4> QED
        BY <4>2
    <3> QED
      BY <3>1 DEF Short, Inv, TypeOK, Pads
  <2>4. /\ Touch(cur).taps = AtMost(TapCap, pad.taps + 1)
        /\ Touch(cur).releaseAge = 0
    BY <2>2, <2>3, TouchFields DEF Ends, Inv, TypeOK, PadFollows
  <2>5. ~Due(Touch(cur))
    BY <2>4, TimerAssumption DEF Due
  <2>6. ~Drags(Touch(cur), cur, moves)
    BY <2>2 DEF Drags
  <2> QED
    BY <2>1, <2>4, <2>5, <2>6, PacketPad
<1>2. Spec => [][P]_vars
  BY <1>1, InvHolds, PTL DEF Spec
<1> QED
  BY <1>2 DEF StillTapCounts

\* Pending taps end as their click, with the finger up; in a touch that was
\* seen in two positions; or with a touch that was too long.
THEOREM TapEnds == Spec => TapOutcome
<1> DEFINE P ==
        pad.taps > 0 /\ pad'.taps = 0
        => \/ /\ ~prev.touch /\ ~prev'.touch
              /\ pad.releaseAge > TapReenter
              /\ \E i \in DOMAIN out' : out'[i] = Down(TapKey(pad.taps))
           \/ prev.touch /\ prev'.touch /\ Cardinality(seen') > 1
           \/ prev.touch /\ ~prev'.touch /\ pad.touchAge >= TapRelease
<1>1. Inv /\ [Next]_vars => [P]_vars
  <2> SUFFICES ASSUME Inv, [Next]_vars, vars' # vars, pad.taps > 0, pad'.taps = 0
               PROVE  P
    OBVIOUS
  <2>1. PICK cur \in Packets, moves \in BOOLEAN : Packet(cur, moves)
    <3>1. ASSUME Tick PROVE FALSE
      BY <3>1, TickPad DEF Inv, TypeOK
    <3> QED
      BY <3>1 DEF Next
  <2>2. prev' = cur /\ out' = Written(cur) /\ pad.pressed = prev.touch
    BY <2>1 DEF Packet, Inv, PadFollows
  <2> DEFINE p == Touch(cur)
  <2>3. /\ p.pressed = cur.touch
        /\ p.taps = IF Ends(cur)
                    THEN IF Short THEN AtMost(TapCap, pad.taps + 1) ELSE 0
                    ELSE pad.taps
        /\ p.lastPos = IF Begins(cur) THEN cur.pos ELSE pad.lastPos
        /\ p.releaseAge = IF Ends(cur) THEN 0 ELSE pad.releaseAge
    BY TouchFields DEF Inv, TypeOK, PadFollows
  <2>4. Drags(p, cur, moves) \/ Due(p) \/ p.taps = 0
    BY <2>1, PacketPad
  <2>5. CASE Drags(p, cur, moves)
    <3>1. cur.touch /\ cur.pos # p.lastPos
      BY <2>5 DEF Drags
    <3>2. ~Begins(cur) /\ prev.touch /\ cur.pos # pad.lastPos
      BY <2>2, <2>3, <3>1 DEF Begins
    <3>3. cur.pos \in seen' /\ pad.lastPos \in seen' /\ seen' \in SUBSET Positions
      BY <2>1, <3>1, <3>2, PacketSeen DEF Inv, SeenLast
    <3>4. Cardinality(seen') > 1
      BY <3>2, <3>3, OnePosition
    <3> QED
      BY <2>2, <3>1, <3>2, <3>4
  <2>6. CASE Due(p)
    <3>1. ~cur.touch /\ p.releaseAge > TapReenter
      BY <2>3, <2>6 DEF Due
    <3>2. ~Ends(cur)
      BY <2>3, <3>1, TimerAssumption
    <3>3. ~prev.touch /\ pad.releaseAge > TapReenter /\ p.taps = pad.taps
      BY <2>2, <2>3, <3>1, <3>2 DEF Ends
    <3>4. \E i \in DOMAIN out' : out'[i] = Down(TapKey(pad.taps))
      BY <2>2, <2>6, <3>3, DueIsClicked
    <3> QED
      BY <2>2, <3>1, <3>3, <3>4
  <2>7. CASE p.taps = 0
    <3>1. Ends(cur) /\ ~Short
      <4>1. pad.taps + 1 \in Nat /\ TapCap \in Nat /\ TapCap > 0 /\ pad.taps + 1 > 0
        BY DEF Inv, TypeOK, Pads, TapCap
      <4>2. AtMost(TapCap, pad.taps + 1) > 0
        BY <4>1, AtMostType
      <4> QED
        BY <2>3, <2>7, <4>2
    <3>2. prev.touch /\ ~cur.touch
      BY <2>2, <3>1 DEF Ends
    <3>3. ~pad.drag
      BY <3>2 DEF Inv, DragMoved
    <3>4. pad.touchAge >= TapRelease
      <4>1. pad.touchAge \in Nat /\ TapRelease \in Nat
        BY TimerAssumption DEF Inv, TypeOK, Pads, TouchCap
      <4> QED
        BY <3>1, <3>3, <4>1 DEF Short
    <3> QED
      BY <2>2, <3>2, <3>4
  <2> QED
    BY <2>4, <2>5, <2>6, <2>7
<1>2. Spec => [][P]_vars
  BY <1>1, InvHolds, PTL DEF Spec
<1> QED
  BY <1>2 DEF TapOutcome
=============================================================================
