------------------------ MODULE DsuConnection_proofs ------------------------
(***************************************************************************)
(* Proofs about DsuConnection for any number of clients and slots, any     *)
(* timeout and any width of the packet counter.                            *)
(***************************************************************************)
EXTENDS DsuRequests, DsuWire_proofs, SequenceTheorems

USE DEF Slots, Macs

LEMMA OlderType ==
    ASSUME NEW a \in Ages
    PROVE  Older(a) \in Ages /\ (a = AgeCap => Older(a) = AgeCap)
           /\ (a # AgeCap => Older(a) = a + 1)
BY TimeoutAssumption DEF Older, Ages, AgeCap

LEMMA NextNumber ==
    ASSUME NEW n \in Numbers
    PROVE  (n + 1) % CounterMod \in Numbers
BY CounterAssumption DEF Numbers

\* An age of 0 is an age, a series that has not begun is a series.
LEMMA Zeros ==
    /\ 0 \in Ages /\ AgeCap \in Ages
    /\ 0 \in Numbers
    /\ [s \in Slots |-> None] \in [Slots -> Numbers \cup {None}]
BY TimeoutAssumption, CounterAssumption DEF Ages, AgeCap, Numbers

LEMMA TypeInit == Init => TypeOK
<1>1. [s \in Slots |-> s] \in [Slots -> Macs]
      BY SlotAssumption
<1>2. QED BY <1>1, Zeros, IntensityAssumption DEF Init, TypeOK

\* What a request that poll takes does to the subscribers.
LEMMA TypeTouch ==
    ASSUME TypeOK, NEW c \in Clients, NEW id \in Ids, Touch(c, id)
    PROVE  /\ subs' \subseteq Subscribers
           /\ last' \in [Clients -> [Slots -> Numbers \cup {None}]]
           /\ everSub' \in BOOLEAN
<1>1. [ep |-> c, id |-> id, age |-> 0] \in Subscribers
      BY Zeros DEF Subscribers
<1>2. subs' \subseteq Subscribers /\ everSub' \in BOOLEAN
      BY <1>1 DEF Touch, TypeOK
<1>3. last' = last \/ last' = [last EXCEPT ![c] = [s \in Slots |-> None]]
      BY DEF Touch, NoPackets
<1>4. QED BY <1>2, <1>3, Zeros DEF TypeOK

LEMMA TypeNext == TypeOK /\ [Next]_vars => TypeOK'
<1> SUFFICES ASSUME TypeOK, [Next]_vars PROVE TypeOK'
    OBVIOUS
<1>1. CASE Open
      BY <1>1 DEF Open, TypeOK
<1>2. CASE Close
  <2>1. asked' \in [Clients -> Ages]
        BY <1>2, Zeros DEF Close, TypeOK
  <2>2. QED BY <1>2, <2>1 DEF Close, TypeOK
<1>3. ASSUME NEW r \in Requests, Arrive(r) PROVE TypeOK'
  <2>1. asked' \in [Clients -> Ages]
        BY <1>3, Zeros DEF Arrive, TypeOK
  <2>2. QED BY <1>3, <2>1 DEF Arrive, TypeOK
<1>4. CASE PollBegin
      BY <1>4 DEF PollBegin, TypeOK
<1>5. ASSUME NEW r \in inbox, PollTake(r) PROVE TypeOK'
  <2>1. r \in Requests
        BY DEF TypeOK
  <2>2. CASE TakeData(r)
    <3>1. r \in DataRequests /\ Touch(r.from, r.id)
          BY <2>1, <2>2 DEF TakeData, Requests, RumbleRequests, Queries
    <3>2. r.from \in Clients /\ r.id \in Ids
          BY <3>1 DEF DataRequests
    <3>3. QED BY <1>5, <2>2, <3>1, <3>2, TypeTouch DEF PollTake, TakeData, TypeOK
  <2>3. CASE TakeRumble(r)
    <3>1. r \in RumbleRequests
          BY <2>1, <2>3 DEF TakeRumble, Requests, DataRequests, Queries
    <3>2. rumble' \in [Slots -> Intensities]
          BY <2>3, <3>1 DEF TakeRumble, RumbleRequests, TypeOK
    <3>3. QED BY <1>5, <2>3, <3>2 DEF PollTake, TakeRumble, TypeOK
  <2>4. CASE TakeQuery(r)
        BY <1>5, <2>4 DEF PollTake, TakeQuery, TypeOK
  <2>5. QED BY <1>5, <2>2, <2>3, <2>4 DEF PollTake
<1>6. CASE PollDrained
      BY <1>6 DEF PollDrained, TypeOK
<1>7. CASE Prune
  <2>1. last' \in [Clients -> [Slots -> Numbers \cup {None}]]
        BY <1>7, Zeros DEF Prune, TypeOK
  <2>2. rumble' \in [Slots -> Intensities]
        BY <1>7, IntensityAssumption DEF Prune, TypeOK
  <2>3. QED BY <1>7, <2>1, <2>2 DEF Prune, Kept, TypeOK
<1>8. ASSUME NEW slot \in Slots, Send(slot) PROVE TypeOK'
  <2>1. counter' \in [Slots -> Numbers]
        BY <1>8, NextNumber DEF Send, TypeOK
  <2>2. last' \in [Clients -> [Slots -> Numbers \cup {None}]]
        BY <1>8 DEF Send, TypeOK
  <2>3. QED BY <1>8, <2>1, <2>2 DEF Send, TypeOK
<1>9. ASSUME NEW slot \in Slots, NEW mac \in Macs, SetSlot(slot, mac)
      PROVE  TypeOK'
      BY <1>9 DEF SetSlot, TypeOK
<1>10. CASE Tick
  <2>1. asked' \in [Clients -> Ages]
        BY <1>10, OlderType DEF Tick, TypeOK
  <2>2. subs' \subseteq Subscribers
        BY <1>10, OlderType DEF Tick, TypeOK, Subscribers
  <2>3. QED BY <1>10, <2>1, <2>2 DEF Tick, TypeOK
<1>11. CASE UNCHANGED vars
       BY <1>11 DEF vars, TypeOK
<1>12. QED BY <1>1, <1>2, <1>3, <1>4, <1>5, <1>6, <1>7, <1>8, <1>9, <1>10,
              <1>11 DEF Next

\* Type correctness.
THEOREM TypeSafe == Spec => []TypeOK
<1>1. QED BY TypeInit, TypeNext, PTL DEF Spec

-----------------------------------------------------------------------------
(* Every client has one entry. *)

\* The subscribers after poll took a request.
LEMMA TakeSubs ==
    ASSUME TypeOK, NEW r \in inbox, PollTake(r)
    PROVE  \/ UNCHANGED <<subs, last>>
           \/ r \in DataRequests /\ Touch(r.from, r.id)
BY DEF PollTake, TakeData, TakeRumble, TakeQuery, TypeOK, Requests,
   RumbleRequests, Queries

\* Who is subscribed after a DATA request.
LEMMA TouchSubs ==
    ASSUME TypeOK, NEW c \in Clients, NEW id \in Ids, Touch(c, id)
    PROVE  /\ \A t \in subs' : \/ (t \in subs /\ t.ep # c)
                              \/ (t.ep = c /\ t.id = id /\ t.age = 0)
           /\ \A t, u \in subs' : t.ep = c /\ u.ep = c => t = u
           /\ \A s \in subs : s.ep # c => s \in subs'
           /\ \E t \in subs' : t.ep = c
<1> DEFINE new == [ep |-> c, id |-> id, age |-> 0]
<1>1. new.ep = c /\ new.id = id /\ new.age = 0
      OBVIOUS
<1>2. subs' = {s \in subs : s.ep # c} \cup {new}
      BY DEF Touch
<1> HIDE DEF new
<1>3. \A t \in subs' : (t \in subs /\ t.ep # c) \/ t = new
      BY <1>2
<1>4. new \in subs' /\ \A s \in subs : s.ep # c => s \in subs'
      BY <1>2
<1>5. \A t, u \in subs' : t.ep = c /\ u.ep = c => t = u
      BY <1>3
<1>6. ASSUME NEW t \in subs'
      PROVE  \/ (t \in subs /\ t.ep # c)
             \/ (t.ep = c /\ t.id = id /\ t.age = 0)
      BY <1>1, <1>3
<1>7. \E t \in subs' : t.ep = c
      BY <1>1, <1>4
<1>8. QED BY <1>4, <1>5, <1>6, <1>7

\* Time changes nothing but ages.
LEMMA TickSubs ==
    ASSUME TypeOK, Tick
    PROVE  /\ \A t \in subs' : \E s \in subs :
                  /\ t = [s EXCEPT !.age = Older(s.age)]
                  /\ t.ep = s.ep /\ t.id = s.id /\ t.age = Older(s.age)
           /\ \A s \in subs : \E t \in subs' : t.ep = s.ep
<1> DEFINE older(s) == [s EXCEPT !.age = Older(s.age)]
<1>1. subs' = {older(s) : s \in subs}
      BY DEF Tick
<1>2. \A s \in subs : /\ older(s).ep = s.ep /\ older(s).id = s.id
                      /\ older(s).age = Older(s.age)
      BY DEF TypeOK, Subscribers
<1>3. QED BY <1>1, <1>2

LEMMA OnceNext == TypeOK /\ SubscribedOnce /\ [Next]_vars => SubscribedOnce'
<1> SUFFICES ASSUME TypeOK, SubscribedOnce, [Next]_vars
             PROVE  SubscribedOnce'
    OBVIOUS
<1> USE DEF SubscribedOnce
<1>1. ASSUME NEW r \in inbox, PollTake(r) PROVE SubscribedOnce'
  <2>1. CASE UNCHANGED subs
        BY <2>1
  <2>2. CASE r \in DataRequests /\ Touch(r.from, r.id)
    <3>1. r.from \in Clients /\ r.id \in Ids
          BY <2>2 DEF DataRequests
    <3>2. QED BY <2>2, <3>1, TouchSubs
  <2>3. QED BY <1>1, <2>1, <2>2, TakeSubs
<1>2. CASE Prune
      BY <1>2 DEF Prune, Kept
<1>3. CASE Tick
  <2> SUFFICES ASSUME NEW t \in subs', NEW u \in subs', t.ep = u.ep
               PROVE  t = u
      OBVIOUS
  <2>1. PICK s \in subs : t = [s EXCEPT !.age = Older(s.age)] /\ t.ep = s.ep
        BY <1>3, TickSubs
  <2>2. PICK v \in subs : u = [v EXCEPT !.age = Older(v.age)] /\ u.ep = v.ep
        BY <1>3, TickSubs
  <2>3. s = v
        BY <2>1, <2>2
  <2>4. QED BY <2>1, <2>2, <2>3
<1>4. CASE UNCHANGED subs
      BY <1>4
<1>5. QED BY <1>1, <1>2, <1>3, <1>4 DEF Next, vars, Open, Close, Arrive,
         PollBegin, PollDrained, Send, SetSlot

\* A client is subscribed once.
THEOREM OnceSafe == Spec => []SubscribedOnce
<1>1. Init => SubscribedOnce
      BY DEF Init, SubscribedOnce
<1>2. QED BY <1>1, OnceNext, TypeSafe, PTL DEF Spec

-----------------------------------------------------------------------------
(***************************************************************************)
(* Live clients are kept.  A subscriber whose requests have all been taken *)
(* is no older than its last request; while poll prunes, every request     *)
(* that waits has only just arrived.                                       *)
(***************************************************************************)
Waiting(c) == \E r \in inbox : r.kind = "data" /\ r.from = c

Served == \A s \in subs : ~Waiting(s.ep) => s.age <= asked[s.ep]

JustArrived == where = "prune" => \A c \in Clients : Waiting(c) => asked[c] = 0

KeepInv == Served /\ JustArrived

LEMMA KeepNext == TypeOK /\ KeepInv /\ [Next]_vars => KeepInv'
<1> SUFFICES ASSUME TypeOK, KeepInv, [Next]_vars PROVE KeepInv'
    OBVIOUS
<1> USE DEF KeepInv, Served, JustArrived, Waiting
<1>0. /\ \A s \in subs : s.ep \in Clients /\ s.age \in Ages
      /\ asked \in [Clients -> Ages] /\ Ages = 0..AgeCap /\ AgeCap \in Nat
      BY TimeoutAssumption DEF TypeOK, Subscribers, Ages, AgeCap
<1>1. CASE Close
      BY <1>0, <1>1 DEF Close
<1>2. ASSUME NEW r \in Requests, Arrive(r) PROVE KeepInv'
  <2>1. CASE r.kind = "data"
    <3>1. r.from \in Clients
          BY <2>1 DEF Requests, DataRequests, RumbleRequests, Queries
    <3>2. QED BY <1>0, <1>2, <2>1, <3>1 DEF Arrive
  <2>2. CASE r.kind # "data"
        BY <1>2, <2>2 DEF Arrive
  <2>3. QED BY <2>1, <2>2
<1>3. ASSUME NEW r \in inbox, PollTake(r) PROVE KeepInv'
  <2>1. where' = "drain" /\ inbox' = inbox \ {r} /\ UNCHANGED asked
        BY <1>3 DEF PollTake
  <2>2. CASE r \in DataRequests /\ Touch(r.from, r.id)
    <3>1. r.from \in Clients /\ r.id \in Ids
          BY <2>2 DEF DataRequests
    <3>2. ASSUME NEW s \in subs', ~Waiting(s.ep)'
          PROVE  s.age <= asked'[s.ep]
      <4>1. CASE s.ep = r.from
        <5>1. s.age = 0
              BY <2>2, <3>1, <4>1, TouchSubs
        <5>2. asked'[s.ep] \in Ages
              BY <1>0, <2>1, <3>1, <4>1
        <5>3. QED BY <1>0, <5>1, <5>2
      <4>2. CASE s.ep # r.from
        <5>1. s \in subs
              BY <2>2, <3>1, <4>2, TouchSubs
        <5>2. ~Waiting(s.ep)
              BY <2>1, <3>2, <4>2
        <5>3. QED BY <2>1, <5>1, <5>2
      <4>3. QED BY <4>1, <4>2
    <3>3. QED BY <2>1, <3>2
  <2>3. CASE UNCHANGED <<subs, last>> /\ r.kind # "data"
        BY <2>1, <2>3
  <2>4. r.kind = "data" => r \in DataRequests /\ Touch(r.from, r.id)
        BY <1>3 DEF PollTake, TakeData, TakeRumble, TakeQuery, TypeOK,
           Requests, RumbleRequests, Queries
  <2>5. QED BY <1>3, <2>2, <2>3, <2>4, TakeSubs DEF DataRequests
<1>4. CASE PollDrained
      BY <1>4 DEF PollDrained
<1>5. CASE Prune
      BY <1>5 DEF Prune, Kept
<1>6. CASE Tick
  <2>1. /\ subs' = {[s EXCEPT !.age = Older(@)] : s \in subs}
        /\ \A c \in Clients : asked'[c] = Older(asked[c])
        /\ UNCHANGED <<inbox, where>> /\ where # "prune"
        BY <1>6 DEF Tick
  <2>2. ASSUME NEW s \in subs, ~Waiting(s.ep)
        PROVE  Older(s.age) <= asked'[s.ep]
        BY <1>0, <2>1, <2>2 DEF Older
  <2>3. ASSUME NEW t \in subs', ~Waiting(t.ep)'
        PROVE  t.age <= asked'[t.ep]
    <3>1. PICK s \in subs : t.ep = s.ep /\ t.age = Older(s.age)
          BY <1>6, TickSubs
    <3>2. ~Waiting(s.ep)
          BY <2>1, <2>3, <3>1
    <3>3. QED BY <2>2, <3>1, <3>2
  <2>4. QED BY <2>1, <2>3
<1>7. CASE UNCHANGED <<inbox, subs, asked>> /\ where' # "prune"
      BY <1>7
<1>8. CASE UNCHANGED <<inbox, subs, asked, where>>
      BY <1>8
<1>9. QED BY <1>1, <1>2, <1>3, <1>4, <1>5, <1>6, <1>7, <1>8
         DEF Next, vars, Open, PollBegin, Send, SetSlot

\* Only a client that was silent for the timeout is dropped.
THEOREM LiveClientSafe == Spec => LiveClientKept
<1> DEFINE Silent(s) == (\A t \in subs' : t.ep # s.ep)
                            => asked[s.ep] \notin 1..Timeout
<1>1. TypeOK /\ KeepInv /\ [Next]_vars => \A s \in subs : Silent(s)
  <2> SUFFICES ASSUME TypeOK, KeepInv, [Next]_vars, NEW s \in subs,
                      \A t \in subs' : t.ep # s.ep
               PROVE  asked[s.ep] \notin 1..Timeout
      OBVIOUS
  <2>1. CASE Prune
    <3>1. s.age \in Ages /\ s.ep \in Clients /\ asked[s.ep] \in Ages
          BY DEF TypeOK, Subscribers
    <3>2. s.age > Timeout
          BY <2>1, <3>1, TimeoutAssumption DEF Prune, Kept, Ages, AgeCap
    <3>3. CASE Waiting(s.ep)
          BY <2>1, <3>1, <3>3 DEF Prune, KeepInv, JustArrived
    <3>4. CASE ~Waiting(s.ep)
          BY <3>1, <3>2, <3>4, TimeoutAssumption
          DEF KeepInv, Served, Ages, AgeCap
    <3>5. QED BY <3>3, <3>4
  <2>2. CASE Tick
        BY <2>2, TickSubs
  <2>3. ASSUME NEW r \in inbox, PollTake(r) PROVE FALSE
    <3>1. CASE UNCHANGED subs
          BY <3>1
    <3>2. CASE r \in DataRequests /\ Touch(r.from, r.id)
      <4>1. r.from \in Clients /\ r.id \in Ids
            BY <3>2 DEF DataRequests
      <4>2. QED BY <3>2, <4>1, TouchSubs
    <3>3. QED BY <2>3, <3>1, <3>2, TakeSubs
  <2>4. CASE UNCHANGED subs
        BY <2>4
  <2>5. QED BY <2>1, <2>2, <2>3, <2>4 DEF Next, vars, Open, Close, Arrive,
           PollBegin, PollDrained, Send, SetSlot
<1>2. Init => KeepInv
      BY DEF Init, KeepInv, Served, JustArrived
<1>3. TypeOK /\ KeepInv /\ [Next]_vars => [\A s \in subs : Silent(s)]_vars
      BY <1>1
<1>4. QED BY <1>2, <1>3, KeepNext, TypeSafe, PTL DEF Spec, LiveClientKept

-----------------------------------------------------------------------------
(* A subscriber misses no number of its slots. *)

LEMMA GapsNext ==
    TypeOK /\ SubscribedOnce /\ NoGaps /\ [Next]_vars => NoGaps'
<1> SUFFICES ASSUME TypeOK, SubscribedOnce, NoGaps, [Next]_vars
             PROVE  NoGaps'
    OBVIOUS
<1> USE DEF NoGaps
<1>0. /\ \A s \in subs : s.ep \in Clients
      /\ last \in [Clients -> [Slots -> Numbers \cup {None}]]
      /\ counter \in [Slots -> Numbers]
      BY DEF TypeOK, Subscribers
<1>1. ASSUME NEW r \in inbox, PollTake(r) PROVE NoGaps'
  <2>1. UNCHANGED counter
        BY <1>1 DEF PollTake
  <2>2. CASE UNCHANGED <<subs, last>>
        BY <2>1, <2>2
  <2>3. CASE r \in DataRequests /\ Touch(r.from, r.id)
    <3>1. r.from \in Clients /\ r.id \in Ids
          BY <2>3 DEF DataRequests
    <3>2. CASE \E s \in subs : s.ep = r.from /\ s.id = r.id
      <4>1. UNCHANGED last
            BY <2>3, <3>2 DEF Touch
      <4>2. \A t \in subs' : \E s \in subs : t.ep = s.ep /\ t.id = s.id
            BY <2>3, <3>1, <3>2, TouchSubs
      <4>3. QED BY <2>1, <4>1, <4>2
    <3>3. CASE ~\E s \in subs : s.ep = r.from /\ s.id = r.id
      <4>1. last' = [last EXCEPT ![r.from] = [s \in Slots |-> None]]
            BY <2>3, <3>3 DEF Touch, NoPackets
      <4>2. /\ \A k \in Slots : last'[r.from][k] = None
            /\ \A c \in Clients : c # r.from => last'[c] = last[c]
            BY <1>0, <3>1, <4>1
      <4>3. ASSUME NEW t \in subs'
            PROVE  t.ep = r.from \/ (t \in subs /\ t.ep # r.from)
            BY <2>3, <3>1, TouchSubs
      <4>4. QED BY <1>0, <2>1, <4>2, <4>3
    <3>4. QED BY <3>2, <3>3
  <2>4. QED BY <1>1, <2>2, <2>3, TakeSubs
<1>2. CASE Prune
  <2>1. UNCHANGED counter /\ subs' \subseteq subs
        BY <1>2 DEF Prune, Kept
  <2>2. \A c \in Clients : last'[c] = last[c]
                           \/ last'[c] = [s \in Slots |-> None]
        BY <1>2 DEF Prune
  <2>3. \A c \in Clients, k \in Slots : last'[c][k] # None
                                        => last'[c][k] = last[c][k]
        BY <2>2
  <2>4. \A s \in subs' : s \in subs /\ s.ep \in Clients
        BY <1>0, <2>1
  <2>5. QED BY <2>1, <2>3, <2>4
<1>3. ASSUME NEW slot \in Slots, Send(slot) PROVE NoGaps'
  <2> SUFFICES ASSUME NEW s \in subs, NEW k \in Slots,
                      s.id.mode = "All" \/ (s.id.mode = "Slot" /\ s.id.slot = k),
                      last'[s.ep][k] # None
               PROVE  (last'[s.ep][k] + 1) % CounterMod = counter'[k]
      BY <1>3 DEF Send
  <2>1. CASE k = slot
    <3>1. s \in Recipients(slot)
          BY <2>1 DEF Recipients, Wants
    <3>2. last'[s.ep][slot] = counter[slot]
          BY <1>0, <1>3, <3>1 DEF Send
    <3>3. QED BY <1>0, <1>3, <2>1, <3>2 DEF Send
  <2>2. CASE k # slot
    <3>1. last'[s.ep][k] = last[s.ep][k]
          BY <1>0, <1>3, <2>2 DEF Send
    <3>2. counter'[k] = counter[k]
          BY <1>0, <1>3, <2>2 DEF Send
    <3>3. QED BY <3>1, <3>2
  <2>3. QED BY <2>1, <2>2
<1>4. CASE Tick
  <2>1. UNCHANGED <<counter, last>>
        BY <1>4 DEF Tick
  <2>2. \A t \in subs' : \E s \in subs : t.ep = s.ep /\ t.id = s.id
        BY <1>4, TickSubs
  <2>3. QED BY <2>1, <2>2
<1>5. CASE UNCHANGED <<subs, last, counter>>
      BY <1>5
<1>6. QED BY <1>1, <1>2, <1>3, <1>4, <1>5 DEF Next, vars, Open, Close, Arrive,
         PollBegin, PollDrained, SetSlot

\* The numbers a subscriber gets for a slot are consecutive.
THEOREM GapFree == Spec => []NoGaps
<1>1. Init => NoGaps
      BY DEF Init, NoGaps
<1>2. QED BY <1>1, GapsNext, TypeSafe, OnceSafe, PTL DEF Spec

-----------------------------------------------------------------------------
(* The datagrams of requests *)

\* All that is assumed of crc32: it is a word.
ChecksumIsWord == \A d \in Seq(Byte) : Crc32[d] \in Word

LEMMA WordBytes ==
    ASSUME NEW w \in Word
    PROVE  w[1] \in Byte /\ w[2] \in Byte /\ w[3] \in Byte /\ w[4] \in Byte
BY DEF Word

LEMMA HeaderBytes ==
    ASSUME NEW c \in Word, NEW id \in Word, NEW type \in Word,
           NEW payload \in Seq(Byte), NEW i \in 1..20
    PROVE  Header(MagicClient, c, id, type, payload)[i] \in Byte
<1> DEFINE h == Header(MagicClient, c, id, type, payload)
           length == (Len(payload) + 4) % 65536
<1>1. /\ h[1] = 68 /\ h[2] = 83 /\ h[3] = 85 /\ h[4] = 67
      /\ h[5] = 233 /\ h[6] = 3
      /\ h[7] = length % 256 /\ h[8] = length \div 256
      /\ h[9] = c[1] /\ h[10] = c[2] /\ h[11] = c[3] /\ h[12] = c[4]
      /\ h[13] = id[1] /\ h[14] = id[2] /\ h[15] = id[3] /\ h[16] = id[4]
      /\ h[17] = type[1] /\ h[18] = type[2] /\ h[19] = type[3] /\ h[20] = type[4]
  BY DEF Header, MagicClient
<1>2. length \in Nat /\ length < 65536
  <2>1. Len(payload) \in Nat
    OBVIOUS
  <2> QED
    BY <2>1
<1> HIDE DEF h, length
<1>3. h[7] \in Byte /\ h[8] \in Byte
  <2>1. length % 256 \in 0..255 /\ length \div 256 \in 0..255
    BY <1>2
  <2>2. h[7] = length % 256 /\ h[8] = length \div 256
    BY <1>1
  <2> QED
    BY <2>1, <2>2 DEF Byte
<1>4. /\ h[9] \in Byte /\ h[10] \in Byte /\ h[11] \in Byte /\ h[12] \in Byte
      /\ h[13] \in Byte /\ h[14] \in Byte /\ h[15] \in Byte /\ h[16] \in Byte
      /\ h[17] \in Byte /\ h[18] \in Byte /\ h[19] \in Byte /\ h[20] \in Byte
  BY <1>1, WordBytes
<1>5. /\ h[1] \in Byte /\ h[2] \in Byte /\ h[3] \in Byte /\ h[4] \in Byte
      /\ h[5] \in Byte /\ h[6] \in Byte
  BY <1>1 DEF Byte
<1>6. \/ i = 1 \/ i = 2 \/ i = 3 \/ i = 4 \/ i = 5 \/ i = 6 \/ i = 7
      \/ i = 8 \/ i = 9 \/ i = 10 \/ i = 11 \/ i = 12 \/ i = 13 \/ i = 14
      \/ i = 15 \/ i = 16 \/ i = 17 \/ i = 18 \/ i = 19 \/ i = 20
  OBVIOUS
<1>7. h[i] \in Byte
  BY <1>3, <1>4, <1>5, <1>6
<1> QED
  BY <1>7 DEF h

LEMMA PacketBytes ==
    ASSUME NEW c \in Word, NEW id \in Word, NEW type \in Word,
           NEW payload \in Seq(Byte)
    PROVE  /\ Packet(MagicClient, c, id, type, payload) \in Seq(Byte)
           /\ Len(Packet(MagicClient, c, id, type, payload)) = 20 + Len(payload)
<1> DEFINE h == Header(MagicClient, c, id, type, payload)
           n == Len(payload)
           d == [i \in 1..20 + n |-> IF i <= 20 THEN h[i] ELSE payload[i - 20]]
<1>1. Packet(MagicClient, c, id, type, payload) = d
  BY DEF Packet, HeaderSize
<1>2. n \in Nat
  OBVIOUS
<1>3. ASSUME NEW i \in 1..20 + n PROVE d[i] \in Byte
  <2>1. CASE i <= 20
    <3>1. h[i] \in Byte
      <4>1. i \in 1..20
        BY <1>2, <2>1
      <4> QED
        BY <4>1, HeaderBytes
    <3> QED
      BY <2>1, <3>1
  <2>2. CASE i > 20
    BY <1>2, <2>2
  <2> QED
    BY <2>1, <2>2
<1>4. d \in Seq(Byte) /\ Len(d) = 20 + n
  <2> HIDE DEF h, n
  <2>1. d \in [1..20 + n -> Byte]
    BY <1>3
  <2> QED
    BY <1>2, <2>1
<1> QED
  BY <1>1, <1>4

LEMMA FrameBytes ==
    ASSUME ChecksumIsWord, NEW id \in Word, NEW type \in Word,
           NEW payload \in Seq(Byte)
    PROVE  /\ Frame(MagicClient, id, type, payload) \in Seq(Byte)
           /\ Len(Frame(MagicClient, id, type, payload)) = 20 + Len(payload)
<1> DEFINE unsigned == Packet(MagicClient, <<0, 0, 0, 0>>, id, type, payload)
<1>1. <<0, 0, 0, 0>> \in Word
  BY DEF Word, Byte
<1>2. unsigned \in Seq(Byte)
  BY <1>1, PacketBytes
<1>3. Crc32[unsigned] \in Word
  BY <1>2 DEF ChecksumIsWord
<1> QED
  BY <1>3, PacketBytes DEF Frame

\* A datagram under another length field is bytes again.
LEMMA DeclareBytes ==
    ASSUME ChecksumIsWord, NEW d \in Seq(Byte), NEW n \in 0..15
    PROVE  Declare(d, n) \in Seq(Byte)
<1> DEFINE e == [d EXCEPT ![7] = n]
           w == Crc32[Zeroed(e)]
<1>1. e \in Seq(Byte) /\ Len(e) \in Nat
  <2>1. n \in Byte
    BY DEF Byte
  <2>2. e = [i \in 1..Len(d) |-> IF i = 7 THEN n ELSE d[i]]
    OBVIOUS
  <2>3. \A i \in 1..Len(d) : (IF i = 7 THEN n ELSE d[i]) \in Byte
    BY <2>1
  <2>4. [i \in 1..Len(d) |-> IF i = 7 THEN n ELSE d[i]] \in Seq(Byte)
    BY <2>3
  <2>5. e \in Seq(Byte)
    BY <2>2, <2>4, Zenon
  <2> HIDE DEF e
  <2> QED
    BY <2>5
<1> HIDE DEF e
<1>2. Zeroed(e) \in Seq(Byte)
  <2>1. 0 \in Byte
    BY DEF Byte
  <2> QED
    BY <1>1, <2>1 DEF Zeroed
<1>3. w \in Word
  BY <1>2 DEF ChecksumIsWord
<1> HIDE DEF w
<1>4. ASSUME NEW i \in 1..Len(e)
      PROVE  (IF i \in 9..12 THEN w[i - 8] ELSE e[i]) \in Byte
  <2>1. CASE i \in 9..12
    <3>1. i - 8 \in 1..4
      BY <2>1
    <3> QED
      BY <1>3, <2>1, <3>1 DEF Word
  <2>2. CASE i \notin 9..12
    BY <1>1, <2>2
  <2> QED
    BY <2>1, <2>2
<1>5. Declare(d, n) =
          [i \in 1..Len(e) |-> IF i \in 9..12 THEN w[i - 8] ELSE e[i]]
  BY DEF Declare, e, w
<1> QED
  BY <1>1, <1>4, <1>5

\* What is sent instead of a datagram is bytes again, so the parser is exact
\* for it and stays inside it.
LEMMA VariantsRight ==
    ASSUME ChecksumIsWord, NEW d \in Seq(Byte), Len(d) >= 20
    PROVE  ParserRight(d)
<1>1. [d EXCEPT ![16] = 0] \in Seq(Byte)
  BY DEF Byte
<1>2. \A n \in 0..Len(d) : SubSeq(d, 1, n) \in Seq(Byte)
  OBVIOUS
<1>3. /\ 0..HeaderSize - 1 \subseteq 0..Len(d)
      /\ HeaderSize..Len(d) \subseteq 0..Len(d)
  BY DEF HeaderSize
<1>4. Append(d, 0) \in Seq(Byte)
  BY DEF Byte
<1>5. Resized(d) \subseteq Seq(Byte)
  BY <1>2, <1>3, <1>4 DEF Resized
<1> DEFINE Bytes == Seq(Byte)
<1>6. /\ Damaged(d) \in Bytes
      /\ \A n \in 0..HeaderSize - 1 : SubSeq(d, 1, n) \in Bytes
      /\ Resized(d) \subseteq Bytes
      /\ \A r \in Bytes, n \in 0..15 : Declare(r, n) \in Bytes
  BY <1>1, <1>2, <1>3, <1>5, DeclareBytes DEF Damaged
<1> HIDE DEF Bytes
<1>7. Beheaded(d) \subseteq Bytes /\ Redeclared(d) \subseteq Bytes
  <2>1. Beheaded(d) \subseteq Bytes
    BY <1>6, Zenon DEF Beheaded
  <2>2. Redeclared(d) \subseteq Bytes
    BY <1>6 DEF Redeclared
  <2> QED
    BY <2>1, <2>2
<1>8. \A v \in Variants(d) : v \in Bytes
  BY <1>6, <1>7 DEF Variants
<1> QED
  BY <1>8, ParserExact, ParserInside DEF ParserRight, Bytes

LEMMA TypesKnown ==
    /\ Version \in MsgTypes /\ PortInfo \in MsgTypes /\ Data \in MsgTypes
    /\ MotorInfo \in MsgTypes /\ Rumble \in MsgTypes
BY DEF MsgTypes

LEMMA TypesAreWords ==
    /\ ClientId \in Word /\ Version \in Word /\ PortInfo \in Word
    /\ Data \in Word /\ MotorInfo \in Word /\ Rumble \in Word
BY DEF ClientId, Version, PortInfo, Data, MotorInfo, Rumble, Word, Byte

\* A framed datagram: its header is fine, its bytes are the payload's, and it
\* is read if the payload is long enough.
FramedWell(d, type, payload) ==
    /\ ParserRight(d)
    /\ HeaderOk(d) /\ Type(d) = type
    /\ PayloadSize(d) = Len(payload)
    /\ \A i \in 1..Len(payload) : d[20 + i] = payload[i]
    /\ Needed(d) <= Len(payload) => ParseClientPacket(d) # Refused

\* A payload that the length field has room for
Fits(payload) == Len(payload) < 65000

LEMMA FromClientFacts ==
    ASSUME ChecksumIsWord, NEW type \in MsgTypes, NEW payload \in Seq(Byte),
           Fits(payload)
    PROVE  FramedWell(FromClient(type, payload), type, payload)
<1> DEFINE d == FromClient(type, payload)
<1>1. type \in Word
  BY TypesAreWords DEF MsgTypes
<1>2. d \in Seq(Byte) /\ Len(d) = 20 + Len(payload)
  BY <1>1, TypesAreWords, FrameBytes DEF FromClient
<1>3. Len(payload) \in Nat
  OBVIOUS
<1>4. /\ HeaderOk(d) /\ Type(d) = type /\ PayloadSize(d) = Len(payload)
      /\ Field(d, HeaderSize, Len(payload)) = payload
  <2>1. FramesParse(ClientId, type, payload)
    BY <1>1, TypesAreWords, FramingSound
  <2>2. Len(payload) + 4 < 65536
    BY <1>3 DEF Fits
  <2> QED
    BY <2>1, <2>2 DEF FramesParse, FromClient
<1> HIDE DEF d
<1>5. ParserRight(d)
  BY <1>2, <1>3, VariantsRight
<1>6. ASSUME NEW i \in 1..Len(payload) PROVE d[20 + i] = payload[i]
  <2>1. Field(d, HeaderSize, Len(payload))[i] = d[20 + i]
    BY DEF Field, HeaderSize
  <2> QED
    BY <1>4, <2>1
<1>7. ASSUME Needed(d) <= Len(payload) PROVE ParseClientPacket(d) # Refused
  <2>1. AcceptedIfLongEnough(d)
    BY <1>2, ParserExact
  <2> QED
    BY <1>4, <1>7, <2>1 DEF AcceptedIfLongEnough
<1>8. FramedWell(d, type, payload)
  BY <1>4, <1>5, <1>6, <1>7 DEF FramedWell
<1> QED
  BY <1>8 DEF d

LEMMA SelectorBytes ==
    ASSUME NEW a \in Byte, NEW b \in Byte, NEW c \in Byte
    PROVE  /\ Selector(a, b, c) \in Seq(Byte)
           /\ Len(Selector(a, b, c)) = 8
           /\ Selector(a, b, c) = <<a, b, c, 0, 0, 0, 0, 0>>
<1>1. 0 \in Byte
  BY DEF Byte
<1> QED
  BY <1>1 DEF Selector

LEMMA DataRead ==
    ASSUME ChecksumIsWord, NEW q \in DataRequests, NEW d \in DatagramsOf(q)
    PROVE  Means(ParseClientPacket(d), q) /\ ParserRight(d)
<1> DEFINE id == q.id
           slot == IF id.mode = "Slot" THEN id.slot ELSE 0
           mac == IF id.mode = "Mac" THEN id.mac ELSE 0
           payload == Selector(ModeByte[id.mode], slot, mac)
<1>1. q.kind = "data" /\ id \in Ids
  BY DEF DataRequests
<1>2. d = FromClient(Data, payload)
  BY <1>1 DEF DatagramsOf, SelectorOf
<1>3. slot \in Byte /\ mac \in Byte /\ ModeByte[id.mode] \in Byte
  <2>1. 0 \in Byte /\ 1 \in Byte /\ 2 \in Byte
    BY DEF Byte
  <2>2. id.mode = "All" \/ (id.mode = "Slot" /\ id.slot \in Slots)
        \/ (id.mode = "Mac" /\ id.mac \in Macs)
    BY <1>1 DEF Ids
  <2> QED
    BY <2>1, <2>2, BytesAssumption DEF ModeByte
<1> HIDE DEF slot, mac
<1>4. /\ payload \in Seq(Byte) /\ Len(payload) = 8
      /\ payload[1] = ModeByte[id.mode] /\ payload[2] = slot /\ payload[3] = mac
      /\ payload[4] = 0 /\ payload[5] = 0 /\ payload[6] = 0
      /\ payload[7] = 0 /\ payload[8] = 0
  <2> DEFINE mode == ModeByte[id.mode]
  <2> HIDE DEF mode
  <2>1. /\ Selector(mode, slot, mac) \in Seq(Byte)
        /\ Len(Selector(mode, slot, mac)) = 8
        /\ Selector(mode, slot, mac) = <<mode, slot, mac, 0, 0, 0, 0, 0>>
    BY <1>3, SelectorBytes DEF mode
  <2> QED
    BY <2>1 DEF mode
<1> HIDE DEF payload
<1>5. /\ ParserRight(d) /\ HeaderOk(d) /\ Type(d) = Data
      /\ \A i \in 1..8 : d[20 + i] = payload[i]
      /\ Needed(d) <= 8 => ParseClientPacket(d) # Refused
  <2>1. FramedWell(d, Data, payload)
    <3>1. Data \in MsgTypes /\ Fits(payload)
      BY <1>4, TypesKnown DEF Fits
    <3>2. payload \in Seq(Byte)
      BY <1>4
    <3> QED
      BY <1>2, <3>1, <3>2, FromClientFacts
  <2> QED
    BY <1>4, <2>1 DEF FramedWell
<1>6. ParseClientPacket(d) # Refused
  <2>1. Needed(d) = 8
    BY <1>5, TypesDiffer DEF Needed
  <2> QED
    BY <1>5, <2>1
<1>7. ParseClientPacket(d) = [kind |-> "data", id |-> Id(d)]
  BY <1>5, <1>6, TypesDiffer DEF ParseClientPacket
<1>8. /\ d[21] = payload[1] /\ d[22] = payload[2] /\ d[23] = payload[3]
      /\ d[24] = payload[4] /\ d[25] = payload[5] /\ d[26] = payload[6]
      /\ d[27] = payload[7] /\ d[28] = payload[8]
  <2>1. /\ 20 + 1 = 21 /\ 20 + 2 = 22 /\ 20 + 3 = 23 /\ 20 + 4 = 24
        /\ 20 + 5 = 25 /\ 20 + 6 = 26 /\ 20 + 7 = 27 /\ 20 + 8 = 28
    OBVIOUS
  <2> QED
    BY <1>5, <2>1
<1>9. Field(d, 22, 6) = <<mac, 0, 0, 0, 0, 0>>
  <2>1. Field(d, 22, 6) = [i \in 1..6 |-> d[22 + i]]
    BY DEF Field
  <2>2. /\ d[22 + 1] = mac /\ d[22 + 2] = 0 /\ d[22 + 3] = 0
        /\ d[22 + 4] = 0 /\ d[22 + 5] = 0 /\ d[22 + 6] = 0
    BY <1>4, <1>8
  <2>3. [i \in 1..6 |-> d[22 + i]] =
            <<d[22 + 1], d[22 + 2], d[22 + 3], d[22 + 4], d[22 + 5], d[22 + 6]>>
    OBVIOUS
  <2> QED
    BY <2>1, <2>2, <2>3
<1>10. Means(ParseClientPacket(d), q)
  BY <1>1, <1>4, <1>7, <1>8, <1>9 DEF Means, Id, slot, mac
<1> QED
  BY <1>5, <1>10

\* u is n bytes of s and m bytes of t.
JoinOf(u, s, n, t, m) ==
    /\ u \in Seq(Byte) /\ Len(u) = n + m
    /\ \A i \in 1..n : u[i] = s[i]
    /\ \A i \in 1..m : u[n + i] = t[i]

LEMMA Joined ==
    ASSUME NEW s \in Seq(Byte), NEW t \in Seq(Byte), NEW n \in Nat, NEW m \in Nat,
           Len(s) = n, Len(t) = m
    PROVE  JoinOf(s \o t, s, n, t, m)
<1>1. s \o t \in Seq(Byte) /\ Len(s \o t) = n + m
  BY ConcatProperties
<1>2. ASSUME NEW i \in 1..n
      PROVE  (s \o t)[i] = s[i]
  BY ConcatProperties
<1>3. ASSUME NEW i \in 1..m
      PROVE  (s \o t)[n + i] = t[i]
  <2> DEFINE k == n + i
  <2>1. k \in 1..Len(s) + Len(t) /\ ~(k <= Len(s)) /\ k - Len(s) = i
    OBVIOUS
  <2> HIDE DEF k
  <2>2. (s \o t)[k] = t[k - Len(s)]
    BY <2>1, ConcatProperties
  <2> QED
    BY <2>1, <2>2 DEF k
<1> QED
  BY <1>1, <1>2, <1>3 DEF JoinOf

LEMMA RumbleRead ==
    ASSUME ChecksumIsWord, NEW q \in RumbleRequests, NEW d \in DatagramsOf(q)
    PROVE  Means(ParseClientPacket(d), q) /\ ParserRight(d)
<1> DEFINE first == Selector(1, q.slot, 0)
           payload == first \o <<0, q.to>>
<1>1. q.kind = "rumble" /\ q.slot \in Slots /\ q.to \in Intensities
  BY DEF RumbleRequests
<1>2. d = FromClient(Rumble, payload)
  BY <1>1 DEF DatagramsOf
<1>3. q.slot \in Byte /\ q.to \in Byte /\ 0 \in Byte /\ 1 \in Byte
  BY <1>1, BytesAssumption DEF Byte
<1>4. first \in Seq(Byte) /\ Len(first) = 8 /\ first[2] = q.slot
  BY <1>3, SelectorBytes
<1> HIDE DEF first
<1>5. /\ payload \in Seq(Byte) /\ Len(payload) = 10
      /\ payload[2] = q.slot /\ payload[9] = 0 /\ payload[10] = q.to
  <2> DEFINE rest == <<0, q.to>>
  <2>1. rest \in Seq(Byte) /\ Len(rest) = 2 /\ rest[1] = 0 /\ rest[2] = q.to
    BY <1>3
  <2> HIDE DEF rest
  <2>2. /\ payload \in Seq(Byte) /\ Len(payload) = 8 + 2
        /\ \A i \in 1..8 : payload[i] = first[i]
        /\ \A i \in 1..2 : payload[8 + i] = rest[i]
    <3> HIDE DEF payload
    <3>1. payload = first \o rest
      BY DEF payload, rest
    <3>2. 8 \in Nat /\ 2 \in Nat
      OBVIOUS
    <3>3. JoinOf(first \o rest, first, 8, rest, 2)
      BY <1>4, <2>1, <3>2, Joined
    <3>4. JoinOf(payload, first, 8, rest, 2)
      BY <3>1, <3>3
    <3> QED
      BY <3>4 DEF JoinOf
  <2> HIDE DEF payload
  <2>3. payload[2] = first[2] /\ payload[8 + 1] = rest[1] /\ payload[8 + 2] = rest[2]
    BY <2>2
  <2>4. 8 + 1 = 9 /\ 8 + 2 = 10
    OBVIOUS
  <2> QED
    BY <1>4, <2>1, <2>2, <2>3, <2>4
<1> HIDE DEF payload
<1>6. /\ ParserRight(d) /\ HeaderOk(d) /\ Type(d) = Rumble
      /\ \A i \in 1..10 : d[20 + i] = payload[i]
      /\ Needed(d) <= 10 => ParseClientPacket(d) # Refused
  <2>1. FramedWell(d, Rumble, payload)
    <3>1. Rumble \in MsgTypes /\ Fits(payload)
      BY <1>5, TypesKnown DEF Fits
    <3>2. payload \in Seq(Byte)
      BY <1>5
    <3> QED
      BY <1>2, <3>1, <3>2, FromClientFacts
  <2> QED
    BY <1>5, <2>1 DEF FramedWell
<1>7. ParseClientPacket(d) # Refused
  <2>1. Needed(d) = 10
    BY <1>6, TypesDiffer DEF Needed
  <2> QED
    BY <1>6, <2>1
<1>8. ParseClientPacket(d) =
          [kind |-> "rumble", id |-> Id(d), motor |-> d[29], intensity |-> d[30]]
  BY <1>6, <1>7, TypesDiffer DEF ParseClientPacket
<1>9. d[22] = q.slot /\ d[29] = 0 /\ d[30] = q.to
  <2>1. 20 + 2 = 22 /\ 20 + 9 = 29 /\ 20 + 10 = 30
    OBVIOUS
  <2> QED
    BY <1>5, <1>6, <2>1
<1>10. Means(ParseClientPacket(d), q)
  BY <1>1, <1>8, <1>9 DEF Means, Id
<1> QED
  BY <1>6, <1>10

LEMMA PortsRead ==
    ASSUME ChecksumIsWord, NEW count \in PortCounts
    PROVE  LET d == FromClient(PortInfo, count \o AllSlots)
           IN  /\ ParserRight(d)
               /\ ParseClientPacket(d) = [kind |-> "ports", slots |-> AllSlots]
<1> DEFINE payload == count \o AllSlots
           d == FromClient(PortInfo, payload)
<1>1. /\ payload \in Seq(Byte) /\ Len(payload) = 8
      /\ payload[5] = 0 /\ payload[6] = 1 /\ payload[7] = 2 /\ payload[8] = 3
      /\ \/ payload[1] = 4 /\ payload[2] = 0 /\ payload[3] = 0 /\ payload[4] = 0
         \/ payload[1] = 5
         \/ payload[4] = 1
  <2>1. /\ count \in Seq(Byte) /\ Len(count) = 4
        /\ AllSlots \in Seq(Byte) /\ Len(AllSlots) = 4
    <3>1. 0 \in Byte /\ 1 \in Byte /\ 2 \in Byte /\ 3 \in Byte /\ 4 \in Byte
          /\ 5 \in Byte
      BY DEF Byte
    <3>2. AllSlots \in Seq(Byte) /\ Len(AllSlots) = 4
      BY <3>1 DEF AllSlots
    <3>3. count = <<4, 0, 0, 0>> \/ count = <<5, 0, 0, 0>> \/ count = <<0, 0, 0, 1>>
      BY DEF PortCounts
    <3>4. /\ <<4, 0, 0, 0>> \in Seq(Byte) /\ Len(<<4, 0, 0, 0>>) = 4
          /\ <<5, 0, 0, 0>> \in Seq(Byte) /\ Len(<<5, 0, 0, 0>>) = 4
          /\ <<0, 0, 0, 1>> \in Seq(Byte) /\ Len(<<0, 0, 0, 1>>) = 4
      BY <3>1
    <3> QED
      BY <3>2, <3>3, <3>4, Zenon
  <2>2. /\ payload \in Seq(Byte) /\ Len(payload) = 4 + 4
        /\ \A i \in 1..4 : payload[i] = count[i]
        /\ \A i \in 1..4 : payload[4 + i] = AllSlots[i]
    <3>1. 4 \in Nat
      OBVIOUS
    <3> HIDE DEF payload
    <3>2. payload = count \o AllSlots
      BY DEF payload
    <3>3. JoinOf(count \o AllSlots, count, 4, AllSlots, 4)
      BY <2>1, <3>1, Joined
    <3>4. JoinOf(payload, count, 4, AllSlots, 4)
      BY <3>2, <3>3
    <3> QED
      BY <3>4 DEF JoinOf
  <2> HIDE DEF payload
  <2>6. 4 + 1 = 5 /\ 4 + 2 = 6 /\ 4 + 3 = 7 /\ 4 + 4 = 8
    OBVIOUS
  <2>3. /\ payload[1] = count[1] /\ payload[2] = count[2]
        /\ payload[3] = count[3] /\ payload[4] = count[4]
        /\ payload[5] = AllSlots[1] /\ payload[6] = AllSlots[2]
        /\ payload[7] = AllSlots[3] /\ payload[8] = AllSlots[4]
    BY <2>2, <2>6
  <2>4. AllSlots[1] = 0 /\ AllSlots[2] = 1 /\ AllSlots[3] = 2 /\ AllSlots[4] = 3
    BY DEF AllSlots
  <2>5. \/ count[1] = 4 /\ count[2] = 0 /\ count[3] = 0 /\ count[4] = 0
        \/ count[1] = 5
        \/ count[4] = 1
    BY DEF PortCounts
  <2> QED
    BY <2>2, <2>3, <2>4, <2>5, <2>6
<1> HIDE DEF payload
<1>2. /\ ParserRight(d) /\ HeaderOk(d) /\ Type(d) = PortInfo
      /\ PayloadSize(d) = 8
      /\ \A i \in 1..8 : d[20 + i] = payload[i]
      /\ Needed(d) <= 8 => ParseClientPacket(d) # Refused
  <2>1. FramedWell(d, PortInfo, payload)
    <3>1. PortInfo \in MsgTypes /\ Fits(payload)
      BY <1>1, TypesKnown DEF Fits
    <3>2. payload \in Seq(Byte)
      BY <1>1
    <3> QED
      BY <3>1, <3>2, FromClientFacts
  <2> QED
    BY <1>1, <2>1 DEF FramedWell
<1> HIDE DEF d
<1>3. /\ d[21] = payload[1] /\ d[22] = payload[2] /\ d[23] = payload[3]
      /\ d[24] = payload[4] /\ d[25] = payload[5] /\ d[26] = payload[6]
      /\ d[27] = payload[7] /\ d[28] = payload[8]
  <2>1. /\ 20 + 1 = 21 /\ 20 + 2 = 22 /\ 20 + 3 = 23 /\ 20 + 4 = 24
        /\ 20 + 5 = 25 /\ 20 + 6 = 26 /\ 20 + 7 = 27 /\ 20 + 8 = 28
    OBVIOUS
  <2> QED
    BY <1>2, <2>1
<1>4. Count(d) = 4
  BY <1>1, <1>3 DEF Count
<1>5. ParseClientPacket(d) # Refused
  <2>1. Needed(d) = 8
    BY <1>2, <1>4, TypesDiffer DEF Needed
  <2> QED
    BY <1>2, <2>1
<1>6. Field(d, 24, 4) = AllSlots
  <2>1. AllSlots = [i \in 1..4 |-> AllSlots[i]]
    BY DEF AllSlots
  <2>2. /\ d[24 + 1] = AllSlots[1] /\ d[24 + 2] = AllSlots[2]
        /\ d[24 + 3] = AllSlots[3] /\ d[24 + 4] = AllSlots[4]
    BY <1>1, <1>3 DEF AllSlots
  <2>3. WordBehind(d, 24, AllSlots)
    BY <2>1, <2>2 DEF WordBehind
  <2> QED
    BY <2>3, FieldIsWord
<1>7. ParseClientPacket(d) = [kind |-> "ports", slots |-> Field(d, 24, Count(d))]
  BY <1>2, <1>5, TypesDiffer DEF ParseClientPacket
<1> QED
  BY <1>2, <1>4, <1>6, <1>7 DEF d, payload

LEMMA QueryRead ==
    ASSUME ChecksumIsWord, NEW q \in Queries, NEW d \in DatagramsOf(q)
    PROVE  Means(ParseClientPacket(d), q) /\ ParserRight(d)
<1>1. q.kind = "query"
  BY DEF Queries
<1>2. \/ d = FromClient(Version, <<>>)
      \/ d = FromClient(MotorInfo, Selector(0, 0, 0))
      \/ \E count \in PortCounts : d = FromClient(PortInfo, count \o AllSlots)
  BY <1>1 DEF DatagramsOf
<1>3. CASE d = FromClient(Version, <<>>)
  <2>1. PICK nothing : nothing = <<>>
    OBVIOUS
  <2>2. nothing \in Seq(Byte) /\ Len(nothing) = 0
    BY <2>1
  <2>3. d = FromClient(Version, nothing)
    BY <1>3, <2>1
  <2>4. ParserRight(d) /\ HeaderOk(d) /\ Type(d) = Version
    <3>1. FramedWell(d, Version, nothing)
      <4>1. Version \in MsgTypes /\ Fits(nothing)
        BY <2>2, TypesKnown DEF Fits
      <4>2. FramedWell(FromClient(Version, nothing), Version, nothing)
        <5>1. ASSUME NEW p \in Seq(Byte), Fits(p)
              PROVE  FramedWell(FromClient(Version, p), Version, p)
          BY <4>1, <5>1, FromClientFacts
        <5> QED
          BY <2>2, <4>1, <5>1, Zenon
      <4> QED
        BY <2>3, <4>2, Zenon
    <3> QED
      BY <3>1 DEF FramedWell
  <2>5. ParseClientPacket(d) = [kind |-> "version"]
    BY <2>4, TypesDiffer DEF ParseClientPacket
  <2> QED
    BY <1>1, <2>4, <2>5 DEF Means
<1>4. CASE d = FromClient(MotorInfo, Selector(0, 0, 0))
  <2>1. PICK selector : selector = Selector(0, 0, 0)
    OBVIOUS
  <2>2. selector \in Seq(Byte) /\ Len(selector) = 8
    <3>1. 0 \in Byte
      BY DEF Byte
    <3> QED
      BY <2>1, <3>1, SelectorBytes
  <2>3. d = FromClient(MotorInfo, selector)
    BY <1>4, <2>1
  <2>4. /\ ParserRight(d) /\ HeaderOk(d) /\ Type(d) = MotorInfo
        /\ Needed(d) <= 8 => ParseClientPacket(d) # Refused
    <3>1. MotorInfo \in MsgTypes /\ Fits(selector)
      BY <2>2, TypesKnown DEF Fits
    <3>2. FramedWell(FromClient(MotorInfo, selector), MotorInfo, selector)
      BY <2>2, <3>1, FromClientFacts
    <3>3. FramedWell(d, MotorInfo, selector)
      BY <2>3, <3>2, Zenon
    <3> QED
      BY <2>2, <3>3 DEF FramedWell
  <2>5. Needed(d) = 8
    BY <2>4, TypesDiffer DEF Needed
  <2>6. ParseClientPacket(d) = [kind |-> "motors", id |-> Id(d)]
    BY <2>4, <2>5, TypesDiffer DEF ParseClientPacket
  <2> QED
    BY <1>1, <2>4, <2>6 DEF Means
<1>5. ASSUME NEW count \in PortCounts, d = FromClient(PortInfo, count \o AllSlots)
      PROVE  Means(ParseClientPacket(d), q) /\ ParserRight(d)
  <2>1. /\ ParserRight(d)
        /\ ParseClientPacket(d) = [kind |-> "ports", slots |-> AllSlots]
    BY <1>5, PortsRead
  <2> QED
    BY <1>1, <2>1 DEF Means
<1> QED
  BY <1>2, <1>3, <1>4, <1>5

\* For every client, slot, MAC and intensity that fits a byte, and for every
\* checksum: what poll hands on for a datagram is what the client asked for;
\* cut short, made longer or damaged it is a request exactly if it still
\* holds one, and nothing beyond its end is read.
THEOREM RequestsSafe ==
    ASSUME ChecksumIsWord
    PROVE  Spec => []RequestsRead
<1>1. ASSUME NEW q \in Requests, NEW d \in DatagramsOf(q)
      PROVE  Means(ParseClientPacket(d), q) /\ ParserRight(d)
  BY DataRead, RumbleRead, QueryRead DEF Requests
<1>2. \A r \in Readings : r.right
  BY <1>1 DEF Readings
<1>3. RequestsRead
  BY <1>2 DEF RequestsRead
<1> QED
  BY <1>3, PTL
=============================================================================
