-------------------------- MODULE PyReceiver_proofs --------------------------
(***************************************************************************)
(* Theorems about PyReceiver, for any number of threads and any timers     *)
(* that meet the assumptions: the type invariant, that stop() never leaves *)
(* a thread behind, and that a thread that hears nothing ends in time.     *)
(***************************************************************************)
EXTENDS PyReceiver, TLAPS

LEMMA Bounds ==
    /\ IdleCap \in Nat
    /\ MaxBlock \in Nat
BY TimeAssumption DEF IdleCap, MaxBlock

\* A thread that has just been created, or that has ended
LEMMA FreshType ==
    ASSUME NEW at \in {"off", "top"}
    PROVE  Fresh(at) \in Loops
<1>1. /\ 0 \in 0..MaxBlock
      /\ 0 \in 0..IdleCap
      /\ 0 \in 0..KeepaliveInterval
  BY Bounds, TimeAssumption
<1> QED
  BY <1>1 DEF Fresh, Loops

\* What the helpers of receive_loop do to the threads
LEMMA PutFacts ==
    ASSUME loop \in [Threads -> Loops], NEW t \in Threads,
           NEW at \in {"top", "recv", "show"}, NEW rx \in 0..IdleCap,
           NEW keep \in 0..KeepaliveInterval, NEW input \in 0..IdleCap,
           Put(t, at, rx, keep, input)
    PROVE  /\ loop' \in [Threads -> Loops]
           /\ loop'[t].at = at
           /\ loop'[t].wait = 0
           /\ loop'[t].rx = rx
           /\ loop'[t].keep = keep
           /\ \A u \in Threads : u # t => loop'[u] = loop[u]
<1>1. [at |-> at, wait |-> 0, rx |-> rx, keep |-> keep, input |-> input]
        \in Loops
  <2>1. 0 \in 0..MaxBlock
    BY Bounds
  <2> QED
    BY <2>1 DEF Loops
<1> QED
  BY <1>1 DEF Put

LEMMA EndFacts ==
    ASSUME loop \in [Threads -> Loops], NEW t \in Threads, End(t)
    PROVE  /\ loop' \in [Threads -> Loops]
           /\ loop'[t].at = "off"
           /\ \A u \in Threads : u # t => loop'[u] = loop[u]
<1>1. Off \in Loops /\ Off.at = "off"
  BY FreshType DEF Off, Fresh
<1> QED
  BY <1>1 DEF End

LEMMA LoopFields ==
    ASSUME NEW l \in Loops
    PROVE  /\ l.at \in {"off", "top", "recv", "show"}
           /\ l.wait \in 0..MaxBlock
           /\ l.rx \in 0..IdleCap
           /\ l.keep \in 0..KeepaliveInterval
           /\ l.input \in 0..IdleCap
BY DEF Loops

\* A time unit keeps the place, and no age grows by more than one.
LEMMA LaterFacts ==
    ASSUME NEW l \in Loops, MayWait(l)
    PROVE  /\ Later(l) \in Loops
           /\ Later(l).at = l.at
           /\ l.at # "off" => /\ Later(l).wait = l.wait + 1
                              /\ Later(l).rx <= l.rx + 1
                              /\ Later(l).keep <= l.keep + 1
<1>1. CASE l.at = "off"
  BY <1>1 DEF Later
<1>2. CASE l.at # "off"
  <2>1. l.wait + 1 \in 0..MaxBlock
    BY <1>2, LoopFields, TimeAssumption DEF MayWait, MaxBlock
  <2>2. ASSUME NEW cap \in Nat, NEW n \in 0..cap
        PROVE  AtMost(cap, n + 1) \in 0..cap /\ AtMost(cap, n + 1) <= n + 1
    BY <2>2 DEF AtMost
  <2>3. /\ AtMost(IdleCap, l.rx + 1) \in 0..IdleCap
        /\ AtMost(IdleCap, l.rx + 1) <= l.rx + 1
        /\ AtMost(IdleCap, l.input + 1) \in 0..IdleCap
    BY <2>2, Bounds, LoopFields
  <2>4. /\ AtMost(KeepaliveInterval, l.keep + 1) \in 0..KeepaliveInterval
        /\ AtMost(KeepaliveInterval, l.keep + 1) <= l.keep + 1
    BY <2>2, TimeAssumption, LoopFields
  <2>5. Later(l) = [at |-> l.at, wait |-> l.wait + 1,
                    rx |-> AtMost(IdleCap, l.rx + 1),
                    keep |-> AtMost(KeepaliveInterval, l.keep + 1),
                    input |-> AtMost(IdleCap, l.input + 1)]
    BY <1>2 DEF Later
  <2>6. Later(l) \in Loops
    BY <2>1, <2>3, <2>4, <2>5, LoopFields DEF Loops
  <2> QED
    BY <2>3, <2>4, <2>5, <2>6
<1> QED
  BY <1>1, <1>2

-----------------------------------------------------------------------------
(* Types *)

LEMMA InitType == Init => TypeOK
<1> SUFFICES ASSUME Init PROVE TypeOK
  OBVIOUS
<1>1. loop \in [Threads -> Loops]
  BY FreshType DEF Init, Off
<1>2. 1 \in 1..HandshakeRetries /\ 0 \in 0..HandshakeTimeout + JoinTimeout
  BY TimeAssumption
<1> QED
  BY <1>1, <1>2 DEF Init, TypeOK

\* The steps of receive_loop in thread t either end it or put it somewhere.
LEMMA LoopCases ==
    ASSUME TypeOK, NEW t \in Threads, Loop(t)
    PROVE  /\ UNCHANGED callerVars
           /\ Live(t)
           /\ answer' \in {"none", "ack", "icmp"}
           /\ \/ End(t)
              \/ \E at \in {"top", "recv", "show"}, rx, input \in 0..IdleCap,
                    keep \in 0..KeepaliveInterval :
                    Put(t, at, rx, keep, input)
<1> USE DEF TypeOK, Live
<1>1. /\ loop[t].rx \in 0..IdleCap
      /\ loop[t].input \in 0..IdleCap
      /\ loop[t].keep \in 0..KeepaliveInterval
      /\ 0 \in 0..IdleCap
      /\ 0 \in 0..KeepaliveInterval
  BY LoopFields, Bounds, TimeAssumption
<1>2. CASE TopStopped(t)
  BY <1>2 DEF TopStopped
<1>3. CASE Top(t)
  BY <1>1, <1>3 DEF Top, GoTo
<1>4. CASE TopKeepalive(t)
  BY <1>1, <1>4 DEF TopKeepalive
<1>5. CASE TopSendFails(t)
  BY <1>5 DEF TopSendFails
<1>6. CASE RecvInput(t)
  BY <1>1, <1>6 DEF RecvInput
<1>7. CASE RecvAck(t)
  BY <1>1, <1>7 DEF RecvAck, Drop
<1>8. CASE RecvRefused(t)
  BY <1>1, <1>8 DEF RecvRefused, Drop
<1>9. CASE RecvError(t)
  BY <1>1, <1>9 DEF RecvError, GoTo
<1>10. CASE RecvTimeout(t)
  BY <1>1, <1>10 DEF RecvTimeout, GoTo
<1>11. CASE Shown(t)
  BY <1>1, <1>11 DEF Shown, GoTo
<1> QED
  BY <1>2, <1>3, <1>4, <1>5, <1>6, <1>7, <1>8, <1>9, <1>10, <1>11 DEF Loop

LEMMA NextType == TypeOK /\ [Next]_vars => TypeOK'
<1> SUFFICES ASSUME TypeOK, [Next]_vars
             PROVE  TypeOK'
  OBVIOUS
<1> USE DEF TypeOK
<1>0. 0 \in 0..HandshakeTimeout + JoinTimeout /\ 1 \in 1..HandshakeRetries
  BY TimeAssumption
<1>1. CASE StartBegin
  BY <1>0, <1>1 DEF StartBegin
<1>2. CASE HandshakeNext
  BY <1>0, <1>2, TimeAssumption DEF HandshakeNext
<1>3. CASE HandshakeError
  BY <1>0, <1>3 DEF HandshakeError
<1>4. CASE StopBegin
  BY <1>0, <1>4 DEF StopBegin
<1>5. CASE StopJoined
  BY <1>0, <1>5 DEF StopJoined
<1>6. ASSUME NEW t \in Threads, HandshakeAck(t)
      PROVE  TypeOK'
  BY <1>0, <1>6, FreshType DEF HandshakeAck
<1>7. ASSUME NEW t \in Threads, Loop(t)
      PROVE  TypeOK'
  <2>1. loop' \in [Threads -> Loops]
    BY <1>7, LoopCases, PutFacts, EndFacts
  <2> QED
    BY <1>7, <2>1, LoopCases DEF callerVars
<1>8. CASE Tick
  <2>1. \A t \in Threads : Later(loop[t]) \in Loops
    BY <1>8, LaterFacts DEF Tick
  <2>2. waited' \in 0..HandshakeTimeout + JoinTimeout
    BY <1>8, TimeAssumption DEF Tick, CallerMayWait
  <2> QED
    BY <1>8, <2>1, <2>2 DEF Tick
<1>9. CASE UNCHANGED vars
  BY <1>9 DEF vars, callerVars
<1> QED
  BY <1>1, <1>2, <1>3, <1>4, <1>5, <1>6, <1>7, <1>8, <1>9 DEF Next, Caller

\* Every variable has its type: a blocked thread is never blocked for longer
\* than its timeout, and an attempt is one of HANDSHAKE_RETRIES.
THEOREM TypeSafe == Spec => []TypeOK
BY InitType, NextType, PTL DEF Spec

-----------------------------------------------------------------------------
(* stop *)

\* A thread is never blocked beyond the timeout of the place it is at.
Timely ==
    \A t \in Threads :
        /\ loop[t].at = "recv" => loop[t].wait <= PollTimeout
        /\ loop[t].at = "show" => loop[t].wait <= ShowTime
        /\ loop[t].at = "top" => loop[t].wait = 0

\* While stop() waits, a thread has at most the rest of a poll and one packet
\* before it next sees the event.
Joining ==
    main = "join" =>
        /\ stop_event
        /\ threadloop \in Threads
        /\ LET l == loop[threadloop] IN
           /\ l.at = "recv" => waited <= l.wait
           /\ l.at = "show" => waited <= PollTimeout + l.wait
           /\ l.at = "top" => waited <= PollTimeout + ShowTime

\* The inductive invariant behind StopReaches
StopInv ==
    /\ TypeOK
    /\ StopReaches
    /\ main = "handshake" => \A t \in Threads : ~Live(t)
    /\ Timely
    /\ Joining

LEMMA InitStop == Init => StopInv
<1> SUFFICES ASSUME Init PROVE StopInv
  OBVIOUS
<1>1. \A t \in Threads : loop[t].at = "off"
  BY DEF Init, Off, Fresh
<1> QED
  BY <1>1, InitType DEF Init, StopInv, StopReaches, Timely, Joining, Live

\* The stop finds the thread ended when its join returns.
LEMMA JoinedDead ==
    ASSUME StopInv, StopJoined
    PROVE  \A t \in Threads : ~Live(t)
<1>1. ~Live(threadloop)
  <2> SUFFICES ASSUME Live(threadloop), waited >= JoinTimeout PROVE FALSE
    BY DEF StopJoined
  <2>1. threadloop \in Threads /\ waited \in Nat
    BY TimeAssumption DEF StopJoined, StopInv, Joining, TypeOK
  <2>2. loop[threadloop] \in Loops
    BY <2>1 DEF StopInv, TypeOK
  <2> DEFINE l == loop[threadloop]
  <2>3. /\ l.at \in {"top", "recv", "show"}
        /\ l.wait \in Nat
    BY <2>2, LoopFields, Bounds DEF Live
  <2>4. /\ l.at = "recv" => l.wait <= PollTimeout /\ waited <= l.wait
        /\ l.at = "show" => l.wait <= ShowTime /\ waited <= PollTimeout + l.wait
        /\ l.at = "top" => waited <= PollTimeout + ShowTime
    BY <2>1 DEF StopJoined, StopInv, Timely, Joining
  <2> HIDE DEF l
  <2> QED
    BY <2>1, <2>3, <2>4, TimeAssumption, JoinAssumption
<1> QED
  BY <1>1 DEF StopInv, StopReaches

LEMMA CallerStop ==
    ASSUME StopInv, Caller
    PROVE  StopReaches' /\ Timely' /\ Joining'
           /\ (main' = "handshake" => \A t \in Threads : ~Live(t)')
<1> USE DEF StopInv, TypeOK, StopReaches, Timely, Joining, Live
<1>1. CASE StartBegin
  BY <1>1 DEF StartBegin, PortFree
<1>2. CASE HandshakeNext
  BY <1>2 DEF HandshakeNext
<1>3. CASE HandshakeError
  BY <1>3 DEF HandshakeError
<1>4. CASE StopBegin
  <2>1. threadloop \in Threads /\ loop[threadloop] \in Loops
    BY <1>4 DEF StopBegin
  <2>2. /\ stop_event' /\ waited' = 0
        /\ UNCHANGED <<threadloop, loop>>
    BY <1>4 DEF StopBegin
  <2>3. /\ 0 <= loop[threadloop].wait
        /\ 0 <= PollTimeout + loop[threadloop].wait
        /\ 0 <= PollTimeout + ShowTime
    <3>1. loop[threadloop].wait \in Nat
      BY <2>1, LoopFields, Bounds
    <3> QED
      BY <3>1, TimeAssumption
  <2>4. Joining'
    BY <2>1, <2>2, <2>3
  <2> QED
    BY <1>4, <2>4 DEF StopBegin
<1>5. CASE StopJoined
  BY <1>5, JoinedDead DEF StopJoined
<1> QED
  BY <1>1, <1>2, <1>3, <1>4, <1>5 DEF Caller

\* Where thread t may be put, as far as stop() is concerned
LEMMA LoopPlaces ==
    ASSUME StopInv, NEW t \in Threads, Loop(t)
    PROVE  /\ loop[t].at = "top" /\ main = "join" => loop'[t].at = "off"
           /\ loop'[t].at # "off" => loop'[t].wait = 0
           /\ loop'[t].at = "recv" => loop[t].at = "top"
           /\ loop'[t].at = "show" => loop[t].at = "recv"
<1> USE DEF StopInv, TypeOK
<1>1. /\ loop[t].rx \in 0..IdleCap
      /\ loop[t].input \in 0..IdleCap
      /\ loop[t].keep \in 0..KeepaliveInterval
      /\ 0 \in 0..IdleCap
      /\ 0 \in 0..KeepaliveInterval
  BY LoopFields, Bounds, TimeAssumption
<1>2. CASE TopStopped(t)
  BY <1>2, EndFacts DEF TopStopped
<1>3. CASE Top(t)
  BY <1>1, <1>3, PutFacts DEF Top, GoTo, Joining
<1>4. CASE TopKeepalive(t)
  BY <1>1, <1>4, PutFacts DEF TopKeepalive, Joining
<1>5. CASE TopSendFails(t)
  BY <1>5, EndFacts DEF TopSendFails
<1>6. CASE RecvInput(t)
  BY <1>1, <1>6, PutFacts DEF RecvInput
<1>7. CASE RecvAck(t) \/ RecvRefused(t)
  BY <1>1, <1>7, PutFacts DEF RecvAck, RecvRefused, Drop
<1>8. CASE RecvError(t)
  BY <1>1, <1>8, PutFacts DEF RecvError, GoTo
<1>9. CASE RecvTimeout(t)
  BY <1>1, <1>9, PutFacts, EndFacts DEF RecvTimeout, GoTo
<1>10. CASE Shown(t)
  BY <1>1, <1>10, PutFacts DEF Shown, GoTo
<1> QED
  BY <1>2, <1>3, <1>4, <1>5, <1>6, <1>7, <1>8, <1>9, <1>10 DEF Loop

LEMMA LoopStop ==
    ASSUME StopInv, NEW t \in Threads, Loop(t)
    PROVE  StopReaches' /\ Timely' /\ Joining'
           /\ (main' = "handshake" => \A u \in Threads : ~Live(u)')
<1>1. /\ UNCHANGED <<main, waited, threadloop, stop_event>>
      /\ Live(t)
      /\ \A u \in Threads : u # t => loop'[u] = loop[u]
  BY LoopCases, PutFacts, EndFacts DEF StopInv, TypeOK, callerVars
<1>2. StopReaches'
  BY <1>1 DEF StopInv, StopReaches, Live
<1>3. Timely'
  BY <1>1, LoopPlaces, TimeAssumption DEF StopInv, Timely
<1>4. main # "handshake"
  BY <1>1 DEF StopInv
<1>5. Joining'
  <2> SUFFICES ASSUME main = "join" PROVE Joining'
    BY <1>1 DEF Joining
  <2>1. threadloop = t /\ stop_event
    BY <1>1 DEF StopInv, StopReaches, Joining
  <2>2. /\ loop[t].wait \in Nat /\ loop'[t].wait \in Nat
        /\ waited \in Nat
    <3>1. loop[t] \in Loops /\ loop'[t] \in Loops
      BY NextType DEF StopInv, TypeOK, Next
    <3> QED
      BY <3>1, LoopFields, Bounds, TimeAssumption DEF StopInv, TypeOK
  <2>3. /\ loop[t].at = "recv" =>
              loop[t].wait <= PollTimeout /\ waited <= loop[t].wait
        /\ loop[t].at = "show" =>
              loop[t].wait <= ShowTime /\ waited <= PollTimeout + loop[t].wait
        /\ loop[t].at \in {"top", "recv", "show"}
    BY <1>1, <2>1, LoopFields DEF StopInv, TypeOK, Timely, Joining, Live
  <2>4. /\ loop'[t].at # "recv"
        /\ loop'[t].at = "show" => waited <= PollTimeout + loop'[t].wait
        /\ loop'[t].at = "top" => waited <= PollTimeout + ShowTime
    BY <2>2, <2>3, LoopPlaces, TimeAssumption
  <2> QED
    BY <1>1, <2>1, <2>4 DEF Joining
<1> QED
  BY <1>1, <1>2, <1>3, <1>4, <1>5

LEMMA TickStop ==
    ASSUME StopInv, Tick
    PROVE  StopReaches' /\ Timely' /\ Joining'
           /\ (main' = "handshake" => \A u \in Threads : ~Live(u)')
<1>1. ASSUME NEW t \in Threads
      PROVE  /\ loop'[t].at = loop[t].at
             /\ loop[t].at # "off" => loop'[t].wait = loop[t].wait + 1
             /\ loop[t].wait \in Nat
             /\ MayWait(loop[t])
  BY LaterFacts, LoopFields, Bounds DEF StopInv, TypeOK, Tick
<1>2. StopReaches' /\ (main' = "handshake" => \A u \in Threads : ~Live(u)')
  BY <1>1 DEF StopInv, StopReaches, Live, Tick
<1>3. Timely'
  BY <1>1, TimeAssumption DEF StopInv, Timely, MayWait
<1>4. Joining'
  <2> SUFFICES ASSUME main = "join" PROVE Joining'
    BY DEF Joining, Tick
  <2>1. threadloop \in Threads /\ waited \in Nat /\ waited' = waited + 1
    BY TimeAssumption DEF StopInv, TypeOK, Joining, Tick
  <2>2. UNCHANGED <<main, threadloop, stop_event>>
    BY DEF Tick
  <2> QED
    BY <1>1, <2>1, <2>2, TimeAssumption DEF StopInv, Joining, MayWait
<1> QED
  BY <1>2, <1>3, <1>4

LEMMA NextStop == StopInv /\ [Next]_vars => StopInv'
<1> SUFFICES ASSUME StopInv, [Next]_vars
             PROVE  StopInv'
  OBVIOUS
<1>1. TypeOK'
  BY NextType DEF StopInv
<1>2. ASSUME NEW t \in Threads, HandshakeAck(t)
      PROVE  StopReaches' /\ Timely' /\ Joining' /\ main' = "idle"
  <2>1. /\ \A u \in Threads : u # t => ~Live(u) /\ loop'[u] = loop[u]
        /\ loop'[t].at = "top" /\ loop'[t].wait = 0
    BY <1>2 DEF HandshakeAck, StopInv, TypeOK, Fresh
  <2> QED
    BY <1>2, <2>1 DEF HandshakeAck, StopInv, StopReaches, Timely, Joining, Live
<1>3. CASE UNCHANGED vars
  BY <1>3 DEF vars, callerVars, StopInv, TypeOK, StopReaches, Timely, Joining, Live
<1> QED
  BY <1>1, <1>2, <1>3, CallerStop, LoopStop, TickStop DEF Next, StopInv

\* However long the polls and the displaying take, within the assumptions,
\* stop() returns only when its thread has ended, so the event is never
\* cleared under a thread that has not seen it.
THEOREM StopSafe == Spec => []StopReaches
<1>1. StopInv => StopReaches
  BY DEF StopInv
<1> QED
  BY <1>1, InitStop, NextStop, PTL DEF Spec

-----------------------------------------------------------------------------
(* Silence *)

\* How the silence of a thread may have grown since the idle time was last
\* looked at: by the poll it is in (Looked); by a poll that ended in an error
\* before that, with no keepalive sent since (Once) or with one sent whose
\* error the present poll may meet (Sent); and by two such polls (Twice), after
\* which no keepalive is due before a poll times out.
Looked(l) == l.rx <= AutoTerminate + l.wait
Once(l) == answer # "icmp" /\ l.rx <= AutoTerminate + PollTimeout + l.wait
Sent(l) ==
    /\ l.at = "recv"
    /\ l.keep <= l.wait
    /\ l.rx <= AutoTerminate + PollTimeout + l.wait
Twice(l) ==
    /\ answer # "icmp"
    /\ l.keep <= PollTimeout + l.wait
    /\ l.rx <= AutoTerminate + 2 * PollTimeout + l.wait

Silence(l) ==
    /\ Looked(l) \/ Once(l) \/ Sent(l) \/ Twice(l)
    /\ l.at = "show" => l.rx <= l.wait

\* The inductive invariant behind SilenceEnds: one thread at most reads the
\* socket, so that no other thread's keepalives are answered on it.
SilenceInv ==
    /\ StopInv
    /\ \A t \in Threads : Live(t) => Silence(loop[t])

LEMMA SilenceBounded == SilenceInv => SilenceEnds
<1> SUFFICES ASSUME SilenceInv, NEW t \in Threads, Live(t)
             PROVE  loop[t].rx <= AutoTerminate + 3 * PollTimeout
  BY DEF SilenceEnds
<1>1. /\ loop[t].at \in {"top", "recv", "show"}
      /\ loop[t].rx \in Nat /\ loop[t].wait \in Nat
  BY LoopFields, Bounds DEF SilenceInv, StopInv, TypeOK, Live
<1>2. /\ loop[t].at = "recv" => loop[t].wait <= PollTimeout
      /\ loop[t].at = "show" => loop[t].wait <= ShowTime
      /\ loop[t].at = "top" => loop[t].wait = 0
  BY DEF SilenceInv, StopInv, Timely
<1>3. Silence(loop[t])
  BY DEF SilenceInv
<1> QED
  BY <1>1, <1>2, <1>3, TimeAssumption, ShowAssumption
  DEF Silence, Looked, Once, Sent, Twice

\* A step of the receiving thread keeps its silence within the stages.
LEMMA LoopSilence ==
    ASSUME SilenceInv, NEW t \in Threads, Loop(t), Live(t)'
    PROVE  Silence(loop[t])'
<1> USE DEF SilenceInv, StopInv, TypeOK
<1>1. /\ loop[t].rx \in 0..IdleCap
      /\ loop[t].input \in 0..IdleCap
      /\ loop[t].keep \in 0..KeepaliveInterval
      /\ 0 \in 0..IdleCap
      /\ 0 \in 0..KeepaliveInterval
      /\ loop[t].rx \in Nat
      /\ loop[t].keep \in Nat
      /\ loop[t].wait \in Nat
  BY LoopFields, Bounds, TimeAssumption
<1>2. /\ loop[t].at = "recv" => loop[t].wait <= PollTimeout
      /\ loop[t].at = "show" => loop[t].wait <= ShowTime
      /\ loop[t].at = "top" => loop[t].wait = 0
  BY DEF Timely
<1>3. Silence(loop[t])
  BY LoopCases
<1> DEFINE Here(at, rx, keep) ==
      /\ loop'[t].at = at
      /\ loop'[t].wait = 0
      /\ loop'[t].rx = rx
      /\ loop'[t].keep = keep
<1>4. CASE Top(t)
  <2>1. Here("recv", loop[t].rx, loop[t].keep) /\ UNCHANGED answer
    BY <1>1, <1>4, PutFacts DEF Top, GoTo
  <2>2. loop[t].at = "top"
    BY <1>4 DEF Top
  <2> QED
    BY <1>1, <1>2, <1>3, <2>1, <2>2, TimeAssumption
    DEF Silence, Looked, Once, Sent, Twice
<1>5. CASE TopKeepalive(t)
  <2>1. Here("recv", loop[t].rx, 0)
    BY <1>1, <1>5, PutFacts DEF TopKeepalive
  <2>2. loop[t].at = "top" /\ loop[t].keep >= KeepaliveInterval
    BY <1>5 DEF TopKeepalive, KeepaliveDue
  <2>3. ~Twice(loop[t]) /\ ~Sent(loop[t])
    BY <1>1, <1>2, <2>2, TimeAssumption, KeepaliveAssumption DEF Twice, Sent
  <2> QED
    BY <1>1, <1>2, <1>3, <2>1, <2>2, <2>3, TimeAssumption
    DEF Silence, Looked, Once, Sent
<1>6. CASE RecvInput(t)
  <2>1. Here("show", 0, loop[t].keep)
    BY <1>1, <1>6, PutFacts DEF RecvInput
  <2> QED
    BY <2>1, TimeAssumption DEF Silence, Looked
<1>7. CASE RecvAck(t) \/ RecvRefused(t)
  <2>1. Here("top", 0, loop[t].keep)
    BY <1>1, <1>7, PutFacts DEF RecvAck, RecvRefused, Drop
  <2> QED
    BY <2>1, TimeAssumption DEF Silence, Looked
<1>8. CASE RecvError(t)
  <2>1. Here("top", loop[t].rx, loop[t].keep) /\ answer' = "none"
    BY <1>1, <1>8, PutFacts DEF RecvError, GoTo
  <2>2. loop[t].at = "recv" /\ answer = "icmp"
    BY <1>8 DEF RecvError
  <2>3. Looked(loop[t]) \/ Sent(loop[t])
    BY <1>3, <2>2 DEF Silence, Once, Twice
  <2>4. CASE Looked(loop[t])
    BY <1>1, <1>2, <2>1, <2>2, <2>4, TimeAssumption DEF Silence, Looked, Once
  <2>5. CASE Sent(loop[t])
    BY <1>1, <1>2, <2>1, <2>2, <2>5, TimeAssumption DEF Silence, Sent, Twice
  <2> QED
    BY <2>3, <2>4, <2>5
<1>9. CASE RecvTimeout(t)
  <2>1. loop[t].rx < AutoTerminate
    BY <1>1, <1>9, EndFacts, TimeAssumption DEF RecvTimeout, Live
  <2>2. Here("top", loop[t].rx, loop[t].keep)
    BY <1>1, <1>9, <2>1, PutFacts, TimeAssumption DEF RecvTimeout, GoTo
  <2> QED
    BY <1>1, <2>1, <2>2, TimeAssumption DEF Silence, Looked
<1>10. CASE Shown(t)
  <2>1. Here("top", loop[t].rx, loop[t].keep)
    BY <1>1, <1>10, PutFacts DEF Shown, GoTo
  <2>2. loop[t].rx <= ShowTime
    BY <1>1, <1>2, <1>3, <1>10, TimeAssumption DEF Shown, Silence
  <2> QED
    BY <1>1, <2>1, <2>2, TimeAssumption, ShowAssumption DEF Silence, Looked
<1>11. ~TopStopped(t) /\ ~TopSendFails(t)
  BY EndFacts DEF TopStopped, TopSendFails, Live
<1> QED
  BY <1>4, <1>5, <1>6, <1>7, <1>8, <1>9, <1>10, <1>11 DEF Loop

LEMMA TickSilence ==
    ASSUME SilenceInv, Tick, NEW t \in Threads, Live(t)'
    PROVE  Silence(loop[t])'
<1>1. /\ loop'[t].at = loop[t].at
      /\ loop[t].at # "off"
      /\ loop'[t].wait = loop[t].wait + 1
      /\ loop'[t].rx <= loop[t].rx + 1
      /\ loop'[t].keep <= loop[t].keep + 1
      /\ answer' = answer
  BY LaterFacts DEF SilenceInv, StopInv, TypeOK, Tick, Live
<1>2. loop[t] \in Loops /\ loop'[t] \in Loops
  BY NextType DEF SilenceInv, StopInv, TypeOK, Next
<1>3. /\ loop[t].rx \in Nat /\ loop'[t].rx \in Nat
      /\ loop[t].keep \in Nat /\ loop'[t].keep \in Nat
      /\ loop[t].wait \in Nat
  BY <1>2, LoopFields, Bounds, TimeAssumption
<1>4. Silence(loop[t])
  BY <1>1 DEF SilenceInv, Live
<1> QED
  BY <1>1, <1>3, <1>4, TimeAssumption
  DEF Silence, Looked, Once, Sent, Twice

LEMMA InitSilence == Init => SilenceInv
BY InitStop DEF Init, SilenceInv, Off, Fresh, Live

LEMMA NextSilence == SilenceInv /\ [Next]_vars => SilenceInv'
<1> SUFFICES ASSUME SilenceInv, [Next]_vars, NEW t \in Threads, Live(t)'
             PROVE  Silence(loop[t])'
  BY NextStop DEF SilenceInv
<1>1. CASE Caller
  <2>1. UNCHANGED <<loop, answer>>
    BY <1>1 DEF Caller, StartBegin, HandshakeNext, HandshakeError, StopBegin,
                StopJoined
  <2> QED
    BY <2>1 DEF SilenceInv, Live, Silence, Looked, Once, Sent, Twice
<1>2. ASSUME NEW u \in Threads, HandshakeAck(u)
      PROVE  Silence(loop[t])'
  <2>1. t = u
    BY <1>2 DEF HandshakeAck, SilenceInv, StopInv, TypeOK, Live
  <2>2. /\ loop'[t].at = "top" /\ loop'[t].wait = 0 /\ loop'[t].rx = 0
    BY <1>2, <2>1 DEF HandshakeAck, SilenceInv, StopInv, TypeOK, Fresh
  <2> QED
    BY <2>2, TimeAssumption DEF Silence, Looked
<1>3. ASSUME NEW u \in Threads, Loop(u)
      PROVE  Silence(loop[t])'
  <2>1. t = u
    BY <1>3, LoopCases, NextStop
    DEF SilenceInv, StopInv, StopReaches, Live, callerVars, Next
  <2> QED
    BY <1>3, <2>1, LoopSilence
<1>4. CASE Tick
  BY <1>4, TickSilence
<1>5. CASE UNCHANGED vars
  BY <1>5 DEF vars, SilenceInv, Live, Silence, Looked, Once, Sent, Twice
<1> QED
  BY <1>1, <1>2, <1>3, <1>4, <1>5 DEF Next

\* A thread that hears nothing has ended AUTO_TERMINATE_S and three polls
\* later: the error of a keepalive can hide the idle time from it for two
\* polls in a row and no more.
THEOREM SilenceSafe == Spec => []SilenceEnds
BY InitSilence, NextSilence, SilenceBounded, PTL DEF Spec
=============================================================================
