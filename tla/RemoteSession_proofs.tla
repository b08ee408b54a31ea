------------------------ MODULE RemoteSession_proofs ------------------------
(***************************************************************************)
(* Proofs about RemoteSession for every set of hosts and every value of    *)
(* the timers that its assumptions allow.                                  *)
(***************************************************************************)
EXTENDS RemoteSession, TLAPS

\* Every constant is the number it should be.
LEMMA ConstantTypes ==
    /\ MaxDelay \in Nat /\ HelloTimeout \in Nat /\ MaxLoss \in Nat
    /\ HandshakeTimeout \in Nat /\ HandshakeRetries \in Nat
    /\ PollTimeout \in Nat /\ AutoTerminate \in Nat
    /\ KeepaliveInterval \in Nat
    /\ HandshakeTimeout > 0 /\ HandshakeRetries > 0
    /\ PollTimeout > 0 /\ KeepaliveInterval > 0
BY MaxDelayAssumption, HelloTimeoutAssumption, MaxLossAssumption,
   ReceiverAssumption

\* A counter that stops at its cap stays between 0 and the cap.
LEMMA AtMostType ==
    ASSUME NEW cap \in Nat, NEW n \in Nat
    PROVE  AtMost(cap, n) \in 0..cap
BY DEF AtMost

\* What the wire holds after one unit, one datagram less or one more.
LEMMA AgedType ==
    ASSUME net \subseteq Datagrams, \A d \in net : d.age < MaxDelay
    PROVE  Aged \subseteq Datagrams
<1>1. SUFFICES ASSUME NEW d \in net
               PROVE  [d EXCEPT !.age = @ + 1] \in Datagrams
      BY DEF Aged
<1>2. d \in Datagrams /\ d.age < MaxDelay
      OBVIOUS
<1>3. QED BY <1>2, ConstantTypes DEF Datagrams

LEMMA DatagramType ==
    ASSUME NEW kind \in Kinds, NEW h \in Hosts
    PROVE  Datagram(kind, h) \in Datagrams
BY ConstantTypes DEF Datagram, Datagrams

-----------------------------------------------------------------------------
\* The type of the waits: a thread is never in a recvfrom longer than its
\* timeout, so the caps on nowAge and keepAge are never in the way.
WaitOK ==
    \A h \in Hosts :
        /\ phase[h] = "await" => nowAge[h] <= HandshakeTimeout
        /\ phase[h] = "poll" =>
              /\ nowAge[h] <= PollTimeout
              /\ keepAge[h] <= KeepaliveInterval + nowAge[h]
        /\ phase[h] \notin {"await", "poll"} => nowAge[h] = 0

\* An attempt is left whenever a HELLO of the handshake is due.
AttemptOK ==
    \A h \in Hosts :
        /\ phase[h] = "greet" => attempt[h] < HandshakeRetries
        /\ phase[h] = "off" => attempt[h] = 0

\* A stream has an addressee.
TargetOK == g_state = "STREAMING" => g_pcAddr \in greeted

TypeInv == TypeOK /\ WaitOK /\ AttemptOK /\ TargetOK

LEMMA TypeInit == Init => TypeInv
<1> SUFFICES ASSUME Init PROVE TypeInv
    OBVIOUS
<1> USE ConstantTypes
<1>1. WireTypeOK /\ ConsoleTypeOK
  <2>1. HelloCap \in 0..HelloCap
        BY DEF HelloCap
  <2>2. QED BY <2>1
           DEF Init, ConsoleInit, WireTypeOK, ConsoleTypeOK, AppState
<1>2. HostTypeOK
      BY DEF Init, HostInit, HostTypeOK, Phase, NowCap, KeepCap, RxCap
<1>3. Window \in Nat
      BY DEF Window, Period
<1>4. /\ lost \in [Hosts -> 0..MaxLoss]
      /\ upAge \in [Hosts -> 0..UpCap]
      /\ sentAge \in [Hosts -> 0..SentCap]
      /\ silent \in [Hosts -> 0..IdleEnd]
      BY <1>3, ConstantTypes DEF Init, UpCap, SentCap, IdleEnd
<1>5. WaitOK /\ AttemptOK /\ TargetOK
      BY DEF Init, HostInit, ConsoleInit, WaitOK, AttemptOK, TargetOK
<1>6. QED BY <1>1, <1>2, <1>4, <1>5 DEF TypeInv, TypeOK

\* A frame of the console.
LEMMA TypeConsole ==
    ASSUME TypeInv,
           UNCHANGED <<hostVars, upAge, sentAge, silent>>,
           \/ /\ TickNoHello \/ ConsoleRelaunch
              /\ UNCHANGED lost
           \/ \E d \in net : TickHello(d) /\ lost' = [lost EXCEPT ![d.host] = 0]
    PROVE  TypeInv'
<1> USE ConstantTypes
<1>1. WireTypeOK' /\ ConsoleTypeOK' /\ TargetOK' /\ lost' \in [Hosts -> 0..MaxLoss]
  <2>1. CASE TickWaiting /\ UNCHANGED lost
        BY <2>1 DEF TickWaiting, TypeInv, TypeOK, WireTypeOK, ConsoleTypeOK,
           TargetOK
  <2>2. CASE TickBind /\ UNCHANGED lost
        BY <2>2 DEF TickBind, TypeInv, TypeOK, WireTypeOK, ConsoleTypeOK,
           TargetOK, AppState
  <2>3. CASE TickListenIdle /\ UNCHANGED lost
        BY <2>3 DEF TickListenIdle, TypeInv, TypeOK, WireTypeOK,
           ConsoleTypeOK, TargetOK
  <2>4. CASE TickStreamInput /\ UNCHANGED lost
    <3>1. Datagram("INPUT", g_pcAddr) \in Datagrams
          BY <2>4, DatagramType
          DEF TickStreamInput, TypeInv, TypeOK, ConsoleTypeOK, TargetOK, Kinds
    <3>2. QED BY <2>4, <3>1 DEF TickStreamInput, TypeInv, TypeOK, WireTypeOK,
             ConsoleTypeOK, TargetOK
  <2>5. CASE TickStreamExpire /\ UNCHANGED lost
        BY <2>5 DEF TickStreamExpire, TypeInv, TypeOK, WireTypeOK,
           ConsoleTypeOK, TargetOK, AppState
  <2>6. CASE ConsoleRelaunch /\ UNCHANGED lost
    <3>1. HelloCap \in 0..HelloCap
          BY DEF HelloCap
    <3>2. QED BY <2>6, <3>1 DEF ConsoleRelaunch, TypeInv, TypeOK, WireTypeOK,
             ConsoleTypeOK, TargetOK, AppState
  <2>7. ASSUME NEW d \in net, TickHello(d),
               lost' = [lost EXCEPT ![d.host] = 0]
        PROVE  /\ WireTypeOK' /\ ConsoleTypeOK' /\ TargetOK'
               /\ lost' \in [Hosts -> 0..MaxLoss]
    <3>1. d.host \in Hosts
          BY DEF TypeInv, TypeOK, WireTypeOK, Datagrams
    <3>2. /\ Datagram("ACK", d.host) \in Datagrams
          /\ Datagram("INPUT", d.host) \in Datagrams
          BY <3>1, DatagramType DEF Kinds
    <3>3. TakeHello(d) /\ g_state' = "STREAMING"
          BY <2>7 DEF TickHello, TickListenHello, TickStreamHello
    <3>4. WireTypeOK'
          BY <2>7, <3>2 DEF TickHello, TickListenHello, TickStreamHello,
             Without, TypeInv, TypeOK, WireTypeOK
    <3>5. ConsoleTypeOK' /\ TargetOK'
          BY <3>1, <3>3 DEF TakeHello, TypeInv, TypeOK, ConsoleTypeOK,
             TargetOK, AppState, HelloCap
    <3>6. lost' \in [Hosts -> 0..MaxLoss]
          BY <2>7, <3>1 DEF TypeInv, TypeOK
    <3>7. QED BY <3>4, <3>5, <3>6
  <2>8. QED BY <2>1, <2>2, <2>3, <2>4, <2>5, <2>6, <2>7 DEF TickNoHello
<1>2. HostTypeOK' /\ WaitOK' /\ AttemptOK'
      BY DEF hostVars, TypeInv, TypeOK, HostTypeOK, WaitOK, AttemptOK
<1>3. /\ (upAge \in [Hosts -> 0..UpCap])' /\ (sentAge \in [Hosts -> 0..SentCap])'
      /\ (silent \in [Hosts -> 0..IdleEnd])'
      BY DEF TypeInv, TypeOK
<1>4. QED BY <1>1, <1>2, <1>3 DEF TypeInv, TypeOK

\* What entering a phase does to the clocks of the waits.
LEMMA GotoType ==
    ASSUME HostTypeOK, NEW h \in Hosts, NEW p \in Phase, Goto(h, p)
    PROVE  /\ phase' \in [Hosts -> Phase]
           /\ nowAge' \in [Hosts -> 0..NowCap]
           /\ phase'[h] = p /\ nowAge'[h] = 0
           /\ \A g \in Hosts \ {h} :
                 phase'[g] = phase[g] /\ nowAge'[g] = nowAge[g]
<1>1. 0 \in 0..NowCap
      BY ConstantTypes DEF NowCap
<1>2. QED BY <1>1 DEF Goto, HostTypeOK

LEMMA LeaveType ==
    ASSUME HostTypeOK, NEW h \in Hosts, Leave(h)
    PROVE  /\ Goto(h, "off")
           /\ attempt' \in [Hosts -> 0..HandshakeRetries]
           /\ keepAge' \in [Hosts -> 0..KeepCap]
           /\ rxAge' \in [Hosts -> 0..RxCap]
           /\ attempt'[h] = 0
           /\ \A g \in Hosts \ {h} :
                 attempt'[g] = attempt[g] /\ keepAge'[g] = keepAge[g]
<1>1. 0 \in 0..HandshakeRetries /\ 0 \in 0..KeepCap /\ 0 \in 0..RxCap
      BY ConstantTypes DEF KeepCap, RxCap
<1>2. QED BY <1>1 DEF Leave, HostTypeOK

\* A step of one host keeps the types of all: enough to look at the phase it
\* enters and at its own timers.
LEMMA TypeHost ==
    ASSUME TypeInv, NEW h \in Hosts, NEW p \in Phase, NEW sends \in BOOLEAN,
           Goto(h, p), Track(h, sends),
           WireTypeOK',
           attempt' \in [Hosts -> 0..HandshakeRetries],
           keepAge' \in [Hosts -> 0..KeepCap],
           rxAge' \in [Hosts -> 0..RxCap],
           silent' \in [Hosts -> 0..IdleEnd],
           \A g \in Hosts \ {h} :
               attempt'[g] = attempt[g] /\ keepAge'[g] = keepAge[g],
           p = "greet" => attempt'[h] < HandshakeRetries,
           p = "off" => attempt'[h] = 0,
           p = "poll" => keepAge'[h] <= KeepaliveInterval
    PROVE  TypeInv'
<1> USE ConstantTypes
<1>1. HostTypeOK
      BY DEF TypeInv, TypeOK
<1>2. HostTypeOK'
      BY <1>1, GotoType DEF HostTypeOK
<1>3. WaitOK' /\ AttemptOK'
  <2> SUFFICES ASSUME NEW g \in Hosts
               PROVE  /\ phase'[g] = "await" => nowAge'[g] <= HandshakeTimeout
                      /\ phase'[g] = "poll" =>
                            /\ nowAge'[g] <= PollTimeout
                            /\ keepAge'[g] <= KeepaliveInterval + nowAge'[g]
                      /\ phase'[g] \notin {"await", "poll"} => nowAge'[g] = 0
                      /\ phase'[g] = "greet" => attempt'[g] < HandshakeRetries
                      /\ phase'[g] = "off" => attempt'[g] = 0
      BY DEF WaitOK, AttemptOK
  <2>1. CASE g = h
        BY <1>1, <2>1, GotoType DEF HostTypeOK
  <2>2. CASE g # h
        BY <1>1, <2>2, GotoType DEF TypeInv, WaitOK, AttemptOK
  <2>3. QED BY <2>1, <2>2
<1>4. /\ lost' \in [Hosts -> 0..MaxLoss]
      /\ upAge' \in [Hosts -> 0..UpCap]
      /\ sentAge' \in [Hosts -> 0..SentCap]
  <2>1. 0 \in 0..MaxLoss /\ 0 \in 0..UpCap /\ 0 \in 0..SentCap
        BY DEF UpCap, SentCap, Window, Period
  <2>2. QED BY <2>1 DEF Track, TypeInv, TypeOK
<1>5. ConsoleTypeOK' /\ TargetOK'
      BY DEF Track, consoleVars, TypeInv, TypeOK, ConsoleTypeOK, TargetOK
<1>6. QED BY <1>2, <1>3, <1>4, <1>5 DEF TypeInv, TypeOK

\* What a host takes from the wire, or puts on it, leaves datagrams on it.
LEMMA WireKeeps ==
    ASSUME WireTypeOK, NEW h \in Hosts,
           \/ UNCHANGED net
           \/ net' = net \cup {Datagram("HELLO", h)}
           \/ \E d \in net : net' \in Without(d)
    PROVE  WireTypeOK'
<1>1. Datagram("HELLO", h) \in Datagrams
      BY DatagramType DEF Kinds
<1>2. QED BY <1>1 DEF WireTypeOK, Without

\* One step of a host.
HostStep(h) ==
    \/ HostStart(h)
    \/ HostGreet(h)
    \/ HostAwaitTimeout(h)
    \/ HostTop(h)
    \/ HostPollQuiet(h)
    \/ HostRefuse(h)
    \/ HostKill(h)
    \/ \E d \in net : HostTake(h, d)

LEMMA SilentType ==
    ASSUME TypeInv, NEW h \in Hosts, HostStep(h)
    PROVE  /\ silent' \in [Hosts -> 0..IdleEnd]
           /\ \E t \in 0..IdleEnd : silent' = [silent EXCEPT ![h] = t]
<1>1. /\ 0 \in 0..IdleEnd /\ silent \in [Hosts -> 0..IdleEnd]
      /\ AtMost(AutoTerminate, silent[h]) \in 0..IdleEnd
  <2>1. silent \in [Hosts -> 0..IdleEnd]
        BY DEF TypeInv, TypeOK
  <2>2. IdleEnd \in Nat /\ AutoTerminate \in 0..IdleEnd
        BY ConstantTypes DEF IdleEnd
  <2>3. silent[h] \in 0..IdleEnd
        BY <2>1
  <2>4. QED BY <2>1, <2>2, <2>3 DEF AtMost
<1>2. \/ NoInput(h)
      \/ \E d \in net : Listen(h, IF d.kind = "INPUT" THEN 0 ELSE silent[h])
      \/ Listen(h, AtMost(AutoTerminate, silent[h]))
      BY DEF HostStep, HostStart, HostGreet, HostAwaitTimeout, HostTop,
         HostPollQuiet, HostRefuse, HostKill, HostTake
<1>3. \E t \in {0, silent[h], AtMost(AutoTerminate, silent[h])} :
         silent' = [silent EXCEPT ![h] = t]
      BY <1>2 DEF NoInput, Listen
<1>4. {0, silent[h], AtMost(AutoTerminate, silent[h])} \subseteq 0..IdleEnd
      BY <1>1
<1>5. \E t \in 0..IdleEnd : silent' = [silent EXCEPT ![h] = t]
      BY <1>3, <1>4
<1>6. QED BY <1>1, <1>5

LEMMA TypeHostSteps ==
    ASSUME TypeInv, NEW h \in Hosts, HostStep(h)
    PROVE  TypeInv'
<1> USE ConstantTypes
<1>0. silent' \in [Hosts -> 0..IdleEnd]
      BY SilentType
<1> USE <1>0
<1>1. HostTypeOK /\ WireTypeOK
      BY DEF TypeInv, TypeOK
<1>2. ASSUME Leave(h), NEW sends \in BOOLEAN, Track(h, sends), WireTypeOK'
      PROVE  TypeInv'
  <2>1. Goto(h, "off") /\ "off" \in Phase
        BY <1>1, <1>2, LeaveType DEF Phase
  <2>2. QED BY <1>1, <1>2, <2>1, LeaveType, TypeHost
<1>3. ASSUME NextAttempt(h), Track(h, FALSE), WireTypeOK'
      PROVE  TypeInv'
  <2>1. CASE attempt[h] < HandshakeRetries
    <3>1. Goto(h, "greet") /\ UNCHANGED <<attempt, keepAge, rxAge>>
          BY <1>3, <2>1 DEF NextAttempt
    <3>2. QED BY <1>1, <1>3, <2>1, <3>1, TypeHost DEF HostTypeOK, Phase
  <2>2. CASE ~(attempt[h] < HandshakeRetries)
        BY <1>2, <1>3, <2>2 DEF NextAttempt
  <2>3. QED BY <2>1, <2>2
<1>4. CASE HostStart(h)
  <2>1. /\ Goto(h, "greet") /\ Track(h, FALSE)
        /\ UNCHANGED <<attempt, keepAge, rxAge, net>>
        /\ attempt[h] = 0
        BY <1>4 DEF HostStart, Start, TypeInv, AttemptOK
  <2>2. QED BY <1>1, <2>1, TypeHost, WireKeeps DEF HostTypeOK, Phase
<1>5. CASE HostGreet(h)
  <2>1. /\ Goto(h, "await") /\ Track(h, TRUE)
        /\ attempt' = [attempt EXCEPT ![h] = @ + 1]
        /\ net' = net \cup {Datagram("HELLO", h)}
        /\ UNCHANGED <<keepAge, rxAge>>
        /\ attempt[h] < HandshakeRetries
        BY <1>5 DEF HostGreet, Greet, TypeInv, AttemptOK
  <2>2. /\ attempt' \in [Hosts -> 0..HandshakeRetries]
        /\ \A g \in Hosts \ {h} : attempt'[g] = attempt[g]
        BY <1>1, <2>1 DEF HostTypeOK
  <2>3. QED BY <1>1, <2>1, <2>2, TypeHost, WireKeeps DEF HostTypeOK, Phase
<1>6. CASE HostAwaitTimeout(h)
      BY <1>1, <1>3, <1>6, WireKeeps DEF HostAwaitTimeout, AwaitTimeout
<1>7. CASE HostTop(h)
  <2>1. /\ Goto(h, "poll") /\ Track(h, KeepaliveDue(h))
        /\ UNCHANGED <<attempt, rxAge>>
        BY <1>7 DEF HostTop, Top
  <2>2. /\ keepAge' \in [Hosts -> 0..KeepCap]
        /\ \A g \in Hosts \ {h} : keepAge'[g] = keepAge[g]
        /\ keepAge'[h] <= KeepaliveInterval
    <3>1. 0 \in 0..KeepCap
          BY DEF KeepCap
    <3>2. CASE KeepaliveDue(h)
          BY <1>1, <1>7, <3>1, <3>2 DEF HostTop, Top, HostTypeOK
    <3>3. CASE ~KeepaliveDue(h)
      <4>1. UNCHANGED keepAge
            BY <1>7, <3>3 DEF HostTop, Top
      <4>2. keepAge[h] \in Nat
            BY <1>1 DEF HostTypeOK, KeepCap
      <4>3. QED BY <1>1, <3>3, <4>1, <4>2 DEF HostTypeOK, KeepaliveDue
    <3>4. QED BY <3>2, <3>3
  <2>3. WireTypeOK'
        BY <1>1, <1>7, WireKeeps DEF HostTop, Top
  <2>4. KeepaliveDue(h) \in BOOLEAN
        BY DEF KeepaliveDue
  <2>5. QED BY <1>1, <2>1, <2>2, <2>3, <2>4, TypeHost DEF HostTypeOK, Phase
<1>8. CASE HostPollQuiet(h)
  <2>1. CASE Leave(h)
        BY <1>1, <1>2, <1>8, <2>1, WireKeeps DEF HostPollQuiet, PollQuiet
  <2>2. CASE ~Leave(h)
    <3>1. /\ Goto(h, "top") /\ Track(h, FALSE)
          /\ UNCHANGED <<attempt, keepAge, rxAge, net>>
          BY <1>8, <2>2 DEF HostPollQuiet, PollQuiet
    <3>2. QED BY <1>1, <3>1, TypeHost, WireKeeps DEF HostTypeOK, Phase
  <2>3. QED BY <2>1, <2>2
<1>9. CASE HostKill(h)
      BY <1>1, <1>2, <1>9, WireKeeps DEF HostKill, Kill
<1>10. ASSUME NEW d \in net, HostTake(h, d)
       PROVE  TypeInv'
  <2>1. net' \in Without(d) /\ Track(h, FALSE)
        BY <1>10 DEF HostTake, HostReceive, AwaitOther, AwaitAck, PollAck,
           PollInput
  <2>2. WireTypeOK'
        BY <1>1, <2>1, WireKeeps
  <2>3. CASE AwaitOther(h, d)
        BY <1>3, <2>1, <2>2, <2>3 DEF AwaitOther
  <2>4. CASE AwaitAck(h, d)
    <3>1. 0 \in 0..HandshakeRetries /\ 0 \in 0..KeepCap /\ 0 \in 0..RxCap
          BY DEF KeepCap, RxCap
    <3>2. QED BY <1>1, <2>1, <2>2, <2>4, <3>1, TypeHost
             DEF AwaitAck, HostTypeOK, Phase
  <2>5. CASE PollAck(h, d)
        BY <1>1, <2>1, <2>2, <2>5, TypeHost DEF PollAck, HostTypeOK, Phase
  <2>6. CASE PollInput(h, d)
    <3>1. nowAge[h] \in 0..RxCap
          BY <1>1, <2>6 DEF PollInput, HostTypeOK, TypeInv, WaitOK, RxCap,
             NowCap
    <3>2. QED BY <1>1, <2>1, <2>2, <2>6, <3>1, TypeHost
             DEF PollInput, HostTypeOK, Phase
  <2>7. QED BY <1>10, <2>3, <2>4, <2>5, <2>6 DEF HostTake, HostReceive
<1>11. CASE HostRefuse(h)
  <2>1. WireTypeOK' /\ Track(h, FALSE)
        BY <1>1, <1>11, WireKeeps
        DEF HostRefuse, Refuse, AwaitRefused, PollRefused
  <2>2. CASE AwaitRefused(h)
        BY <1>3, <2>1, <2>2 DEF AwaitRefused
  <2>3. CASE PollRefused(h)
    <3>1. Goto(h, "top") /\ UNCHANGED <<attempt, keepAge, rxAge>>
          BY <2>3 DEF PollRefused
    <3>2. QED BY <1>1, <2>1, <3>1, TypeHost DEF HostTypeOK, Phase
  <2>4. QED BY <1>11, <2>2, <2>3 DEF HostRefuse, Refuse
<1>12. QED BY <1>4, <1>5, <1>6, <1>7, <1>8, <1>9, <1>10, <1>11 DEF HostStep

LEMMA TypeLose ==
    ASSUME TypeInv, NEW d \in net, Lose(d)
    PROVE  TypeInv'
<1> USE ConstantTypes
<1>1. WireTypeOK'
      BY DEF Lose, TypeInv, TypeOK, WireTypeOK
<1>2. lost' \in [Hosts -> 0..MaxLoss]
  <2>1. d.host \in Hosts /\ lost \in [Hosts -> 0..MaxLoss]
        BY DEF TypeInv, TypeOK, WireTypeOK, Datagrams
  <2>2. CASE Counts(d)
        BY <2>1, <2>2 DEF Lose
  <2>3. CASE ~Counts(d)
        BY <2>1, <2>3 DEF Lose
  <2>4. QED BY <2>2, <2>3
<1>3. ConsoleTypeOK' /\ TargetOK'
      BY DEF Lose, consoleVars, TypeInv, TypeOK, ConsoleTypeOK, TargetOK
<1>4. HostTypeOK' /\ WaitOK' /\ AttemptOK'
      BY DEF Lose, hostVars, TypeInv, TypeOK, HostTypeOK, WaitOK, AttemptOK
<1>5. /\ (upAge \in [Hosts -> 0..UpCap])' /\ (sentAge \in [Hosts -> 0..SentCap])'
      /\ (silent \in [Hosts -> 0..IdleEnd])'
      BY DEF Lose, TypeInv, TypeOK
<1>6. QED BY <1>1, <1>2, <1>3, <1>4, <1>5 DEF TypeInv, TypeOK

LEMMA CapTypes ==
    /\ Period \in Nat /\ Window \in Nat
    /\ HelloCap \in Nat /\ NowCap \in Nat /\ KeepCap \in Nat /\ RxCap \in Nat
    /\ UpCap \in Nat /\ SentCap \in Nat /\ IdleEnd \in Nat
BY ConstantTypes
DEF Period, Window, HelloCap, NowCap, KeepCap, RxCap, UpCap, SentCap, IdleEnd

LEMMA TypeTick ==
    ASSUME TypeInv, Tick
    PROVE  TypeInv'
<1> USE ConstantTypes, CapTypes
<1>1. WireTypeOK'
      BY AgedType DEF Tick, MayPass, TypeInv, TypeOK, WireTypeOK
<1>2. ConsoleTypeOK' /\ TargetOK'
  <2>1. helloAge' \in 0..HelloCap
        BY AtMostType DEF Tick, TypeInv, TypeOK, ConsoleTypeOK
  <2>2. QED BY <2>1 DEF Tick, TypeInv, TypeOK, ConsoleTypeOK, TargetOK
<1>3. \A h \in Hosts :
         \/ phase[h] = "off"
         \/ phase[h] = "await" /\ nowAge[h] < HandshakeTimeout
         \/ phase[h] = "poll" /\ nowAge[h] < PollTimeout
      BY DEF Tick, MayPass
<1>4. HostTypeOK
      BY DEF TypeInv, TypeOK
<1>5. nowAge' \in [Hosts -> 0..NowCap]
  <2> SUFFICES ASSUME NEW h \in Hosts
               PROVE  (IF phase[h] = "off" THEN 0 ELSE nowAge[h] + 1)
                          \in 0..NowCap
      BY DEF Tick
  <2>1. nowAge[h] \in Nat
        BY <1>4 DEF HostTypeOK
  <2>2. QED BY <1>3, <2>1 DEF NowCap
<1>6. keepAge' \in [Hosts -> 0..KeepCap] /\ rxAge' \in [Hosts -> 0..RxCap]
  <2> SUFFICES ASSUME NEW h \in Hosts
               PROVE  /\ AtMost(KeepCap, keepAge[h] + 1) \in 0..KeepCap
                      /\ AtMost(RxCap, rxAge[h] + 1) \in 0..RxCap
      BY DEF Tick
  <2>1. keepAge[h] + 1 \in Nat /\ rxAge[h] + 1 \in Nat
        BY <1>4 DEF HostTypeOK
  <2>2. QED BY <2>1, AtMostType
<1>7. /\ upAge' \in [Hosts -> 0..UpCap] /\ sentAge' \in [Hosts -> 0..SentCap]
      /\ silent' \in [Hosts -> 0..IdleEnd]
  <2> SUFFICES ASSUME NEW h \in Hosts
               PROVE  /\ AtMost(UpCap, upAge[h] + 1) \in 0..UpCap
                      /\ AtMost(SentCap, sentAge[h] + 1) \in 0..SentCap
                      /\ AtMost(IdleEnd, silent[h] + 1) \in 0..IdleEnd
      BY DEF Tick
  <2>1. upAge[h] + 1 \in Nat /\ sentAge[h] + 1 \in Nat /\ silent[h] + 1 \in Nat
        BY DEF TypeInv, TypeOK
  <2>2. QED BY <2>1, AtMostType
<1>8. HostTypeOK'
      BY <1>4, <1>5, <1>6 DEF Tick, HostTypeOK
<1>9. WaitOK' /\ AttemptOK'
  <2> SUFFICES ASSUME NEW h \in Hosts
               PROVE  /\ phase[h] = "await" => nowAge'[h] <= HandshakeTimeout
                      /\ phase[h] = "poll" =>
                            /\ nowAge'[h] <= PollTimeout
                            /\ keepAge'[h] <= KeepaliveInterval + nowAge'[h]
                      /\ phase[h] \notin {"await", "poll"} => nowAge'[h] = 0
                      /\ phase[h] = "greet" => attempt[h] < HandshakeRetries
                      /\ phase[h] = "off" => attempt[h] = 0
      BY DEF Tick, WaitOK, AttemptOK
  <2>1. /\ nowAge'[h] = IF phase[h] = "off" THEN 0 ELSE nowAge[h] + 1
        /\ phase[h] = "poll" => keepAge'[h] = AtMost(KeepCap, keepAge[h] + 1)
        BY DEF Tick, Streams
  <2>2. nowAge[h] \in Nat /\ keepAge[h] \in Nat
        BY <1>4 DEF HostTypeOK
  <2>3. AtMost(KeepCap, keepAge[h] + 1) <= keepAge[h] + 1
        BY <2>2 DEF AtMost
  <2>4. AtMost(KeepCap, keepAge[h] + 1) \in Nat
        BY <2>2 DEF AtMost
  <2>5. QED BY <1>3, <2>1, <2>2, <2>3, <2>4 DEF TypeInv, WaitOK, AttemptOK
<1>10. lost' \in [Hosts -> 0..MaxLoss]
       BY DEF Tick, TypeInv, TypeOK
<1>11. QED BY <1>1, <1>2, <1>7, <1>8, <1>9, <1>10 DEF TypeInv, TypeOK

\* Nothing changes.
LEMMA TypeStutter ==
    ASSUME TypeInv, UNCHANGED vars
    PROVE  TypeInv'
BY DEF vars, consoleVars, hostVars, envVars, TypeInv, TypeOK, WireTypeOK,
   ConsoleTypeOK, HostTypeOK, WaitOK, AttemptOK, TargetOK

\* The shape of Next, as the proofs go through it.
LEMMA NextCases ==
    ASSUME Next
    PROVE  \/ Frame \/ Relaunch \/ Tick
           \/ \E d \in net : Hear(d) \/ Lose(d)
           \/ \E h \in Hosts : HostStep(h)
BY DEF Next, HostStep

LEMMA TypeNext == TypeInv /\ [Next]_vars => TypeInv'
<1> SUFFICES ASSUME TypeInv, [Next]_vars PROVE TypeInv'
    OBVIOUS
<1>1. CASE Frame
      BY <1>1, TypeConsole DEF Frame, envVars
<1>2. CASE Relaunch
      BY <1>2, TypeConsole DEF Relaunch, envVars
<1>3. CASE Tick
      BY <1>3, TypeTick
<1>4. ASSUME NEW d \in net, Hear(d) \/ Lose(d) PROVE TypeInv'
      BY <1>4, TypeConsole, TypeLose DEF Hear
<1>5. ASSUME NEW h \in Hosts, HostStep(h) PROVE TypeInv'
      BY <1>5, TypeHostSteps
<1>6. CASE UNCHANGED vars
      BY <1>6, TypeStutter
<1>7. QED BY <1>1, <1>2, <1>3, <1>4, <1>5, <1>6, NextCases

\* Type correctness, for the waits too: no recvfrom outlasts its timeout and
\* no handshake its attempts.
THEOREM TypeCorrect == Spec => []TypeInv
<1>1. QED BY TypeInit, TypeNext, PTL DEF Spec

THEOREM TypeSafe == Spec => []TypeOK
<1>1. TypeInv => TypeOK
      BY DEF TypeInv
<1>2. QED BY <1>1, TypeCorrect, PTL

-----------------------------------------------------------------------------
(***************************************************************************)
(* No phantom session.  The ACKs in flight carry the argument: each was    *)
(* sent by a console that had just recorded its host in greeted.           *)
(***************************************************************************)
AcksEarned == \A d \in net : d.kind = "ACK" => d.host \in greeted

PhantomInv == AcksEarned /\ NoPhantomSession

LEMMA HostWire ==
    ASSUME NEW h \in Hosts, HostStep(h), NEW d \in net'
    PROVE  d \in net \/ d = Datagram("HELLO", h)
BY DEF HostStep, HostStart, Start, HostGreet, Greet, HostAwaitTimeout,
   AwaitTimeout, HostTop, Top, HostPollQuiet, PollQuiet, HostRefuse, Refuse,
   AwaitRefused, PollRefused, HostKill, Kill, HostTake, HostReceive,
   AwaitOther, AwaitAck, PollAck, PollInput, Without

\* The console puts no HELLO on the wire, and an ACK only for the host it hears.
LEMMA ConsoleWire ==
    ASSUME NEW e \in net, TickHello(e), NEW d \in net'
    PROVE  d \in net \/ d = Datagram("ACK", e.host) \/ d = Datagram("INPUT", e.host)
BY DEF TickHello, TickListenHello, TickStreamHello, Without

\* A step of h changes the phase of h only, and h enters its loop from the
\* handshake only with an ACK.
LEMMA HostPhase ==
    ASSUME TypeInv, NEW h \in Hosts, HostStep(h)
    PROVE  /\ \A g \in Hosts \ {h} : phase'[g] = phase[g]
           /\ \/ Streams(h) \/ ~Streams(h)'
              \/ \E d \in net : d.kind = "ACK" /\ d.host = h /\ AwaitAck(h, d)
<1>1. HostTypeOK
      BY DEF TypeInv, TypeOK
<1>2. \E p \in Phase : Goto(h, p)
      BY DEF HostStep, HostStart, Start, HostGreet, Greet, HostAwaitTimeout,
         AwaitTimeout, HostTop, Top, HostPollQuiet, PollQuiet, HostRefuse,
         Refuse, AwaitRefused, PollRefused, HostKill, Kill, HostTake,
         HostReceive, AwaitOther, AwaitAck, PollAck, PollInput, NextAttempt,
         Leave, Phase
<1>3. \A g \in Hosts \ {h} : phase'[g] = phase[g]
      BY <1>1, <1>2, GotoType
<1>4. \/ Streams(h) \/ ~Streams(h)'
      \/ \E d \in net : d.kind = "ACK" /\ d.host = h /\ AwaitAck(h, d)
  <2>1. CASE HostStart(h) \/ HostGreet(h) \/ HostAwaitTimeout(h)
        BY <1>1, <2>1 DEF HostStart, Start, HostGreet, Greet, HostAwaitTimeout,
           AwaitTimeout, NextAttempt, Leave, Goto, Streams, HostTypeOK, Phase
  <2>2. CASE HostTop(h) \/ HostPollQuiet(h)
        BY <2>2 DEF HostTop, Top, HostPollQuiet, PollQuiet, Streams
  <2>3. CASE HostKill(h)
        BY <1>1, <2>3 DEF HostKill, Kill, Leave, Goto, Streams, HostTypeOK,
           Phase
  <2>4. ASSUME NEW d \in net, HostTake(h, d)
        PROVE  \/ Streams(h) \/ ~Streams(h)'
               \/ d.kind = "ACK" /\ d.host = h /\ AwaitAck(h, d)
    <3>1. \/ AwaitOther(h, d) \/ AwaitAck(h, d)
          \/ PollAck(h, d) \/ PollInput(h, d)
          BY <2>4 DEF HostTake, HostReceive
    <3>2. CASE AwaitOther(h, d)
          BY <1>1, <3>2 DEF AwaitOther, NextAttempt, Leave, Goto, Streams,
             HostTypeOK, Phase
    <3>3. CASE AwaitAck(h, d)
          BY <3>3 DEF AwaitAck
    <3>4. CASE PollAck(h, d) \/ PollInput(h, d)
          BY <3>4 DEF PollAck, PollInput, Streams
    <3>5. QED BY <3>1, <3>2, <3>3, <3>4
  <2>5. CASE HostRefuse(h)
        BY <1>1, <2>5 DEF HostRefuse, Refuse, AwaitRefused, PollRefused,
           NextAttempt, Leave, Goto, Streams, HostTypeOK, Phase
  <2>6. QED BY <2>1, <2>2, <2>3, <2>4, <2>5 DEF HostStep
<1>5. QED BY <1>3, <1>4

LEMMA PhantomNext == TypeInv /\ PhantomInv /\ [Next]_vars => PhantomInv'
<1> SUFFICES ASSUME TypeInv, PhantomInv, [Next]_vars PROVE PhantomInv'
    OBVIOUS
<1> USE DEF PhantomInv, AcksEarned, NoPhantomSession, Streams
<1>1. CASE Frame
  <2>1. \A d \in net' : d \in net \/ d = Datagram("INPUT", g_pcAddr)
        BY <1>1 DEF Frame, TickNoHello, TickWaiting, TickBind, TickListenIdle,
           TickStreamInput, TickStreamExpire
  <2>2. UNCHANGED <<greeted, phase>>
        BY <1>1 DEF Frame, hostVars, TickNoHello, TickWaiting, TickBind,
           TickListenIdle, TickStreamInput, TickStreamExpire
  <2>3. QED BY <2>1, <2>2 DEF Datagram
<1>2. CASE Relaunch
      BY <1>2 DEF Relaunch, ConsoleRelaunch, hostVars
<1>3. CASE Tick
  <2>1. UNCHANGED <<greeted, phase>> /\ net' = Aged
        BY <1>3 DEF Tick
  <2>2. \A d \in net : d \in Datagrams
        BY DEF TypeInv, TypeOK, WireTypeOK
  <2>3. \A d \in net' : \E e \in net : d.kind = e.kind /\ d.host = e.host
        BY <2>1, <2>2 DEF Aged, Datagrams
  <2>4. QED BY <2>1, <2>3
<1>4. ASSUME NEW e \in net, Hear(e) PROVE PhantomInv'
  <2>1. TickHello(e) /\ UNCHANGED phase /\ greeted' = greeted \cup {e.host}
        BY <1>4 DEF Hear, hostVars, TickHello, TickListenHello,
           TickStreamHello, TakeHello
  <2>2. QED BY <2>1, ConsoleWire DEF Datagram
<1>5. ASSUME NEW e \in net, Lose(e) PROVE PhantomInv'
      BY <1>5 DEF Lose, consoleVars, hostVars
<1>6. ASSUME NEW h \in Hosts, HostStep(h) PROVE PhantomInv'
  <2>1. UNCHANGED greeted
        BY <1>6 DEF HostStep, HostStart, HostGreet, HostAwaitTimeout, HostTop,
           HostPollQuiet, HostRefuse, HostKill, HostTake, Track, consoleVars
  <2>2. AcksEarned'
        BY <1>6, <2>1, HostWire DEF Datagram
  <2>3. QED BY <1>6, <2>1, <2>2, HostPhase
<1>7. CASE UNCHANGED vars
      BY <1>7 DEF vars, consoleVars, hostVars
<1>8. QED BY <1>1, <1>2, <1>3, <1>4, <1>5, <1>6, <1>7, NextCases

\* A receiver streams only if the console answered a HELLO of its host.
THEOREM PhantomFree == Spec => []NoPhantomSession
<1>1. Init => PhantomInv
      BY DEF Init, HostInit, PhantomInv, AcksEarned, NoPhantomSession, Streams
<1>2. PhantomInv => NoPhantomSession
      BY DEF PhantomInv
<1>3. QED BY <1>1, <1>2, PhantomNext, TypeCorrect, PTL DEF Spec

-----------------------------------------------------------------------------
(***************************************************************************)
(* The release of a dead host.  sentAge follows the last HELLO of a host   *)
(* along the wire (SentFirst) and into the console (Owed).                 *)
(***************************************************************************)
\* The frame of this unit has seen to it that a stream is not over its time.
Punctual == framed /\ g_state = "STREAMING" => helloAge <= HelloTimeout

\* A HELLO in flight is no younger than the last one its host sent.
SentFirst == \A d \in net : d.kind = "HELLO" => sentAge[d.host] <= d.age

\* The HELLO that the console took last was in flight for MaxDelay at most.
Owed == g_state = "STREAMING" => sentAge[g_pcAddr] <= helloAge + MaxDelay

\* No HELLO was sent since last_keepalive was set.
KeepSent == \A h \in Hosts : Streams(h) => keepAge[h] <= sentAge[h]

ReleaseInv == Punctual /\ SentFirst /\ Owed /\ KeepSent

\* A step of h leaves the other hosts' clocks alone; a HELLO it puts on the
\* wire is recorded in sentAge, and sentAge never grows by a step.
LEMMA HostSent ==
    ASSUME TypeInv, NEW h \in Hosts, HostStep(h)
    PROVE  /\ \A d \in net' :
                 d \in net \/ (d = Datagram("HELLO", h) /\ sentAge'[h] = 0)
           /\ \A g \in Hosts : sentAge'[g] <= sentAge[g]
           /\ UNCHANGED consoleVars
<1>1. sentAge \in [Hosts -> Nat]
      BY CapTypes DEF TypeInv, TypeOK
<1>2. ASSUME NEW sends \in BOOLEAN, Track(h, sends)
      PROVE  /\ \A g \in Hosts : sentAge'[g] <= sentAge[g]
             /\ UNCHANGED consoleVars
             /\ sends => sentAge'[h] = 0
      BY <1>1, <1>2 DEF Track
<1>3. CASE HostGreet(h)
      BY <1>2, <1>3 DEF HostGreet, Greet
<1>4. CASE HostTop(h)
  <2>1. KeepaliveDue(h) \in BOOLEAN /\ Track(h, KeepaliveDue(h))
        BY <1>4 DEF HostTop, KeepaliveDue
  <2>2. \A d \in net' :
           d \in net \/ (d = Datagram("HELLO", h) /\ KeepaliveDue(h))
        BY <1>4 DEF HostTop, Top
  <2>3. QED BY <1>2, <2>1, <2>2
<1>5. CASE ~HostGreet(h) /\ ~HostTop(h)
  <2>1. Track(h, FALSE) /\ \A d \in net' : d \in net
        BY <1>5 DEF HostStep, HostStart, Start, HostAwaitTimeout,
           AwaitTimeout, HostPollQuiet, PollQuiet, HostRefuse, Refuse,
           AwaitRefused, PollRefused, HostKill, Kill, HostTake, HostReceive,
           AwaitOther, AwaitAck, PollAck, PollInput, Without
  <2>2. QED BY <1>2, <2>1
<1>6. QED BY <1>3, <1>4, <1>5

\* keepAge only falls by a keepalive, to 0, and the loop starts it at 0.
LEMMA HostKeep ==
    ASSUME TypeInv, NEW h \in Hosts, HostStep(h), NEW g \in Hosts, Streams(g)'
    PROVE  /\ Streams(g) => \/ /\ g = h /\ HostTop(h) /\ KeepaliveDue(h)
                               /\ keepAge'[g] = 0
                            \/ /\ keepAge'[g] = keepAge[g]
                               /\ sentAge'[g] = sentAge[g]
           /\ ~Streams(g) => keepAge'[g] = 0
<1>1. HostTypeOK /\ sentAge \in [Hosts -> Nat]
      BY CapTypes DEF TypeInv, TypeOK
<1>2. CASE g # h
  <2>1. keepAge'[g] = keepAge[g]
        BY <1>1, <1>2 DEF HostStep, HostStart, Start, HostGreet, Greet,
           HostAwaitTimeout, AwaitTimeout, HostTop, Top, HostPollQuiet,
           PollQuiet, HostRefuse, Refuse, AwaitRefused, PollRefused,
           HostKill, Kill, HostTake, HostReceive, AwaitOther, AwaitAck,
           PollAck, PollInput, NextAttempt, Leave, HostTypeOK
  <2>2. sentAge' = [sentAge EXCEPT ![h] = 0] \/ sentAge' = sentAge
        BY DEF HostStep, HostStart, HostGreet, HostAwaitTimeout, HostTop,
           HostPollQuiet, HostRefuse, HostKill, HostTake, Track
  <2>3. sentAge'[g] = sentAge[g]
        BY <1>1, <1>2, <2>2
  <2>4. Streams(g)
        BY <1>2, HostPhase DEF Streams
  <2>5. QED BY <2>1, <2>3, <2>4
<1>3. CASE g = h
  <2>1. CASE ~Streams(h)
    <3>1. PICK d \in net : AwaitAck(h, d)
          BY <1>3, <2>1, HostPhase
    <3>2. QED BY <1>1, <1>3, <2>1, <3>1 DEF AwaitAck, HostTypeOK
  <2>2. CASE Streams(h) /\ HostTop(h)
    <3>1. KeepaliveDue(h) => keepAge'[h] = 0
          BY <1>1, <2>2 DEF HostTop, Top, HostTypeOK
    <3>2. ~KeepaliveDue(h) => UNCHANGED <<keepAge, sentAge>>
          BY <2>2 DEF HostTop, Top, Track
    <3>3. QED BY <1>3, <2>2, <3>1, <3>2
  <2>3. CASE Streams(h) /\ ~HostTop(h)
    <3>1. ~Leave(h) /\ ~HostStart(h) /\ ~HostGreet(h) /\ ~HostAwaitTimeout(h)
          /\ ~HostKill(h)
          BY <1>1, <1>3, <2>3 DEF Leave, Goto, HostStart, Start, HostGreet,
             Greet, HostAwaitTimeout, AwaitTimeout, HostKill, Kill, Streams,
             HostTypeOK
    <3>2. UNCHANGED <<keepAge, sentAge>>
          BY <2>3, <3>1 DEF HostStep, HostPollQuiet, PollQuiet, HostTake,
             HostReceive, AwaitOther, AwaitAck, PollAck, PollInput, HostRefuse,
             Refuse, AwaitRefused, PollRefused, Track, Streams
    <3>3. QED BY <1>3, <2>3, <3>2
  <2>4. QED BY <2>1, <2>2, <2>3
<1>4. QED BY <1>2, <1>3

LEMMA ReleaseInit == Init => ReleaseInv
BY DEF Init, ConsoleInit, HostInit, ReleaseInv, Punctual, SentFirst, Owed,
   KeepSent, Streams

\* One unit makes everything one unit older.
LEMMA ReleaseTick ==
    ASSUME TypeInv, ReleaseInv, Tick
    PROVE  ReleaseInv'
<1> USE ConstantTypes, CapTypes
<1>1. HostTypeOK /\ sentAge \in [Hosts -> 0..SentCap] /\ helloAge \in 0..HelloCap
      BY DEF TypeInv, TypeOK, ConsoleTypeOK
<1>2. /\ sentAge' = [h \in Hosts |-> AtMost(SentCap, sentAge[h] + 1)]
      /\ helloAge' = AtMost(HelloCap, helloAge + 1)
      /\ UNCHANGED <<g_state, g_pcAddr, greeted, phase>>
      /\ net' = Aged /\ framed /\ ~framed'
      BY DEF Tick, MayPass
<1>3. \A h \in Hosts : sentAge'[h] <= sentAge[h] + 1
      BY <1>1, <1>2 DEF AtMost
<1>4. Punctual'
      BY <1>2 DEF Punctual
<1>5. SentFirst'
  <2> SUFFICES ASSUME NEW e \in net, e.kind = "HELLO"
               PROVE  sentAge'[e.host] <= e.age + 1
    <3>1. \A e \in net : e \in Datagrams
          BY DEF TypeInv, TypeOK, WireTypeOK
    <3>2. QED BY <1>2, <3>1 DEF SentFirst, Aged, Datagrams
  <2>1. e.host \in Hosts /\ e.age \in Nat
        BY DEF TypeInv, TypeOK, WireTypeOK, Datagrams
  <2>2. QED BY <1>1, <1>2, <1>3, <2>1 DEF ReleaseInv, SentFirst, AtMost
<1>6. Owed'
  <2> SUFFICES ASSUME g_state = "STREAMING"
               PROVE  sentAge'[g_pcAddr] <= helloAge' + MaxDelay
      BY <1>2 DEF Owed
  <2>1. g_pcAddr \in Hosts
        BY DEF TypeInv, TypeOK, ConsoleTypeOK, TargetOK
  <2>2. helloAge <= HelloTimeout
        BY <1>2 DEF ReleaseInv, Punctual
  <2>3. helloAge' = helloAge + 1
        BY <1>1, <1>2, <2>2 DEF AtMost, HelloCap
  <2>4. QED BY <1>1, <1>3, <2>1, <2>3, <1>2 DEF ReleaseInv, Owed, AtMost
<1>7. KeepSent'
  <2> SUFFICES ASSUME NEW h \in Hosts, Streams(h)
               PROVE  keepAge'[h] <= sentAge'[h]
      BY <1>2 DEF KeepSent, Streams
  <2>1. keepAge'[h] = AtMost(KeepCap, keepAge[h] + 1)
        BY DEF Tick
  <2>2. keepAge[h] <= sentAge[h] /\ keepAge[h] \in Nat
        BY <1>1 DEF ReleaseInv, KeepSent, HostTypeOK
  <2>3. KeepCap <= Window
    <3>1. (MaxLoss + 1) * Period >= Period
          BY ONLY ConstantTypes, CapTypes, SMT
    <3>2. QED BY <3>1 DEF Window, KeepCap, Period
  <2>4. KeepCap <= SentCap
        BY <2>3, MarginAssumption DEF SentCap
  <2>5. QED BY <1>1, <1>2, <2>1, <2>2, <2>4 DEF AtMost
<1>8. QED BY <1>4, <1>5, <1>6, <1>7 DEF ReleaseInv

LEMMA ReleaseNext == TypeInv /\ ReleaseInv /\ [Next]_vars => ReleaseInv'
<1> SUFFICES ASSUME TypeInv, ReleaseInv, [Next]_vars PROVE ReleaseInv'
    OBVIOUS
<1> USE ConstantTypes, CapTypes
<1>0. /\ sentAge \in [Hosts -> Nat] /\ helloAge \in Nat
      /\ \A d \in net : d.host \in Hosts /\ d.age \in 0..MaxDelay
      /\ g_state = "STREAMING" => g_pcAddr \in Hosts
      BY DEF TypeInv, TypeOK, ConsoleTypeOK, WireTypeOK, Datagrams, TargetOK
<1>1. CASE Frame
  <2>1. \A d \in net' : d \in net \/ d = Datagram("INPUT", g_pcAddr)
        BY <1>1 DEF Frame, TickNoHello, TickWaiting, TickBind, TickListenIdle,
           TickStreamInput, TickStreamExpire
  <2>2. /\ UNCHANGED <<sentAge, phase, keepAge, helloAge, g_pcAddr>>
        /\ g_state' = "STREAMING" =>
              g_state = "STREAMING" /\ helloAge <= HelloTimeout
        BY <1>1 DEF Frame, hostVars, envVars, TickNoHello, TickWaiting,
           TickBind, TickListenIdle, TickStreamInput, TickStreamExpire
  <2>3. QED BY <2>1, <2>2 DEF Datagram, ReleaseInv, Punctual, SentFirst, Owed,
           KeepSent, Streams
<1>2. CASE Relaunch
      BY <1>2 DEF Relaunch, ConsoleRelaunch, hostVars, envVars, ReleaseInv,
         Punctual, SentFirst, Owed, KeepSent, Streams
<1>3. CASE Tick
      BY <1>3, ReleaseTick
<1>4. ASSUME NEW e \in net, Hear(e) PROVE ReleaseInv'
  <2>1. /\ TickHello(e) /\ UNCHANGED <<phase, keepAge, sentAge>>
        /\ helloAge' = 0 /\ g_pcAddr' = e.host /\ e.kind = "HELLO"
        BY <1>4 DEF Hear, hostVars, TickHello, TickListenHello,
           TickStreamHello, TakeHello
  <2>2. sentAge[e.host] <= MaxDelay
        BY <1>0, <2>1 DEF ReleaseInv, SentFirst
  <2>3. SentFirst'
        BY <2>1, ConsoleWire DEF ReleaseInv, SentFirst, Datagram
  <2>4. QED BY <1>0, <2>1, <2>2, <2>3 DEF ReleaseInv, Punctual, Owed,
           KeepSent, Streams
<1>5. ASSUME NEW e \in net, Lose(e) PROVE ReleaseInv'
      BY <1>5 DEF Lose, consoleVars, hostVars, ReleaseInv, Punctual, SentFirst,
         Owed, KeepSent, Streams
<1>6. ASSUME NEW h \in Hosts, HostStep(h) PROVE ReleaseInv'
  <2>1. /\ \A g \in Hosts : sentAge'[g] <= sentAge[g]
        /\ UNCHANGED <<g_state, g_pcAddr, helloAge, framed>>
        BY <1>6, HostSent DEF consoleVars
  <2>2. TypeInv'
        BY TypeNext
  <2>3. sentAge' \in [Hosts -> Nat]
        BY <2>2 DEF TypeInv, TypeOK
  <2>4. Punctual' /\ Owed'
        BY <1>0, <2>1, <2>3 DEF ReleaseInv, Punctual, Owed
  <2>5. SentFirst'
        BY <1>0, <1>6, <2>1, <2>3, HostSent DEF ReleaseInv, SentFirst, Datagram
  <2>6. KeepSent'
    <3> SUFFICES ASSUME NEW g \in Hosts, Streams(g)'
                 PROVE  keepAge'[g] <= sentAge'[g]
        BY DEF KeepSent
    <3>1. QED BY <1>6, <2>3, HostKeep DEF ReleaseInv, KeepSent
  <2>7. QED BY <2>4, <2>5, <2>6 DEF ReleaseInv
<1>7. CASE UNCHANGED vars
      BY <1>7 DEF vars, consoleVars, hostVars, envVars, ReleaseInv, Punctual,
         SentFirst, Owed, KeepSent, Streams
<1>8. QED BY <1>1, <1>2, <1>3, <1>4, <1>5, <1>6, <1>7, NextCases

THEOREM ReleaseSafe == Spec => []ReleaseInv
<1>1. QED BY ReleaseInit, ReleaseNext, TypeCorrect, PTL DEF Spec

\* A dead host is released: its stream ends HelloTimeout, one unit and one
\* flight after its last HELLO.
THEOREM DeadHostSafe == Spec => []DeadHostReleased
<1>1. TypeInv /\ ReleaseInv => DeadHostReleased
  <2> SUFFICES ASSUME TypeInv, ReleaseInv, g_state = "STREAMING"
               PROVE  sentAge[g_pcAddr] <= HelloTimeout + 1 + MaxDelay
      BY DEF DeadHostReleased
  <2>1. g_pcAddr \in Hosts /\ helloAge \in 0..HelloCap
        BY DEF TypeInv, TypeOK, ConsoleTypeOK, TargetOK
  <2>2. sentAge[g_pcAddr] \in Nat
        BY <2>1, CapTypes DEF TypeInv, TypeOK
  <2>3. QED BY <2>1, <2>2, ConstantTypes DEF ReleaseInv, Owed, HelloCap
<1>2. QED BY <1>1, TypeCorrect, ReleaseSafe, PTL

-----------------------------------------------------------------------------
(***************************************************************************)
(* The keepalive holds the session.  Each HELLO of a streaming host that   *)
(* was lost, or is still in flight, accounts for at most one Period since  *)
(* the console heard the host or the host began its loop.                  *)
(***************************************************************************)
Flying(h) == \E d \in net : d.kind = "HELLO" /\ d.host = h

Unheard(h) == lost[h] + IF Flying(h) THEN 1 ELSE 0

Due(h) == Unheard(h) * Period + keepAge[h]

Margin ==
    \A h \in Hosts :
        Streams(h) /\ g_state = "STREAMING" =>
            upAge[h] <= Due(h) \/ helloAge <= Due(h)

\* The clock of the loop stands at 0 outside it.
UpOK == \A h \in Hosts : ~Streams(h) => upAge[h] = 0

KeepInv == Margin /\ UpOK

\* Arithmetic of periods.
LEMMA PeriodStep ==
    ASSUME NEW n \in Nat, NEW p \in Nat
    PROVE  n * p \in Nat /\ (n + 1) * p = n * p + p
OBVIOUS

LEMMA PeriodMono ==
    ASSUME NEW m \in Nat, NEW n \in Nat, m <= n, NEW p \in Nat
    PROVE  m * p <= n * p
OBVIOUS

LEMMA UnheardType ==
    ASSUME TypeInv, NEW h \in Hosts
    PROVE  /\ Unheard(h) \in Nat /\ Unheard(h) <= MaxLoss + 1
           /\ ~Flying(h) => Unheard(h) <= MaxLoss
           /\ keepAge[h] \in Nat /\ Due(h) \in Nat
<1>1. lost[h] \in 0..MaxLoss /\ keepAge[h] \in Nat
      BY CapTypes DEF TypeInv, TypeOK, HostTypeOK
<1>2. /\ Unheard(h) \in Nat /\ Unheard(h) <= MaxLoss + 1
      /\ ~Flying(h) => Unheard(h) <= MaxLoss
      BY <1>1, ConstantTypes DEF Unheard
<1>3. Unheard(h) * Period \in Nat
      BY <1>2, PeriodStep, CapTypes
<1>4. QED BY <1>1, <1>2, <1>3 DEF Due

\* The deadline only moves away if no HELLO is forgotten and the keepalive
\* clock stands.
LEMMA DueMono ==
    ASSUME TypeInv, TypeInv', NEW h \in Hosts,
           Unheard(h) <= Unheard(h)', keepAge[h] <= keepAge'[h]
    PROVE  Due(h) <= Due(h)'
<1>1. /\ Unheard(h) \in Nat /\ keepAge[h] \in Nat
      /\ Unheard(h)' \in Nat /\ keepAge'[h] \in Nat
  <2>1. Unheard(h) \in Nat /\ keepAge[h] \in Nat
        BY UnheardType
  <2>2. lost'[h] \in 0..MaxLoss /\ keepAge'[h] \in Nat
        BY CapTypes DEF TypeInv, TypeOK, HostTypeOK
  <2>3. Unheard(h)' \in Nat
        BY <2>2, ConstantTypes DEF Unheard
  <2>4. QED BY <2>1, <2>2, <2>3
<1>2. Unheard(h) * Period <= Unheard(h)' * Period
      BY <1>1, PeriodMono, CapTypes
<1>3. Unheard(h) * Period \in Nat /\ Unheard(h)' * Period \in Nat
      BY <1>1, PeriodStep, CapTypes
<1>4. Due(h) = Unheard(h) * Period + keepAge[h]
      /\ Due(h)' = Unheard(h)' * Period + keepAge'[h]
      BY DEF Due, Period
<1>5. QED BY <1>1, <1>2, <1>3, <1>4

\* A keepalive falls due only when no HELLO of its host is in flight.
LEMMA KeepaliveAlone ==
    ASSUME TypeInv, ReleaseInv, NEW h \in Hosts, Streams(h), KeepaliveDue(h)
    PROVE  ~Flying(h)
<1> SUFFICES ASSUME NEW d \in net, d.kind = "HELLO", d.host = h
             PROVE  FALSE
    BY DEF Flying
<1>1. sentAge[h] <= d.age /\ keepAge[h] <= sentAge[h]
      BY DEF ReleaseInv, SentFirst, KeepSent
<1>2. sentAge[h] \in Nat /\ keepAge[h] \in Nat /\ d.age \in 0..MaxDelay
      BY CapTypes DEF TypeInv, TypeOK, HostTypeOK, WireTypeOK, Datagrams
<1>3. QED BY <1>1, <1>2, ConstantTypes, DelayAssumption DEF KeepaliveDue

\* No host takes a HELLO off the wire; a step leaves the other hosts alone.
LEMMA HostOthers ==
    ASSUME TypeInv, NEW h \in Hosts, HostStep(h)
    PROVE  /\ \A g \in Hosts : Flying(g) => Flying(g)'
           /\ \A g \in Hosts : Streams(g)' =>
                 lost'[g] = lost[g] /\ upAge'[g] = upAge[g]
           /\ UpOK => UpOK'
<1>1. \A d \in net : d.kind = "HELLO" => d \in net'
      BY DEF HostStep, HostStart, Start, HostGreet, Greet, HostAwaitTimeout,
         AwaitTimeout, HostTop, Top, HostPollQuiet, PollQuiet, HostRefuse,
         Refuse, AwaitRefused, PollRefused, HostKill, Kill, HostTake,
         HostReceive, AwaitOther, AwaitAck, PollAck, PollInput, Without
<1>2. /\ upAge' = IF Streams(h)' THEN upAge ELSE [upAge EXCEPT ![h] = 0]
      /\ lost' = IF Streams(h)' THEN lost ELSE [lost EXCEPT ![h] = 0]
      BY DEF HostStep, HostStart, HostGreet, HostAwaitTimeout, HostTop,
         HostPollQuiet, HostRefuse, HostKill, HostTake, Track
<1>3. /\ lost \in [Hosts -> 0..MaxLoss] /\ upAge \in [Hosts -> 0..UpCap]
      BY DEF TypeInv, TypeOK
<1>4. \A g \in Hosts : Flying(g) => Flying(g)'
      BY <1>1 DEF Flying
<1>5. \A g \in Hosts : Streams(g)' =>
         lost'[g] = lost[g] /\ upAge'[g] = upAge[g]
      BY <1>2, <1>3
<1>6. ASSUME UpOK, NEW g \in Hosts, ~Streams(g)'
      PROVE  upAge'[g] = 0
  <2>1. CASE g = h
        BY <1>2, <1>3, <1>6, <2>1
  <2>2. CASE g # h
    <3>1. ~Streams(g)
          BY <1>6, <2>2, HostPhase DEF Streams
    <3>2. QED BY <1>2, <1>3, <1>6, <2>2, <3>1 DEF UpOK
  <2>3. QED BY <2>1, <2>2
<1>7. UpOK => UpOK'
      BY <1>6 DEF UpOK
<1>8. QED BY <1>4, <1>5, <1>7


LEMMA MarginHost ==
    ASSUME TypeInv, TypeInv', ReleaseInv, KeepInv, NEW h \in Hosts, HostStep(h)
    PROVE  KeepInv'
<1> USE ConstantTypes, CapTypes
<1>1. UNCHANGED <<g_state, helloAge>>
      BY HostSent DEF consoleVars
<1>2. SUFFICES ASSUME NEW g \in Hosts, Streams(g)', g_state = "STREAMING"
               PROVE  upAge'[g] <= Due(g)' \/ helloAge' <= Due(g)'
      BY <1>1, HostOthers DEF KeepInv, Margin
<1>3. /\ lost'[g] = lost[g] /\ upAge'[g] = upAge[g]
      /\ Flying(g) => Flying(g)'
      BY <1>2, HostOthers
<1>4. /\ Due(g) \in Nat /\ Unheard(g) \in Nat /\ keepAge[g] \in Nat
      /\ lost[g] \in Nat /\ keepAge'[g] \in Nat
      /\ upAge[g] \in Nat /\ helloAge \in Nat
      BY UnheardType DEF TypeInv, TypeOK, HostTypeOK, ConsoleTypeOK
<1>5. Unheard(g)' \in Nat /\ Unheard(g) <= Unheard(g)'
      BY <1>3, <1>4 DEF Unheard
<1>6. Unheard(g)' * Period \in Nat
      BY <1>5, PeriodStep
<1>7. Due(g)' = Unheard(g)' * Period + keepAge'[g]
      BY DEF Due, Period
<1>8. CASE ~Streams(g)
  <2>1. upAge'[g] = 0
        BY <1>3, <1>8 DEF KeepInv, UpOK
  <2>2. QED BY <1>4, <1>6, <1>7, <2>1
<1>9. CASE Streams(g) /\ keepAge'[g] = keepAge[g]
  <2>1. Due(g) <= Due(g)'
        BY <1>4, <1>5, <1>9, DueMono
  <2>2. upAge[g] <= Due(g) \/ helloAge <= Due(g)
        BY <1>2, <1>9 DEF KeepInv, Margin
  <2>3. Due(g)' \in Nat
        BY <1>4, <1>6, <1>7
  <2>4. QED BY <1>1, <1>3, <1>4, <2>1, <2>2, <2>3
<1>10. CASE Streams(g) /\ keepAge'[g] # keepAge[g]
  <2>1. g = h /\ HostTop(h) /\ KeepaliveDue(h)
        BY <1>2, <1>10, HostKeep
  <2>2. /\ keepAge'[g] = 0 /\ Flying(g)'
    <3>1. net' = net \cup {Datagram("HELLO", h)} /\ keepAge'[h] = 0
          BY <2>1 DEF HostTop, Top, TypeInv, TypeOK, HostTypeOK
    <3>2. Datagram("HELLO", h) \in net'
          BY <3>1
    <3>3. Flying(g)' = \E d \in net' : d.kind = "HELLO" /\ d.host = g
          BY DEF Flying
    <3>4. QED BY <2>1, <3>1, <3>2, <3>3 DEF Datagram
  <2>3. ~Flying(g)
        BY <1>10, <2>1, KeepaliveAlone
  <2>4. Unheard(g)' = Unheard(g) + 1
        BY <1>3, <1>4, <2>2, <2>3 DEF Unheard
  <2>5. keepAge[g] <= Period
        BY DEF TypeInv, TypeOK, HostTypeOK, KeepCap, Period
  <2>6. (Unheard(g) + 1) * Period = Unheard(g) * Period + Period
        /\ Unheard(g) * Period \in Nat
        BY <1>4, PeriodStep
  <2>7. Due(g) <= Due(g)'
        BY <1>4, <1>7, <2>2, <2>4, <2>5, <2>6 DEF Due
  <2>8. upAge[g] <= Due(g) \/ helloAge <= Due(g)
        BY <1>2, <1>10 DEF KeepInv, Margin
  <2>9. Due(g)' \in Nat
        BY <1>4, <1>6, <1>7
  <2>10. QED BY <1>1, <1>3, <1>4, <2>7, <2>8, <2>9
<1>11. QED BY <1>8, <1>9, <1>10

\* A unit moves the deadline by a unit: the keepalive clock runs, since no
\* poll outlasts its timeout.
LEMMA MarginTick ==
    ASSUME TypeInv, TypeInv', KeepInv, Tick
    PROVE  KeepInv'
<1> USE ConstantTypes, CapTypes
<1>1. /\ UNCHANGED <<g_state, phase, lost>> /\ net' = Aged
      /\ helloAge' = AtMost(HelloCap, helloAge + 1)
      BY DEF Tick
<1>2. UpOK'
      BY <1>1 DEF Tick, UpOK, Streams
<1>3. SUFFICES ASSUME NEW h \in Hosts, Streams(h), g_state = "STREAMING"
               PROVE  upAge'[h] <= Due(h)' \/ helloAge' <= Due(h)'
      BY <1>1, <1>2 DEF KeepInv, Margin, Streams
<1>4. /\ upAge'[h] = AtMost(UpCap, upAge[h] + 1)
      /\ keepAge'[h] = AtMost(KeepCap, keepAge[h] + 1)
      /\ phase[h] = "poll" /\ nowAge[h] < PollTimeout
      BY <1>3 DEF Tick, MayPass, Streams
<1>5. /\ upAge[h] \in Nat /\ helloAge \in Nat /\ keepAge[h] \in Nat
      /\ nowAge[h] \in Nat
      BY DEF TypeInv, TypeOK, HostTypeOK, ConsoleTypeOK
<1>6. keepAge'[h] = keepAge[h] + 1
  <2>1. keepAge[h] <= KeepaliveInterval + nowAge[h]
        BY <1>4 DEF TypeInv, WaitOK
  <2>2. QED BY <1>4, <1>5, <2>1 DEF AtMost, KeepCap
<1>7. Flying(h)' <=> Flying(h)
  <2>1. \A d \in net : d \in Datagrams
        BY DEF TypeInv, TypeOK, WireTypeOK
  <2>2. Flying(h)' = \E d \in net' : d.kind = "HELLO" /\ d.host = h
        BY DEF Flying
  <2>3. ASSUME NEW d \in net
        PROVE  LET e == [d EXCEPT !.age = @ + 1]
               IN  e \in net' /\ e.kind = d.kind /\ e.host = d.host
        BY <1>1, <2>1 DEF Aged, Datagrams
  <2>4. \A e \in net' : \E d \in net : e.kind = d.kind /\ e.host = d.host
        BY <1>1, <2>1 DEF Aged, Datagrams
  <2>5. QED BY <2>2, <2>3, <2>4 DEF Flying
<1>8. Due(h)' = Due(h) + 1
  <2>1. Unheard(h)' = Unheard(h)
        BY <1>1, <1>7 DEF Unheard
  <2>2. Unheard(h) * Period \in Nat
        BY UnheardType, PeriodStep
  <2>3. QED BY <1>5, <1>6, <2>1, <2>2 DEF Due, Period
<1>9. upAge[h] <= Due(h) \/ helloAge <= Due(h)
      BY <1>3 DEF KeepInv, Margin
<1>10. Due(h) \in Nat
       BY UnheardType
<1>11. upAge'[h] <= upAge[h] + 1 /\ helloAge' <= helloAge + 1
       BY <1>1, <1>4, <1>5 DEF AtMost
<1>12. upAge'[h] \in Nat /\ helloAge' \in Nat
       BY DEF TypeInv, TypeOK, ConsoleTypeOK
<1>13. QED BY <1>5, <1>8, <1>9, <1>10, <1>11, <1>12

LEMMA KeepNext ==
    TypeInv /\ ReleaseInv /\ KeepInv /\ [Next]_vars => KeepInv'
<1> SUFFICES ASSUME TypeInv, ReleaseInv, KeepInv, [Next]_vars PROVE KeepInv'
    OBVIOUS
<1> USE ConstantTypes, CapTypes
<1>0. TypeInv'
      BY TypeNext
<1>1. ASSUME g_state' = "STREAMING" => g_state = "STREAMING",
             UNCHANGED <<helloAge, hostVars, upAge>>,
             \A h \in Hosts : g_state = "STREAMING" =>
                 Unheard(h) <= Unheard(h)'
      PROVE  KeepInv'
  <2>1. UpOK' /\ UNCHANGED <<phase, keepAge>>
        BY <1>1 DEF hostVars, KeepInv, UpOK, Streams
  <2>2. ASSUME NEW h \in Hosts, Streams(h), g_state' = "STREAMING"
        PROVE  upAge'[h] <= Due(h)' \/ helloAge' <= Due(h)'
    <3>1. /\ upAge[h] \in Nat /\ helloAge \in Nat /\ Due(h) \in Nat
          /\ keepAge[h] \in Nat
          BY UnheardType DEF TypeInv, TypeOK, ConsoleTypeOK
    <3>2. Due(h) <= Due(h)'
          BY <1>0, <1>1, <2>1, <2>2, <3>1, DueMono
    <3>3. upAge[h] <= Due(h) \/ helloAge <= Due(h)
          BY <1>1, <2>2 DEF KeepInv, Margin
    <3>4. Due(h)' \in Nat
      <4>1. lost'[h] \in Nat /\ keepAge'[h] \in Nat
            BY <1>0 DEF TypeInv, TypeOK, HostTypeOK
      <4>2. Unheard(h)' \in Nat
            BY <4>1 DEF Unheard
      <4>3. Unheard(h)' * Period \in Nat
            BY <4>2, PeriodStep
      <4>4. Due(h)' = Unheard(h)' * Period + keepAge'[h]
            BY DEF Due, Period
      <4>5. QED BY <4>1, <4>3, <4>4
    <3>5. QED BY <1>1, <3>1, <3>2, <3>3, <3>4
  <2>3. QED BY <2>1, <2>2 DEF KeepInv, Margin, Streams
<1>2. CASE Frame
  <2>1. \A d \in net : d \in net'
        BY <1>2 DEF Frame, TickNoHello, TickWaiting, TickBind, TickListenIdle,
           TickStreamInput, TickStreamExpire
  <2>2. /\ UNCHANGED <<helloAge, hostVars, upAge, lost>>
        /\ g_state' = "STREAMING" => g_state = "STREAMING"
        BY <1>2 DEF Frame, envVars, TickNoHello, TickWaiting, TickBind,
           TickListenIdle, TickStreamInput, TickStreamExpire
  <2>3. \A h \in Hosts : Unheard(h) <= Unheard(h)'
    <3> SUFFICES ASSUME NEW h \in Hosts PROVE Unheard(h) <= Unheard(h)'
        OBVIOUS
    <3>1. Flying(h) => Flying(h)'
          BY <2>1 DEF Flying
    <3>2. lost[h] \in Nat
          BY DEF TypeInv, TypeOK
    <3>3. QED BY <2>2, <3>1, <3>2 DEF Unheard
  <2>4. QED BY <1>1, <2>2, <2>3
<1>3. CASE Relaunch
      BY <1>3 DEF Relaunch, ConsoleRelaunch, hostVars, envVars, KeepInv,
         Margin, UpOK, Streams
<1>4. CASE Tick
      BY <1>0, <1>4, MarginTick
<1>5. ASSUME NEW e \in net, Hear(e) PROVE KeepInv'
  <2>1. helloAge' = 0 /\ UNCHANGED <<hostVars, upAge>>
        BY <1>5 DEF Hear, TickHello, TickListenHello, TickStreamHello,
           TakeHello
  <2>2. UpOK'
        BY <2>1 DEF hostVars, KeepInv, UpOK, Streams
  <2>3. ASSUME NEW h \in Hosts PROVE 0 <= Due(h)'
    <3>1. lost'[h] \in Nat /\ keepAge'[h] \in Nat
          BY <1>0 DEF TypeInv, TypeOK, HostTypeOK
    <3>2. Unheard(h)' \in Nat
          BY <3>1 DEF Unheard
    <3>3. Unheard(h)' * Period \in Nat
          BY <3>2, PeriodStep
    <3>4. Due(h)' = Unheard(h)' * Period + keepAge'[h]
          BY DEF Due, Period
    <3>5. QED BY <3>1, <3>3, <3>4
  <2>4. QED BY <2>1, <2>2, <2>3 DEF KeepInv, Margin
<1>6. ASSUME NEW e \in net, Lose(e) PROVE KeepInv'
  <2>1. /\ UNCHANGED <<g_state, helloAge, hostVars, upAge>>
        /\ net' = net \ {e}
        BY <1>6 DEF Lose, consoleVars
  <2>2. ASSUME NEW h \in Hosts, Streams(h), g_state = "STREAMING"
        PROVE  Unheard(h) <= Unheard(h)'
    <3>1. lost \in [Hosts -> 0..MaxLoss]
          BY DEF TypeInv, TypeOK
    <3>2. CASE e.kind = "HELLO" /\ e.host = h
      <4>1. lost'[h] = lost[h] + 1
            BY <1>6, <2>2, <3>1, <3>2 DEF Lose, Counts
      <4>2. QED BY <3>1, <4>1 DEF Unheard
    <3>3. CASE ~(e.kind = "HELLO" /\ e.host = h)
      <4>1. Flying(h) => Flying(h)'
            BY <2>1, <3>3 DEF Flying
      <4>2. lost'[h] = lost[h]
            BY <1>6, <3>1, <3>3 DEF Lose, Counts
      <4>3. QED BY <3>1, <4>1, <4>2 DEF Unheard
    <3>4. QED BY <3>2, <3>3
  <2>3. UpOK' /\ UNCHANGED <<phase, keepAge>>
        BY <2>1 DEF hostVars, KeepInv, UpOK, Streams
  <2>4. ASSUME NEW h \in Hosts, Streams(h), g_state = "STREAMING"
        PROVE  upAge[h] <= Due(h)' \/ helloAge <= Due(h)'
    <3>1. Due(h) <= Due(h)'
          BY <1>0, <2>2, <2>3, <2>4, UnheardType, DueMono
    <3>2. upAge[h] <= Due(h) \/ helloAge <= Due(h)
          BY <2>4 DEF KeepInv, Margin
    <3>3. upAge[h] \in Nat /\ helloAge \in Nat /\ Due(h) \in Nat
          BY UnheardType DEF TypeInv, TypeOK, ConsoleTypeOK
    <3>4. Due(h)' \in Nat
      <4>1. lost'[h] \in Nat /\ keepAge'[h] \in Nat
            BY <1>0 DEF TypeInv, TypeOK, HostTypeOK
      <4>2. Unheard(h)' \in Nat
            BY <4>1 DEF Unheard
      <4>3. Unheard(h)' * Period \in Nat
            BY <4>2, PeriodStep
      <4>4. Due(h)' = Unheard(h)' * Period + keepAge'[h]
            BY DEF Due, Period
      <4>5. QED BY <4>1, <4>3, <4>4
    <3>5. QED BY <3>1, <3>2, <3>3, <3>4
  <2>5. QED BY <2>1, <2>3, <2>4 DEF KeepInv, Margin, Streams
<1>7. ASSUME NEW h \in Hosts, HostStep(h) PROVE KeepInv'
      BY <1>0, <1>7, MarginHost
<1>8. CASE UNCHANGED vars
  <2>1. UNCHANGED <<g_state, helloAge, hostVars, upAge, lost, net>>
        BY <1>8 DEF vars, consoleVars, envVars
  <2>2. \A h \in Hosts : Unheard(h)' = Unheard(h)
        BY <2>1 DEF Unheard, Flying
  <2>3. \A h \in Hosts : Unheard(h) <= Unheard(h)'
        BY <2>2, UnheardType
  <2>4. QED BY <1>1, <2>1, <2>3
<1>9. QED BY <1>2, <1>3, <1>4, <1>5, <1>6, <1>7, <1>8, NextCases

LEMMA KeepInit == Init => KeepInv
BY DEF Init, ConsoleInit, HostInit, KeepInv, Margin, UpOK, Streams

\* The deadline lies within the Window.
LEMMA DueWindow ==
    ASSUME TypeInv, ReleaseInv, NEW h \in Hosts, Streams(h)
    PROVE  Due(h) <= Window
<1> USE ConstantTypes, CapTypes
<1>1. Unheard(h) \in Nat /\ keepAge[h] \in 0..KeepCap
      BY UnheardType DEF TypeInv, TypeOK, HostTypeOK
<1>2. /\ Unheard(h) * Period \in Nat /\ MaxLoss * Period \in Nat
      /\ (MaxLoss + 1) * Period = MaxLoss * Period + Period
      BY <1>1, PeriodStep
<1>3. CASE Flying(h)
  <2>1. keepAge[h] <= MaxDelay
    <3>1. PICK d \in net : d.kind = "HELLO" /\ d.host = h
          BY <1>3 DEF Flying
    <3>2. sentAge[h] <= d.age /\ keepAge[h] <= sentAge[h]
          BY <3>1 DEF ReleaseInv, SentFirst, KeepSent
    <3>3. sentAge[h] \in Nat /\ d.age \in 0..MaxDelay
          BY DEF TypeInv, TypeOK, WireTypeOK, Datagrams
    <3>4. QED BY <1>1, <3>2, <3>3
  <2>2. Unheard(h) * Period <= (MaxLoss + 1) * Period
        BY <1>1, UnheardType, PeriodMono
  <2>3. QED BY <1>1, <1>2, <2>1, <2>2 DEF Due, Window
<1>4. CASE ~Flying(h)
  <2>1. Unheard(h) * Period <= MaxLoss * Period
        BY <1>1, <1>4, UnheardType, PeriodMono
  <2>2. keepAge[h] <= Period
        BY <1>1 DEF KeepCap, Period
  <2>3. QED BY <1>1, <1>2, <2>1, <2>2 DEF Due, Window
<1>5. QED BY <1>3, <1>4

\* The keepalive holds the session, for every choice of timers, delays and
\* losses that leaves the margin MarginAssumption asks for.
THEOREM KeepaliveSafe == Spec => KeepaliveHolds
<1> DEFINE Held(h) ==
        Streams(h) /\ upAge[h] > Window
            => ~(g_state = "STREAMING" /\ g_state' = "LISTENING")
<1>1. TypeInv /\ ReleaseInv /\ KeepInv /\ [Next]_vars => \A h \in Hosts : Held(h)
  <2> SUFFICES ASSUME TypeInv, ReleaseInv, KeepInv, [Next]_vars,
                      NEW h \in Hosts, Streams(h), upAge[h] > Window,
                      g_state = "STREAMING", g_state' = "LISTENING"
               PROVE  FALSE
      OBVIOUS
  <2>1. helloAge > HelloTimeout
    <3>1. ASSUME NEW e \in net, Hear(e) \/ Lose(e) PROVE g_state' # "LISTENING"
          BY <3>1 DEF Hear, TickHello, TickListenHello, TickStreamHello, Lose,
             consoleVars
    <3>2. ASSUME NEW g \in Hosts, HostStep(g) PROVE g_state' # "LISTENING"
          BY <3>2, HostSent DEF consoleVars
    <3>3. Frame
          BY <3>1, <3>2, NextCases
          DEF Relaunch, ConsoleRelaunch, Tick, vars, consoleVars
    <3>4. QED BY <3>3 DEF Frame, TickNoHello, TickWaiting, TickBind,
             TickListenIdle, TickStreamInput, TickStreamExpire
  <2>2. upAge[h] <= Due(h) \/ helloAge <= Due(h)
        BY DEF KeepInv, Margin
  <2>3. Due(h) <= Window /\ Due(h) \in Nat
        BY DueWindow, UnheardType
  <2>4. upAge[h] \in Nat /\ helloAge \in Nat
        BY CapTypes DEF TypeInv, TypeOK, ConsoleTypeOK
  <2>5. QED BY <2>1, <2>2, <2>3, <2>4, MarginAssumption, ConstantTypes, CapTypes
<1>2. Spec => []KeepInv
      BY KeepInit, KeepNext, TypeCorrect, ReleaseSafe, PTL DEF Spec
<1>3. QED
  <2>1. TypeInv /\ ReleaseInv /\ KeepInv /\ [Next]_vars
            => [\A h \in Hosts : Held(h)]_vars
        BY <1>1
  <2>2. QED BY <2>1, <1>2, TypeCorrect, ReleaseSafe, PTL
           DEF Spec, KeepaliveHolds

-----------------------------------------------------------------------------
(***************************************************************************)
(* The session implements StreamLease: a HELLO the console takes is a      *)
(* Claim, the time-out an Expire, a unit a Pass, and a host that enters or *)
(* leaves its loop a Believe or a Part; every other step stutters.         *)
(***************************************************************************)
owner == IF g_state = "STREAMING" THEN g_pcAddr ELSE NoHost
believers == {h \in Hosts : Streams(h)}

LEMMA LeaseStep ==
    TypeInv /\ ReleaseInv /\ PhantomInv /\ [Next]_vars
        => [Lease!LeaseNext]_<<owner, helloAge, greeted, believers>>
<1> SUFFICES ASSUME TypeInv, ReleaseInv, PhantomInv, [Next]_vars
             PROVE  \/ Lease!LeaseNext
                    \/ UNCHANGED <<owner, helloAge, greeted, believers>>
    OBVIOUS
<1> USE ConstantTypes, CapTypes
<1>1. CASE Frame
  <2>1. UNCHANGED <<phase, helloAge, greeted, g_pcAddr>>
        BY <1>1 DEF Frame, hostVars, TickNoHello, TickWaiting, TickBind,
           TickListenIdle, TickStreamInput, TickStreamExpire
  <2>2. UNCHANGED believers
        BY <2>1 DEF believers, Streams
  <2>3. CASE TickStreamExpire
    <3>1. g_pcAddr # NoHost
          BY <2>3, NoHostAssumption DEF TickStreamExpire, TypeInv, TypeOK,
             ConsoleTypeOK, TargetOK
    <3>2. Lease!Expire
          BY <2>1, <2>2, <2>3, <3>1
          DEF Lease!Expire, TickStreamExpire, believers
    <3>3. QED BY <3>2 DEF Lease!LeaseNext
  <2>4. CASE ~TickStreamExpire
    <3>1. g_state' = "STREAMING" <=> g_state = "STREAMING"
          BY <1>1, <2>4 DEF Frame, TickNoHello, TickWaiting, TickBind,
             TickListenIdle, TickStreamInput
    <3>2. QED BY <2>1, <2>2, <3>1 DEF owner
  <2>5. QED BY <2>3, <2>4
<1>2. CASE Relaunch
  <2>1. /\ g_state' # "STREAMING" /\ helloAge' = HelloTimeout + 1
        /\ UNCHANGED <<greeted, phase>>
        BY <1>2 DEF Relaunch, ConsoleRelaunch, hostVars, HelloCap
  <2>2. Lease!Forget
        BY <2>1 DEF Lease!Forget, Streams
  <2>3. QED BY <2>2 DEF Lease!LeaseNext
<1>3. CASE Tick
  <2>1. /\ UNCHANGED <<g_state, g_pcAddr, greeted, phase>> /\ framed
        /\ helloAge' = AtMost(HelloCap, helloAge + 1)
        BY <1>3 DEF Tick, MayPass
  <2>2. helloAge \in 0..HelloCap
        BY DEF TypeInv, TypeOK, ConsoleTypeOK
  <2>3. helloAge' = IF helloAge > HelloTimeout THEN helloAge ELSE helloAge + 1
        BY <2>1, <2>2 DEF AtMost, HelloCap
  <2>4. g_state = "STREAMING" => helloAge <= HelloTimeout
        BY <2>1 DEF ReleaseInv, Punctual
  <2>5. Lease!Pass
        BY <2>1, <2>3, <2>4 DEF Lease!Pass, Streams
  <2>6. QED BY <2>5 DEF Lease!LeaseNext
<1>4. ASSUME NEW e \in net, Hear(e)
      PROVE  Lease!LeaseNext
  <2>1. e.host \in Hosts
        BY DEF TypeInv, TypeOK, WireTypeOK, Datagrams
  <2>2. /\ g_state' = "STREAMING" /\ g_pcAddr' = e.host /\ helloAge' = 0
        /\ greeted' = greeted \cup {e.host} /\ UNCHANGED phase
        BY <1>4 DEF Hear, hostVars, TickHello, TickListenHello,
           TickStreamHello, TakeHello
  <2>3. Lease!Claim(e.host)
        BY <2>2 DEF Lease!Claim, Streams
  <2>4. QED BY <2>1, <2>3 DEF Lease!LeaseNext
<1>5. ASSUME NEW e \in net, Lose(e)
      PROVE  UNCHANGED <<owner, helloAge, greeted, believers>>
      BY <1>5 DEF Lose, consoleVars, hostVars, owner, believers, Streams
<1>6. ASSUME NEW h \in Hosts, HostStep(h)
      PROVE  \/ Lease!LeaseNext
             \/ UNCHANGED <<owner, helloAge, greeted, believers>>
  <2>1. UNCHANGED <<owner, helloAge, greeted, g_state, g_pcAddr>>
        BY <1>6, HostSent DEF consoleVars, owner
  <2>2. \A g \in Hosts \ {h} : Streams(g)' <=> Streams(g)
        BY <1>6, HostPhase DEF Streams
  <2>3. CASE Streams(h)' /\ ~Streams(h)
    <3>1. h \in greeted
          BY <1>6, <2>3, HostPhase DEF PhantomInv, AcksEarned
    <3>2. believers' = believers \cup {h}
          BY <2>2, <2>3 DEF believers
    <3>3. Lease!Believe(h)
          BY <2>1, <3>1, <3>2 DEF Lease!Believe, believers
    <3>4. QED BY <3>3 DEF Lease!LeaseNext
  <2>4. CASE ~Streams(h)' /\ Streams(h)
    <3>1. believers' = believers \ {h}
          BY <2>2, <2>4 DEF believers
    <3>2. Lease!Part(h)
          BY <2>1, <3>1 DEF Lease!Part, believers
    <3>3. QED BY <3>2 DEF Lease!LeaseNext
  <2>5. CASE Streams(h)' <=> Streams(h)
    <3>1. believers' = believers
          BY <2>2, <2>5 DEF believers
    <3>2. QED BY <2>1, <3>1
  <2>6. QED BY <2>3, <2>4, <2>5
<1>7. CASE UNCHANGED vars
      BY <1>7 DEF vars, consoleVars, hostVars, owner, believers, Streams
<1>8. QED BY <1>1, <1>2, <1>3, <1>4, <1>5, <1>6, <1>7, NextCases

\* The session protocol implements the lease.
THEOREM LeaseImplemented == Spec => ImplementsLease
<1>1. Init => Lease!LeaseInit
      BY DEF Init, ConsoleInit, HostInit, Lease!LeaseInit, HelloCap, Streams
<1>2. Spec => []PhantomInv
  <2>1. Init => PhantomInv
        BY DEF Init, HostInit, PhantomInv, AcksEarned, NoPhantomSession, Streams
  <2>2. QED BY <2>1, PhantomNext, TypeCorrect, PTL DEF Spec
<1>3. QED BY <1>1, <1>2, LeaseStep, TypeCorrect, ReleaseSafe, PTL
         DEF Spec, ImplementsLease, Lease!LeaseSpec, Lease!leaseVars, owner,
             believers

-----------------------------------------------------------------------------
(***************************************************************************)
(* The end of an idle receiver.  A poll that begins after IdleSeen units   *)
(* of silence ends the loop unless a datagram ends the poll.  An ACK does  *)
(* so only within a round trip of the HELLO it answers, and of those one   *)
(* at most is sent after IdleSeen: the first, and it finds no ACK in       *)
(* flight.  Before that HELLO (TopInTime, PollInTime) the silence is at    *)
(* most IdleSeen, after it no older than it by more.  A datagram that is   *)
(* refused sets the silence back below IdleSeen.                           *)
(***************************************************************************)
\* An ACK has arrived before the next keepalive is sent.
RoundTrip == 2 * MaxDelay < KeepaliveInterval

\* From this silence on every quiet poll ends the loop.
IdleSeen == AutoTerminate + PollTimeout

\* An ACK answers a HELLO that was in flight for MaxDelay at most.
AckOwed ==
    \A d \in net : d.kind = "ACK" => sentAge[d.host] <= MaxDelay + d.age

\* last_rx is no later than the last input.
RxBehind ==
    \A h \in Hosts : Streams(h) => silent[h] <= rxAge[h] \/ rxAge[h] = RxCap

\* Outside its loop a receiver is not silent.
SilentIn == \A h \in Hosts : ~Streams(h) => silent[h] = 0

\* The head of the loop: silence is not yet seen, or the last HELLO is so
\* recent that its ACK ended the poll, and was sent by then.
TopInTime ==
    \A h \in Hosts : phase[h] = "top" =>
        \/ silent[h] < IdleSeen
        \/ sentAge[h] <= 2 * MaxDelay /\ silent[h] < IdleSeen + sentAge[h]

\* The same of the moment in which the poll began.
PollInTime ==
    \A h \in Hosts : phase[h] = "poll" =>
        /\ nowAge[h] <= sentAge[h]
        /\ \/ silent[h] < IdleSeen + nowAge[h]
           \/ /\ sentAge[h] <= 2 * MaxDelay + nowAge[h]
              /\ silent[h] < IdleSeen + sentAge[h]

IdleInv == AckOwed /\ RxBehind /\ SilentIn /\ TopInTime /\ PollInTime

LEMMA IdleInit == Init => IdleInv
BY DEF Init, HostInit, IdleInv, AckOwed, RxBehind, SilentIn, TopInTime,
   PollInTime, Streams

\* What the proofs need of the types
LEMMA IdleTypes ==
    ASSUME TypeInv, NEW h \in Hosts
    PROVE  /\ silent[h] \in 0..IdleEnd /\ sentAge[h] \in 0..SentCap
           /\ nowAge[h] \in Nat /\ rxAge[h] \in 0..RxCap /\ keepAge[h] \in Nat
           /\ phase[h] = "poll" => nowAge[h] <= PollTimeout
           /\ phase[h] = "top" => nowAge[h] = 0
BY DEF TypeInv, TypeOK, HostTypeOK, WaitOK, NowCap, KeepCap

\* SentCap is beyond every age of a HELLO that IdleInv speaks of.
LEMMA SentRoom == PollTimeout <= SentCap /\ 2 * MaxDelay + PollTimeout < SentCap
<1> USE ConstantTypes, CapTypes
<1>1. (MaxLoss + 1) * Period >= Period
      BY ONLY ConstantTypes, CapTypes, SMT
<1>2. Window >= Period + MaxDelay
      BY <1>1 DEF Window
<1>3. QED BY <1>2, MarginAssumption DEF SentCap, Period

\* A step that touches no clock of a receiver and puts no ACK on the wire but
\* for a HELLO it took from there
LEMMA IdleConsole ==
    ASSUME TypeInv, ReleaseInv, IdleInv,
           UNCHANGED <<hostVars, sentAge, silent>>,
           \A d \in net' :
               \/ d \in net
               \/ d.kind # "ACK"
               \/ \E e \in net : e.kind = "HELLO" /\ d = Datagram("ACK", e.host)
    PROVE  IdleInv'
<1>1. ASSUME NEW d \in net', d.kind = "ACK"
      PROVE  sentAge'[d.host] <= MaxDelay + d.age
  <2>1. CASE d \in net
        BY <1>1, <2>1 DEF IdleInv, AckOwed
  <2>2. ASSUME NEW e \in net, e.kind = "HELLO", d = Datagram("ACK", e.host)
        PROVE  sentAge'[d.host] <= MaxDelay + d.age
    <3>1. e.host \in Hosts /\ e.age \in 0..MaxDelay
          BY DEF TypeInv, TypeOK, WireTypeOK, Datagrams
    <3>2. sentAge[e.host] <= e.age /\ sentAge[e.host] \in Nat
          BY <2>2, <3>1, CapTypes DEF ReleaseInv, SentFirst, TypeInv, TypeOK
    <3>3. d.host = e.host /\ d.age = 0
          BY <2>2 DEF Datagram
    <3>4. QED BY <3>1, <3>2, <3>3, ConstantTypes
  <2>3. QED BY <1>1, <2>1, <2>2
<1>2. AckOwed'
      BY <1>1 DEF AckOwed
<1>3. (RxBehind /\ SilentIn /\ TopInTime /\ PollInTime)'
      BY DEF IdleInv, RxBehind, SilentIn, TopInTime, PollInTime, hostVars,
         Streams
<1>4. QED BY <1>2, <1>3 DEF IdleInv

LEMMA IdleTick ==
    ASSUME TypeInv, IdleInv, Tick
    PROVE  IdleInv'
<1> USE ConstantTypes, CapTypes
<1>1. /\ net' = Aged /\ UNCHANGED phase
      /\ sentAge' = [h \in Hosts |-> AtMost(SentCap, sentAge[h] + 1)]
      BY DEF Tick
<1>2. ASSUME NEW h \in Hosts
      PROVE  sentAge'[h] = AtMost(SentCap, sentAge[h] + 1)
      BY <1>1
<1>3. AckOwed'
  <2>1. ASSUME NEW d \in net, d.kind = "ACK"
        PROVE  sentAge'[d.host] <= MaxDelay + d.age + 1
    <3>1. d.host \in Hosts /\ d.age \in Nat
          BY DEF TypeInv, TypeOK, WireTypeOK, Datagrams
    <3>2. sentAge[d.host] <= MaxDelay + d.age /\ sentAge[d.host] \in Nat
          BY <2>1, <3>1, IdleTypes DEF IdleInv, AckOwed
    <3>3. sentAge'[d.host] <= sentAge[d.host] + 1
          BY <1>2, <3>1, <3>2 DEF AtMost
    <3>4. sentAge'[d.host] \in Nat
          BY <1>2, <3>1, <3>2 DEF AtMost
    <3>5. QED BY <3>1, <3>2, <3>3, <3>4
  <2>2. \A d \in net : d \in Datagrams
        BY DEF TypeInv, TypeOK, WireTypeOK
  <2>3. ASSUME NEW e \in net', e.kind = "ACK"
        PROVE  sentAge'[e.host] <= MaxDelay + e.age
    <3>1. PICK d \in net : e = [d EXCEPT !.age = @ + 1]
          BY <1>1 DEF Aged
    <3>2. /\ d.kind = "ACK" /\ d.host = e.host /\ e.age = d.age + 1
          /\ d.age \in Nat
          BY <2>2, <2>3, <3>1 DEF Datagrams
    <3>3. sentAge'[d.host] <= MaxDelay + d.age + 1
          BY <2>1, <3>2
    <3>4. QED BY <3>2, <3>3
  <2>4. QED BY <2>3 DEF AckOwed
<1>4. ASSUME NEW h \in Hosts, Streams(h)
      PROVE  /\ phase[h] = "poll" /\ nowAge[h] < PollTimeout
             /\ nowAge'[h] = nowAge[h] + 1
             /\ silent'[h] = AtMost(IdleEnd, silent[h] + 1)
             /\ rxAge'[h] = AtMost(RxCap, rxAge[h] + 1)
      BY <1>4 DEF Tick, MayPass, Streams
<1>5. RxBehind'
  <2> SUFFICES ASSUME NEW h \in Hosts, Streams(h)
               PROVE  silent'[h] <= rxAge'[h] \/ rxAge'[h] = RxCap
      BY <1>1 DEF RxBehind, Streams
  <2>1. /\ silent'[h] = AtMost(IdleEnd, silent[h] + 1)
        /\ rxAge'[h] = AtMost(RxCap, rxAge[h] + 1)
        /\ silent[h] <= rxAge[h] \/ rxAge[h] = RxCap
        /\ silent[h] \in Nat /\ rxAge[h] \in 0..RxCap
        BY <1>4, IdleTypes DEF IdleInv, RxBehind
  <2>2. QED BY <2>1 DEF AtMost
<1>6. TopInTime'
      BY <1>1, <1>4 DEF TopInTime, Streams
<1>7. PollInTime'
  <2> SUFFICES ASSUME NEW h \in Hosts, phase[h] = "poll"
               PROVE  /\ nowAge'[h] <= sentAge'[h]
                      /\ \/ silent'[h] < IdleSeen + nowAge'[h]
                         \/ /\ sentAge'[h] <= 2 * MaxDelay + nowAge'[h]
                            /\ silent'[h] < IdleSeen + sentAge'[h]
      BY <1>1 DEF PollInTime
  <2>1. /\ nowAge[h] < PollTimeout /\ nowAge'[h] = nowAge[h] + 1
        /\ silent'[h] = AtMost(IdleEnd, silent[h] + 1)
        BY <1>4 DEF Streams
  <2>2. /\ silent[h] \in Nat /\ sentAge[h] \in 0..SentCap /\ nowAge[h] \in Nat
        /\ IdleSeen \in Nat
        BY IdleTypes DEF IdleSeen
  <2>3. silent'[h] <= silent[h] + 1 /\ silent'[h] \in Nat
        BY <2>1, <2>2 DEF AtMost
  <2>4. nowAge'[h] <= sentAge'[h]
    <3>1. nowAge[h] <= sentAge[h]
          BY DEF IdleInv, PollInTime
    <3>2. QED BY <1>2, <2>1, <2>2, <3>1, SentRoom DEF AtMost
  <2>5. CASE silent[h] < IdleSeen + nowAge[h]
        BY <2>1, <2>2, <2>3, <2>4, <2>5
  <2>6. CASE /\ sentAge[h] <= 2 * MaxDelay + nowAge[h]
             /\ silent[h] < IdleSeen + sentAge[h]
    <3>1. sentAge'[h] = sentAge[h] + 1
          BY <1>2, <2>1, <2>2, <2>6, SentRoom DEF AtMost
    <3>2. QED BY <2>1, <2>2, <2>3, <2>4, <2>6, <3>1
  <2>7. QED BY <2>5, <2>6 DEF IdleInv, PollInTime
<1>8. SilentIn'
      BY <1>1 DEF Tick, SilentIn, Streams
<1>9. QED BY <1>3, <1>5, <1>6, <1>7, <1>8 DEF IdleInv

\* A step of h leaves the silence and the idle clock of the others alone.
LEMMA IdleOthers ==
    ASSUME TypeInv, NEW h \in Hosts, HostStep(h), NEW g \in Hosts, g # h
    PROVE  /\ phase'[g] = phase[g] /\ nowAge'[g] = nowAge[g]
           /\ silent'[g] = silent[g] /\ rxAge'[g] = rxAge[g]
           /\ sentAge'[g] = sentAge[g]
<1>1. /\ HostTypeOK /\ silent \in [Hosts -> Nat] /\ sentAge \in [Hosts -> Nat]
      BY CapTypes DEF TypeInv, TypeOK
<1>2. \E p \in Phase : Goto(h, p)
      BY DEF HostStep, HostStart, Start, HostGreet, Greet, HostAwaitTimeout,
         AwaitTimeout, HostTop, Top, HostPollQuiet, PollQuiet, HostRefuse,
         Refuse, AwaitRefused, PollRefused, HostKill, Kill, HostTake,
         HostReceive, AwaitOther, AwaitAck, PollAck, PollInput, NextAttempt,
         Leave, Phase
<1>3. phase'[g] = phase[g] /\ nowAge'[g] = nowAge[g]
      BY <1>1, <1>2, GotoType
<1>4. /\ \E t \in 0..IdleEnd : silent' = [silent EXCEPT ![h] = t]
      /\ sentAge' = sentAge \/ sentAge' = [sentAge EXCEPT ![h] = 0]
      BY SilentType
      DEF HostStep, HostStart, HostGreet, HostAwaitTimeout, HostTop,
          HostPollQuiet, HostRefuse, HostKill, HostTake, Track
<1>5. silent'[g] = silent[g] /\ sentAge'[g] = sentAge[g]
      BY <1>1, <1>4
<1>6. rxAge'[g] = rxAge[g]
      BY <1>1 DEF HostStep, HostStart, Start, HostGreet, Greet,
         HostAwaitTimeout, AwaitTimeout, HostTop, Top, HostPollQuiet,
         PollQuiet, HostRefuse, Refuse, AwaitRefused, PollRefused, HostKill,
         Kill, HostTake, HostReceive, AwaitOther, AwaitAck, PollAck,
         PollInput, NextAttempt, Leave, HostTypeOK
<1>7. QED BY <1>3, <1>5, <1>6

\* The part of IdleInv that is about host h
IdleAt(h) ==
    /\ Streams(h) => silent[h] <= rxAge[h] \/ rxAge[h] = RxCap
    /\ ~Streams(h) => silent[h] = 0
    /\ phase[h] = "top" =>
          \/ silent[h] < IdleSeen
          \/ sentAge[h] <= 2 * MaxDelay /\ silent[h] < IdleSeen + sentAge[h]
    /\ phase[h] = "poll" =>
          /\ nowAge[h] <= sentAge[h]
          /\ \/ silent[h] < IdleSeen + nowAge[h]
             \/ /\ sentAge[h] <= 2 * MaxDelay + nowAge[h]
                /\ silent[h] < IdleSeen + sentAge[h]

LEMMA IdleAtAll == IdleInv <=> AckOwed /\ \A h \in Hosts : IdleAt(h)
BY DEF IdleInv, RxBehind, SilentIn, TopInTime, PollInTime, IdleAt

\* What a step of h in its loop does to the four clocks
LEMMA IdleSteps ==
    ASSUME TypeInv, NEW h \in Hosts, HostStep(h), IdleAt(h), Streams(h)'
    PROVE  \/ \* it enters the loop
              /\ phase'[h] = "top" /\ silent'[h] = 0
           \/ \* a poll begins, without a keepalive
              /\ phase[h] = "top" /\ phase'[h] = "poll" /\ nowAge'[h] = 0
              /\ silent'[h] = silent[h] /\ rxAge'[h] = rxAge[h]
              /\ sentAge'[h] = sentAge[h]
           \/ \* ... with one
              /\ phase[h] = "top" /\ phase'[h] = "poll" /\ nowAge'[h] = 0
              /\ silent'[h] = silent[h] /\ rxAge'[h] = rxAge[h]
              /\ keepAge[h] >= KeepaliveInterval /\ sentAge'[h] = 0
           \/ \* a quiet poll ends before the idle limit
              /\ phase[h] = "poll" /\ phase'[h] = "top"
              /\ silent'[h] = silent[h] /\ rxAge'[h] = rxAge[h]
              /\ sentAge'[h] = sentAge[h]
              /\ rxAge[h] - nowAge[h] < AutoTerminate
           \/ \* an ACK ends a poll
              /\ phase[h] = "poll" /\ phase'[h] = "top"
              /\ silent'[h] = silent[h] /\ rxAge'[h] = rxAge[h]
              /\ sentAge'[h] = sentAge[h]
              /\ \E d \in net : d.kind = "ACK" /\ d.host = h
           \/ \* something that is refused ends a poll
              /\ phase[h] = "poll" /\ phase'[h] = "top"
              /\ silent'[h] = AtMost(AutoTerminate, silent[h])
              /\ rxAge'[h] = rxAge[h]
<1>0. NoInput(h) => silent'[h] = silent[h]
      BY DEF NoInput, Listen, TypeInv, TypeOK
<1> USE DEF Track, Goto, Streams
<1>1. /\ HostTypeOK /\ silent \in [Hosts -> Nat] /\ sentAge \in [Hosts -> Nat]
      BY CapTypes DEF TypeInv, TypeOK
<1>2. phase \in [Hosts -> Phase] /\ nowAge \in [Hosts -> 0..NowCap]
      BY <1>1 DEF HostTypeOK
<1>3. /\ ~HostStart(h) /\ ~HostGreet(h) /\ ~HostKill(h)
      /\ ~HostAwaitTimeout(h) /\ ~AwaitRefused(h)
      BY <1>2 DEF HostStart, Start, HostGreet, Greet, HostKill, Kill, Leave,
         HostAwaitTimeout, AwaitTimeout, AwaitRefused, NextAttempt
<1>4. CASE HostTop(h)
  <2>1. /\ phase[h] = "top" /\ phase'[h] = "poll" /\ nowAge'[h] = 0
        /\ silent'[h] = silent[h] /\ rxAge' = rxAge
        BY <1>0, <1>2, <1>4 DEF HostTop, Top
  <2>2. IF KeepaliveDue(h) THEN sentAge' = [sentAge EXCEPT ![h] = 0]
                           ELSE sentAge' = sentAge
        BY <1>2, <1>4 DEF HostTop
  <2>3. QED BY <1>1, <2>1, <2>2 DEF KeepaliveDue
<1>5. CASE HostPollQuiet(h)
  <2>1. ~Leave(h)
        BY <1>2 DEF Leave
  <2>2. /\ phase[h] = "poll" /\ phase'[h] = "top"
        /\ silent'[h] = silent[h] /\ rxAge' = rxAge /\ sentAge' = sentAge
        /\ ~(rxAge[h] - nowAge[h] >= AutoTerminate)
        BY <1>0, <1>2, <1>5, <2>1 DEF HostPollQuiet, PollQuiet
  <2>3. rxAge[h] - nowAge[h] < AutoTerminate
        BY <1>1, <2>2, ConstantTypes, CapTypes DEF HostTypeOK
  <2>4. QED BY <2>2, <2>3
<1>6. ASSUME NEW d \in net, HostTake(h, d)
      PROVE  \/ phase'[h] = "top" /\ silent'[h] = 0
             \/ /\ phase[h] = "poll" /\ phase'[h] = "top"
                /\ silent'[h] = silent[h] /\ rxAge'[h] = rxAge[h]
                /\ sentAge'[h] = sentAge[h]
                /\ d.kind = "ACK" /\ d.host = h
  <2>1. ~AwaitOther(h, d)
        BY <1>2 DEF AwaitOther, NextAttempt, Leave
  <2>2. CASE AwaitAck(h, d)
    <3>1. ~Streams(h) /\ silent[h] = 0
          BY <2>2 DEF AwaitAck, IdleAt
    <3>2. QED BY <1>1, <1>2, <1>6, <2>2, <3>1 DEF AwaitAck, HostTake, Listen
  <2>3. CASE PollAck(h, d)
        BY <1>1, <1>2, <1>6, <2>3 DEF PollAck, HostTake, Listen
  <2>4. CASE PollInput(h, d)
        BY <1>1, <1>2, <1>6, <2>4 DEF PollInput, HostTake, Listen
  <2>5. QED BY <1>6, <2>1, <2>2, <2>3, <2>4 DEF HostTake, HostReceive
<1>7. CASE HostRefuse(h)
  <2>1. PollRefused(h)
        BY <1>3, <1>7 DEF HostRefuse, Refuse
  <2>2. QED BY <1>1, <1>2, <1>7, <2>1 DEF HostRefuse, PollRefused, Listen
<1>8. QED BY <1>3, <1>4, <1>5, <1>6, <1>7 DEF HostStep

LEMMA IdleHost ==
    ASSUME RoundTrip, TypeInv, ReleaseInv, IdleInv, NEW h \in Hosts, HostStep(h)
    PROVE  IdleInv'
<1> USE ConstantTypes, CapTypes
<1>1. TypeInv'
      BY TypeNext DEF Next, HostStep
<1>2. AckOwed'
  <2> SUFFICES ASSUME NEW d \in net', d.kind = "ACK"
               PROVE  sentAge'[d.host] <= MaxDelay + d.age
      BY DEF AckOwed
  <2>1. d \in net
        BY HostSent DEF Datagram
  <2>2. d.host \in Hosts /\ d.age \in Nat
        BY <2>1 DEF TypeInv, TypeOK, WireTypeOK, Datagrams
  <2>3. sentAge'[d.host] <= sentAge[d.host]
        BY <2>2, HostSent
  <2>4. sentAge[d.host] \in Nat /\ sentAge'[d.host] \in Nat
        BY <1>1, <2>2 DEF TypeInv, TypeOK
  <2>5. sentAge[d.host] <= MaxDelay + d.age
        BY <2>1 DEF IdleInv, AckOwed
  <2>6. QED BY <2>2, <2>3, <2>4, <2>5
<1>3. ASSUME NEW g \in Hosts, g # h PROVE IdleAt(g)'
  <2>1. IdleAt(g)
        BY IdleAtAll
  <2>2. QED BY <1>3, <2>1, IdleOthers DEF IdleAt, Streams
<1>4. IdleAt(h)'
  <2>1. IdleAt(h)
        BY IdleAtAll
  <2>2. /\ silent[h] \in Nat /\ sentAge[h] \in Nat /\ nowAge[h] \in Nat
        /\ rxAge[h] \in 0..RxCap /\ keepAge[h] \in Nat
        /\ phase[h] = "poll" => nowAge[h] <= PollTimeout
        /\ phase[h] = "top" => nowAge[h] = 0
        BY IdleTypes
  <2>3. rxAge'[h] \in 0..RxCap /\ IdleSeen \in Nat /\ IdleSeen > 0
    <3>1. rxAge'[h] \in 0..RxCap
          BY <1>1 DEF TypeInv, TypeOK, HostTypeOK
    <3>2. IdleSeen \in Nat /\ IdleSeen > 0
          BY ConstantTypes DEF IdleSeen
    <3>3. QED BY <3>1, <3>2
  <2>4. CASE ~Streams(h)'
    <3>1. silent' = [silent EXCEPT ![h] = 0]
          BY <2>4 DEF HostStep, HostStart, HostGreet, HostAwaitTimeout, HostTop,
             HostPollQuiet, HostRefuse, HostKill, HostTake, NoInput, Listen,
             Refuse
    <3>2. silent'[h] = 0
          BY <3>1 DEF TypeInv, TypeOK
    <3>3. QED BY <2>4, <3>2 DEF IdleAt, Streams
  <2>5. CASE phase'[h] = "top" /\ silent'[h] = 0
        BY <2>3, <2>5 DEF IdleAt, Streams
  <2>6. CASE /\ phase[h] = "top" /\ phase'[h] = "poll" /\ nowAge'[h] = 0
             /\ silent'[h] = silent[h] /\ rxAge'[h] = rxAge[h]
             /\ sentAge'[h] = sentAge[h]
        BY <2>1, <2>2, <2>3, <2>6 DEF IdleAt, Streams
  <2>7. CASE /\ phase[h] = "top" /\ phase'[h] = "poll" /\ nowAge'[h] = 0
             /\ silent'[h] = silent[h] /\ rxAge'[h] = rxAge[h]
             /\ keepAge[h] >= KeepaliveInterval /\ sentAge'[h] = 0
    <3>1. keepAge[h] <= sentAge[h]
          BY <2>7 DEF ReleaseInv, KeepSent, Streams
    <3>2. ~(sentAge[h] <= 2 * MaxDelay)
          BY <2>2, <2>7, <3>1 DEF RoundTrip
    <3>3. silent[h] < IdleSeen
          BY <2>1, <2>7, <3>2 DEF IdleAt
    <3>4. QED BY <2>1, <2>2, <2>3, <2>7, <3>3 DEF IdleAt, Streams
  <2>8. CASE /\ phase[h] = "poll" /\ phase'[h] = "top"
             /\ silent'[h] = silent[h] /\ rxAge'[h] = rxAge[h]
             /\ sentAge'[h] = sentAge[h]
             /\ rxAge[h] - nowAge[h] < AutoTerminate
    <3>1. rxAge[h] < IdleSeen /\ rxAge[h] # RxCap
          BY <2>2, <2>8 DEF IdleSeen, RxCap
    <3>2. silent[h] <= rxAge[h]
          BY <2>1, <2>8, <3>1 DEF IdleAt, Streams
    <3>3. silent[h] < IdleSeen
          BY <2>2, <2>3, <3>1, <3>2
    <3>4. QED BY <2>8, <3>2, <3>3 DEF IdleAt, Streams
  <2>9. CASE /\ phase[h] = "poll" /\ phase'[h] = "top"
             /\ silent'[h] = silent[h] /\ rxAge'[h] = rxAge[h]
             /\ sentAge'[h] = sentAge[h]
             /\ \E d \in net : d.kind = "ACK" /\ d.host = h
    <3>1. PICK d \in net : d.kind = "ACK" /\ d.host = h
          BY <2>9
    <3>2. sentAge[h] <= MaxDelay + d.age /\ d.age \in 0..MaxDelay
          BY <3>1 DEF IdleInv, AckOwed, TypeInv, TypeOK, WireTypeOK, Datagrams
    <3>3. sentAge[h] <= 2 * MaxDelay
          BY <2>2, <3>2
    <3>4. /\ nowAge[h] <= sentAge[h]
          /\ \/ silent[h] < IdleSeen + nowAge[h]
             \/ silent[h] < IdleSeen + sentAge[h]
          BY <2>1, <2>9 DEF IdleAt
    <3>5. silent[h] < IdleSeen + sentAge[h]
          BY <2>2, <2>3, <3>4
    <3>6. silent[h] <= rxAge[h] \/ rxAge[h] = RxCap
          BY <2>1, <2>9 DEF IdleAt, Streams
    <3>7. QED BY <2>9, <3>3, <3>5, <3>6 DEF IdleAt, Streams
  <2>10. CASE /\ phase[h] = "poll" /\ phase'[h] = "top"
              /\ silent'[h] = AtMost(AutoTerminate, silent[h])
              /\ rxAge'[h] = rxAge[h]
    <3>1. /\ silent'[h] \in Nat /\ silent'[h] <= silent[h]
          /\ silent'[h] < IdleSeen
          BY <2>2, <2>10 DEF AtMost, IdleSeen
    <3>2. silent[h] <= rxAge[h] \/ rxAge[h] = RxCap
          BY <2>1, <2>10 DEF IdleAt, Streams
    <3>3. silent'[h] <= rxAge'[h] \/ rxAge'[h] = RxCap
          BY <2>2, <2>3, <2>10, <3>1, <3>2
    <3>4. QED BY <2>10, <3>1, <3>3 DEF IdleAt, Streams
  <2>11. QED BY <2>1, <2>4, <2>5, <2>6, <2>7, <2>8, <2>9, <2>10, IdleSteps
<1>5. \A g \in Hosts : IdleAt(g)'
      BY <1>3, <1>4
<1>6. QED BY <1>2, <1>5, IdleAtAll
         DEF IdleInv, RxBehind, SilentIn, TopInTime, PollInTime, IdleAt

LEMMA IdleNext ==
    ASSUME RoundTrip
    PROVE  TypeInv /\ ReleaseInv /\ IdleInv /\ [Next]_vars => IdleInv'
<1> SUFFICES ASSUME TypeInv, ReleaseInv, IdleInv, [Next]_vars PROVE IdleInv'
    OBVIOUS
<1>1. CASE Frame
  <2>1. \A d \in net' : d \in net \/ d = Datagram("INPUT", g_pcAddr)
        BY <1>1 DEF Frame, TickNoHello, TickWaiting, TickBind, TickListenIdle,
           TickStreamInput, TickStreamExpire
  <2>2. UNCHANGED <<hostVars, sentAge, silent>>
        BY <1>1 DEF Frame, envVars
  <2>3. QED BY <2>1, <2>2, IdleConsole DEF Datagram
<1>2. CASE Relaunch
  <2>1. UNCHANGED <<net, hostVars, sentAge, silent>>
        BY <1>2 DEF Relaunch, ConsoleRelaunch, envVars
  <2>2. QED BY <2>1, IdleConsole
<1>3. CASE Tick
      BY <1>3, IdleTick
<1>4. ASSUME NEW e \in net, Hear(e) PROVE IdleInv'
  <2>1. /\ TickHello(e) /\ UNCHANGED <<hostVars, sentAge, silent>>
        /\ e.kind = "HELLO"
        BY <1>4 DEF Hear, TickHello, TickListenHello, TickStreamHello, TakeHello
  <2>2. ASSUME NEW d \in net'
        PROVE  \/ d \in net \/ d.kind # "ACK"
               \/ \E f \in net : f.kind = "HELLO" /\ d = Datagram("ACK", f.host)
    <3>1. \/ d \in net \/ d = Datagram("ACK", e.host)
          \/ d = Datagram("INPUT", e.host)
          BY <2>1, ConsoleWire
    <3>2. QED BY <2>1, <3>1 DEF Datagram
  <2>3. QED BY <2>1, <2>2, IdleConsole
<1>5. ASSUME NEW e \in net, Lose(e) PROVE IdleInv'
  <2>1. /\ UNCHANGED <<hostVars, sentAge, silent>> /\ \A d \in net' : d \in net
        BY <1>5 DEF Lose
  <2>2. QED BY <2>1, IdleConsole
<1>6. ASSUME NEW h \in Hosts, HostStep(h) PROVE IdleInv'
      BY <1>6, IdleHost
<1>7. CASE UNCHANGED vars
  <2>1. UNCHANGED <<net, hostVars, sentAge, silent>>
        BY <1>7 DEF vars, envVars
  <2>2. QED BY <2>1, IdleConsole
<1>8. QED BY <1>1, <1>2, <1>3, <1>4, <1>5, <1>6, <1>7, NextCases

\* An idle receiver ends: if an ACK arrives before the next keepalive is sent,
\* a loop that gets no input is left before AUTO_TERMINATE_S, two polls and one
\* round trip are over, whatever is lost, late, repeated or still in flight.
\* Datagrams that unpack_payload refuses put the end off, as run_client does:
\* the two polls and the round trip count from the last of them.
THEOREM IdleSafe ==
    ASSUME RoundTrip
    PROVE  Spec => []IdleEnds
<1>1. TypeInv /\ IdleInv => IdleEnds
  <2> SUFFICES ASSUME TypeInv, IdleInv, NEW h \in Hosts, Streams(h)
               PROVE  silent[h] < IdleEnd
      BY DEF IdleEnds
  <2>1. IdleAt(h)
        BY IdleAtAll
  <2>2. /\ silent[h] \in Nat /\ sentAge[h] \in Nat /\ nowAge[h] \in Nat
        /\ phase[h] = "poll" => nowAge[h] <= PollTimeout
        BY IdleTypes, CapTypes
  <2>3. QED BY <2>1, <2>2, ConstantTypes DEF IdleAt, Streams, IdleSeen, IdleEnd
<1>2. QED BY <1>1, IdleInit, IdleNext, TypeCorrect, ReleaseSafe, PTL DEF Spec
=============================================================================
