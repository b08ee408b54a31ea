---------------------------- MODULE RemoteSession ----------------------------
(***************************************************************************)
(* The 3DS, the receivers and the path between them under one clock.       *)
(*                                                                         *)
(* Timing.  Time passes in units (Tick).  It waits for the frame of the    *)
(* unit, for a thread that is not blocked, for a recvfrom whose timeout is *)
(* up and for a datagram at the end of its flight.  Everything else may    *)
(* happen any number of times, in any order, within a unit.                *)
(***************************************************************************)
EXTENDS DSClient, Receiver

CONSTANT
    MaxLoss     \* HELLOs of one streaming host lost in a row, at most

ASSUME MaxLossAssumption == MaxLoss \in Nat

\* The longest time between two keepalives: the keepalive falls due in a poll.
Period == KeepaliveInterval + PollTimeout

\* A host that has streamed for this long has been heard in this time.
Window == (MaxLoss + 1) * Period + MaxDelay

\* The protocol's constants leave room for MaxLoss lost keepalives.
ASSUME MarginAssumption == Window <= HelloTimeout
\* A keepalive has arrived or is lost before the next is sent.
ASSUME DelayAssumption == MaxDelay < KeepaliveInterval

VARIABLES
    lost,       \* lost[h]: HELLOs of h lost in a row while both sides stream
    upAge,      \* history: upAge[h], how long h has been in its loop
    sentAge,    \* history: sentAge[h], time since h last sent a HELLO
    silent      \* history: silent[h], time without an INPUT in the loop of h,
                \* back to AutoTerminate when a datagram is refused later

envVars == <<lost, upAge, sentAge, silent>>
vars == <<net, consoleVars, hostVars, envVars>>

UpCap == Window + 1
SentCap == HelloTimeout + MaxDelay + 2

\* The idle limit is noticed by a poll that began before it was reached and
\* ended after; the ACKs of one keepalive may end others; one is quiet.
IdleEnd == AutoTerminate + 2 * PollTimeout + 2 * MaxDelay

AtMost(cap, n) == IF n > cap THEN cap ELSE n

Init ==
    /\ net = {}
    /\ ConsoleInit
    /\ HostInit
    /\ lost = [h \in Hosts |-> 0]
    /\ upAge = [h \in Hosts |-> 0]
    /\ sentAge = [h \in Hosts |-> SentCap]
    /\ silent = [h \in Hosts |-> 0]

-----------------------------------------------------------------------------
\* A frame of the 3DS that reads no HELLO.
Frame ==
    /\ TickNoHello
    /\ UNCHANGED <<hostVars, envVars>>

\* A frame of the 3DS that reads the HELLO d.
Hear(d) ==
    /\ TickHello(d)
    /\ lost' = [lost EXCEPT ![d.host] = 0]
    /\ UNCHANGED <<hostVars, upAge, sentAge, silent>>

Relaunch ==
    /\ ConsoleRelaunch
    /\ UNCHANGED <<hostVars, envVars>>

\* The history of host h over one of its steps, which sends a HELLO or not.
Track(h, sends) ==
    /\ upAge' = IF Streams(h)' THEN upAge ELSE [upAge EXCEPT ![h] = 0]
    /\ lost' = IF Streams(h)' THEN lost ELSE [lost EXCEPT ![h] = 0]
    /\ sentAge' = IF sends THEN [sentAge EXCEPT ![h] = 0] ELSE sentAge
    /\ UNCHANGED consoleVars

\* The silence of h over a step after which it is t, if h is in its loop
Listen(h, t) == silent' = [silent EXCEPT ![h] = IF Streams(h)' THEN t ELSE 0]

\* No input comes.
NoInput(h) == Listen(h, silent[h])

HostStart(h) == Start(h) /\ Track(h, FALSE) /\ NoInput(h)
HostGreet(h) == Greet(h) /\ Track(h, TRUE) /\ NoInput(h)
HostAwaitTimeout(h) == AwaitTimeout(h) /\ Track(h, FALSE) /\ NoInput(h)
HostTop(h) == Top(h) /\ Track(h, KeepaliveDue(h)) /\ NoInput(h)
HostPollQuiet(h) == PollQuiet(h) /\ Track(h, FALSE) /\ NoInput(h)
HostTake(h, d) ==
    /\ HostReceive(h, d)
    /\ Track(h, FALSE)
    /\ Listen(h, IF d.kind = "INPUT" THEN 0 ELSE silent[h])
HostRefuse(h) ==
    /\ Refuse(h)
    /\ Track(h, FALSE)
    /\ Listen(h, AtMost(AutoTerminate, silent[h]))
HostKill(h) == Kill(h) /\ Track(h, FALSE) /\ NoInput(h)

-----------------------------------------------------------------------------
\* The path drops d, or d arrives where no socket is open.  While both ends
\* stream it drops no more than MaxLoss HELLOs of a host in a row.
Counts(d) ==
    d.kind = "HELLO" /\ Streams(d.host) /\ g_state = "STREAMING"

Lose(d) ==
    /\ d \in net
    /\ net' = net \ {d}
    /\ IF Counts(d)
       THEN /\ lost[d.host] < MaxLoss
            /\ lost' = [lost EXCEPT ![d.host] = @ + 1]
       ELSE UNCHANGED lost
    /\ UNCHANGED <<consoleVars, hostVars, upAge, sentAge, silent>>

\* Nothing is overdue: one time unit may pass.
MayPass ==
    /\ framed
    /\ \A d \in net : d.age < MaxDelay
    /\ \A h \in Hosts :
          \/ phase[h] = "off"
          \/ phase[h] = "await" /\ nowAge[h] < HandshakeTimeout
          \/ phase[h] = "poll" /\ nowAge[h] < PollTimeout

Tick ==
    /\ MayPass
    /\ net' = Aged
    /\ framed' = FALSE
    /\ helloAge' = AtMost(HelloCap, helloAge + 1)
    /\ nowAge' = [h \in Hosts |-> IF phase[h] = "off" THEN 0 ELSE nowAge[h] + 1]
    /\ keepAge' = [h \in Hosts |->
                      IF Streams(h) THEN AtMost(KeepCap, keepAge[h] + 1) ELSE 0]
    /\ rxAge' = [h \in Hosts |->
                    IF Streams(h) THEN AtMost(RxCap, rxAge[h] + 1) ELSE 0]
    /\ upAge' = [h \in Hosts |->
                    IF Streams(h) THEN AtMost(UpCap, upAge[h] + 1) ELSE 0]
    /\ sentAge' = [h \in Hosts |-> AtMost(SentCap, sentAge[h] + 1)]
    /\ silent' = [h \in Hosts |->
                     IF Streams(h) THEN AtMost(IdleEnd, silent[h] + 1) ELSE 0]
    /\ UNCHANGED <<g_state, g_pcAddr, greeted, phase, attempt, lost>>

Next ==
    \/ Frame
    \/ Relaunch
    \/ Tick
    \/ \E d \in net : Hear(d) \/ Lose(d)
    \/ \E h \in Hosts :
          \/ HostStart(h)
          \/ HostGreet(h)
          \/ HostAwaitTimeout(h)
          \/ HostTop(h)
          \/ HostPollQuiet(h)
          \/ HostRefuse(h)
          \/ HostKill(h)
          \/ \E d \in net : HostTake(h, d)

Spec == Init /\ [][Next]_vars

\* Fairness.  Time goes on for ever (and MayPass makes it wait for every
\* frame, thread and datagram that is due); the Wi-Fi comes up in the end
\* while the console waits for it; the path does not drop every HELLO of a
\* host for ever.
Fairness ==
    /\ []<><<Tick>>_vars
    /\ SF_vars(TickBind /\ UNCHANGED <<hostVars, envVars>>)
    /\ \A h \in Hosts : SF_vars(\E d \in net : d.host = h /\ Hear(d))

FairSpec == Spec /\ Fairness

-----------------------------------------------------------------------------
\* Every variable has its type, and its timer stays within its cap.
TypeOK ==
    /\ WireTypeOK
    /\ ConsoleTypeOK
    /\ HostTypeOK
    /\ lost \in [Hosts -> 0..MaxLoss]
    /\ upAge \in [Hosts -> 0..UpCap]
    /\ sentAge \in [Hosts -> 0..SentCap]
    /\ silent \in [Hosts -> 0..IdleEnd]

\* No phantom session: a receiver is in its streaming loop (do_handshake
\* returned true) only if the console has answered a HELLO of its host, in
\* spite of lost, late and repeated datagrams and restarts of either side.
NoPhantomSession == \A h \in Hosts : Streams(h) => h \in greeted

\* The console stops streaming at most HelloTimeout and one unit after its
\* PC sent its last HELLO, plus the flight of that HELLO: a dead PC is not
\* streamed to for ever, whatever old HELLOs the network still delivers.
DeadHostReleased ==
    g_state = "STREAMING" => sentAge[g_pcAddr] <= HelloTimeout + 1 + MaxDelay

\* AUTO_TERMINATE: a receiver that got no input for the limit has left its loop
\* two polls and one round trip later, although the ACKs of its keepalives end
\* polls early and the idle test looks at the time before the wait.  Datagrams
\* that unpack_payload refuses end polls early too, for as long as they come:
\* the two polls and the round trip count from the last of them.
IdleEnds == \A h \in Hosts : Streams(h) => silent[h] < IdleEnd

\* The keepalive of run_client keeps the session of controllerTick: once a
\* host has been in its loop for a Window the console does not time out,
\* however the path delays HELLOs and drops up to MaxLoss of them in a row.
KeepaliveHolds ==
    [][ \A h \in Hosts : Streams(h) /\ upAge[h] > Window
            => ~(g_state = "STREAMING" /\ g_state' = "LISTENING") ]_vars

\* The console implements the lease: see StreamLease.
Lease == INSTANCE StreamLease WITH
    Nobody <- NoHost,
    Term <- HelloTimeout,
    owner <- IF g_state = "STREAMING" THEN g_pcAddr ELSE NoHost,
    leaseAge <- helloAge,
    granted <- greeted,
    believers <- {h \in Hosts : Streams(h)}

ImplementsLease == Lease!LeaseSpec

-----------------------------------------------------------------------------
\* A session heals: while a receiver stays in its loop its keepalives bring a
\* console that timed out or was relaunched back to streaming, and it keeps
\* streaming, unless it is relaunched for ever.
SessionHeals ==
    \A h \in Hosts :
        <>[]Streams(h) =>
            \/ <>[](g_state = "STREAMING")
            \/ []<><<Relaunch>>_vars

\* do_handshake returns: success or failure, it never hangs.
HandshakeResolves ==
    \A h \in Hosts :
        phase[h] \in {"greet", "await"} ~> (Streams(h) \/ phase[h] = "off")
=============================================================================
