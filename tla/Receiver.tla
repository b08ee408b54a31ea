------------------------------ MODULE Receiver ------------------------------
(***************************************************************************)
(* The PC program's network thread, one on each host: run_client of        *)
(* server/transceiver/server.cpp opens the socket, greets the 3DS          *)
(* (do_handshake) and then loops: keepalive, one blocking recvfrom, fire   *)
(* the handlers of what it received.                                       *)
(***************************************************************************)
EXTENDS Wire

CONSTANTS
    HandshakeTimeout,   \* HANDSHAKE_TIMEOUT_S
    HandshakeRetries,   \* HANDSHAKE_RETRIES
    PollTimeout,        \* POLL_TIMEOUT_S
    AutoTerminate,      \* AUTO_TERMINATE_S
    KeepaliveInterval   \* KEEPALIVE_INTERVAL_S

ASSUME ReceiverAssumption ==
    /\ HandshakeTimeout \in Nat \ {0}
    /\ HandshakeRetries \in Nat \ {0}
    /\ PollTimeout \in Nat \ {0}
    /\ AutoTerminate \in Nat
    /\ KeepaliveInterval \in Nat \ {0}

VARIABLES
    phase,      \* phase[h]: where the thread of host h is
    attempt,    \* attempt[h]: HELLOs sent by do_handshake so far
    nowAge,     \* nowAge[h]: time since `now` was read, or since the attempt
    keepAge,    \* keepAge[h]: time since last_keepalive
    rxAge       \* rxAge[h]: time since last_rx

hostVars == <<phase, attempt, nowAge, keepAge, rxAge>>

(* off    not running, or run_client has returned
   greet  do_handshake is about to send a HELLO
   await  do_handshake is blocked in recvfrom
   top    the streaming loop is at its head
   poll   the streaming loop is blocked in recvfrom *)
Phase == {"off", "greet", "await", "top", "poll"}

Streams(h) == phase[h] \in {"top", "poll"}

\* rxAge counts far enough to decide every idle test, and stays there.
RxCap == AutoTerminate + PollTimeout + 1
KeepCap == KeepaliveInterval + PollTimeout
NowCap == HandshakeTimeout + PollTimeout

HostTypeOK ==
    /\ phase \in [Hosts -> Phase]
    /\ attempt \in [Hosts -> 0..HandshakeRetries]
    /\ nowAge \in [Hosts -> 0..NowCap]
    /\ keepAge \in [Hosts -> 0..KeepCap]
    /\ rxAge \in [Hosts -> 0..RxCap]

HostInit ==
    /\ phase = [h \in Hosts |-> "off"]
    /\ attempt = [h \in Hosts |-> 0]
    /\ nowAge = [h \in Hosts |-> 0]
    /\ keepAge = [h \in Hosts |-> 0]
    /\ rxAge = [h \in Hosts |-> 0]

\* nowAge only matters inside a wait: every change of phase starts it anew.
Goto(h, p) ==
    /\ phase' = [phase EXCEPT ![h] = p]
    /\ nowAge' = [nowAge EXCEPT ![h] = 0]

\* The locals of run_client are gone.
Leave(h) ==
    /\ Goto(h, "off")
    /\ attempt' = [attempt EXCEPT ![h] = 0]
    /\ keepAge' = [keepAge EXCEPT ![h] = 0]
    /\ rxAge' = [rxAge EXCEPT ![h] = 0]

-----------------------------------------------------------------------------
(* do_handshake *)

\* The user starts the receiver and validate_socket succeeds.  (When it
\* fails run_client returns at once: no step.)
Start(h) ==
    /\ phase[h] = "off"
    /\ Goto(h, "greet")
    /\ UNCHANGED <<attempt, keepAge, rxAge, net>>

\* Mutant: a resent HELLO is not counted as an attempt.
Greet_Uncounted(h) ==
    /\ phase[h] = "greet"
    /\ Goto(h, "await")
    /\ net' = net \cup {Datagram("HELLO", h)}
    /\ UNCHANGED <<attempt, keepAge, rxAge>>

\* One attempt: send a HELLO and wait for one datagram.
Greet(h) ==
    /\ phase[h] = "greet"
    /\ Goto(h, "await")
    /\ attempt' = [attempt EXCEPT ![h] = @ + 1]
    /\ net' = net \cup {Datagram("HELLO", h)}
    /\ UNCHANGED <<keepAge, rxAge>>

\* Mutant: one attempt too many.
NextAttempt_OneMore(h) ==
    IF attempt[h] <= HandshakeRetries
    THEN /\ Goto(h, "greet")
         /\ UNCHANGED <<attempt, keepAge, rxAge>>
    ELSE Leave(h)

\* Mutant: run_client does not look at what do_handshake returned.
NextAttempt_Ignored(h) ==
    IF attempt[h] < HandshakeRetries
    THEN /\ Goto(h, "greet")
         /\ UNCHANGED <<attempt, keepAge, rxAge>>
    ELSE /\ Goto(h, "top")
         /\ attempt' = [attempt EXCEPT ![h] = 0]
         /\ UNCHANGED <<keepAge, rxAge>>

\* An attempt is spent: the next one, or give up after the last.
NextAttempt(h) ==
    IF attempt[h] < HandshakeRetries
    THEN /\ Goto(h, "greet")
         /\ UNCHANGED <<attempt, keepAge, rxAge>>
    ELSE Leave(h)

\* recvfrom times out.
AwaitTimeout(h) ==
    /\ phase[h] = "await"
    /\ nowAge[h] >= HandshakeTimeout
    /\ NextAttempt(h)
    /\ UNCHANGED net

\* An INPUT of a stream that is still running uses up the attempt.
AwaitOther(h, d) ==
    /\ phase[h] = "await"
    /\ d \in net
    /\ d.host = h
    /\ d.kind = "INPUT"
    /\ NextAttempt(h)
    /\ net' \in Without(d)

\* So does a datagram of anybody else, or of another version of the program.
AwaitRefused(h) ==
    /\ phase[h] = "await"
    /\ NextAttempt(h)
    /\ UNCHANGED net

\* The ACK, of this run or of an earlier one: start streaming.
AwaitAck(h, d) ==
    /\ phase[h] = "await"
    /\ d \in net
    /\ d.host = h
    /\ d.kind = "ACK"
    /\ Goto(h, "top")
    /\ attempt' = [attempt EXCEPT ![h] = 0]
    /\ keepAge' = [keepAge EXCEPT ![h] = 0]
    /\ rxAge' = [rxAge EXCEPT ![h] = 0]
    /\ net' \in Without(d)

-----------------------------------------------------------------------------
(* The loop of run_client *)

KeepaliveDue(h) == keepAge[h] >= KeepaliveInterval

\* now = Clock::now(); the keepalive when it is due; then block in recvfrom.
Top(h) ==
    /\ phase[h] = "top"
    /\ Goto(h, "poll")
    /\ IF KeepaliveDue(h)
       THEN /\ net' = net \cup {Datagram("HELLO", h)}
            /\ keepAge' = [keepAge EXCEPT ![h] = 0]
       ELSE UNCHANGED <<net, keepAge>>
    /\ UNCHANGED <<attempt, rxAge>>

\* recvfrom times out.  The idle test uses `now`, read before the wait.
PollQuiet(h) ==
    /\ phase[h] = "poll"
    /\ nowAge[h] >= PollTimeout
    /\ IF rxAge[h] - nowAge[h] >= AutoTerminate
       THEN Leave(h)
       ELSE /\ Goto(h, "top")
            /\ UNCHANGED <<attempt, keepAge, rxAge>>
    /\ UNCHANGED net

\* The ACK of a keepalive is dropped; last_rx stays.
PollAck(h, d) ==
    /\ phase[h] = "poll"
    /\ d \in net
    /\ d.host = h
    /\ d.kind = "ACK"
    /\ Goto(h, "top")
    /\ net' \in Without(d)
    /\ UNCHANGED <<attempt, keepAge, rxAge>>

\* Inputs: last_rx = now, then the handlers of every difference fire.
PollInput(h, d) ==
    /\ phase[h] = "poll"
    /\ d \in net
    /\ d.host = h
    /\ d.kind = "INPUT"
    /\ Goto(h, "top")
    /\ rxAge' = [rxAge EXCEPT ![h] = nowAge[h]]
    /\ net' \in Without(d)
    /\ UNCHANGED <<attempt, keepAge>>

\* Mutant: what unpack_payload refuses counts as input.
PollRefused_Refresh(h) ==
    /\ phase[h] = "poll"
    /\ Goto(h, "top")
    /\ rxAge' = [rxAge EXCEPT ![h] = nowAge[h]]
    /\ UNCHANGED <<attempt, keepAge, net>>

\* unpack_payload refuses what came: round the loop, with no idle test.
PollRefused(h) ==
    /\ phase[h] = "poll"
    /\ Goto(h, "top")
    /\ UNCHANGED <<attempt, keepAge, rxAge, net>>

-----------------------------------------------------------------------------
\* The process is killed (Ctrl+C, the documented way to stop it).
Kill(h) ==
    /\ phase[h] # "off"
    /\ Leave(h)
    /\ UNCHANGED net

HostReceive(h, d) ==
    \/ AwaitOther(h, d)
    \/ AwaitAck(h, d)
    \/ PollAck(h, d)
    \/ PollInput(h, d)

\* A datagram that is neither ACK nor INPUT comes; anybody may send one.
Refuse(h) == AwaitRefused(h) \/ PollRefused(h)

HostRun(h) ==
    \/ Greet(h)
    \/ AwaitTimeout(h)
    \/ Top(h)
    \/ PollQuiet(h)
=============================================================================
