----------------------------- MODULE PyReceiver -----------------------------
(***************************************************************************)
(* The receiver of the Python proof of concept (py_poc/src/receiver.py) as *)
(* a program uses it: start() shakes hands and leaves a thread that runs   *)
(* receive_loop, stop() sets an event and joins the thread for a while.    *)
(*                                                                         *)
(* Time passes in units (Tick); it waits for a thread that is not blocked  *)
(* and for a call whose timeout is up.  The console and the network answer *)
(* as they like.  What is displayed is left out, displaying takes time.    *)
(* Every start() is for the same listen port, and the network holds one    *)
(* answer at a time.                                                       *)
(***************************************************************************)
EXTENDS Integers, FiniteSets

CONSTANTS
    Threads,            \* names for the threads that start() creates
    NoThread,           \* None
    HandshakeTimeout,   \* HANDSHAKE_TIMEOUT_S, in time units
    HandshakeRetries,   \* HANDSHAKE_RETRIES
    PollTimeout,        \* POLL_TIMEOUT_S
    JoinTimeout,        \* the timeout of join in stop
    AutoTerminate,      \* AUTO_TERMINATE_S
    KeepaliveInterval,  \* KEEPALIVE_INTERVAL_S
    ShowTime,           \* the longest that displaying one packet takes
    Strangers           \* datagrams come that are no input packet and no ACK

ASSUME TimeAssumption ==
    /\ HandshakeTimeout \in Nat /\ HandshakeRetries \in Nat \ {0}
    /\ PollTimeout \in Nat /\ JoinTimeout \in Nat
    /\ AutoTerminate \in Nat /\ KeepaliveInterval \in Nat
    /\ ShowTime \in Nat
    /\ Strangers \in BOOLEAN
ASSUME NameAssumption == NoThread \notin Threads
\* join waits for more than one poll and one packet.
ASSUME JoinAssumption == PollTimeout + ShowTime < JoinTimeout
\* A poll that ends in the error of the last keepalive is over before the
\* next keepalive is due; a packet is displayed in less than the idle limit.
ASSUME KeepaliveAssumption == PollTimeout < KeepaliveInterval
ASSUME ShowAssumption == ShowTime <= AutoTerminate

VARIABLES
    main,       \* the caller: "idle", in do_handshake or in the join of stop
    attempt,    \* attempt of do_handshake
    waited,     \* how long the caller has been blocked
    threadloop, \* _threadloop
    stop_event, \* _stop_event
    loop,       \* the threads that run receive_loop
    answer      \* what the network has for the socket, besides packets

callerVars == <<main, attempt, waited, threadloop, stop_event>>
vars == <<callerVars, loop, answer>>

\* Bounds: no test looks at an age beyond these.
IdleCap == AutoTerminate + 3 * PollTimeout + 1
MaxBlock == PollTimeout + ShowTime

\* at: where the thread is, "off" before and after its run; wait: how long it
\* has been blocked there; rx, keep: time since last_rx and last_keepalive;
\* input: since the last valid packet.
Loops == [at : {"off", "top", "recv", "show"}, wait : 0..MaxBlock,
          rx : 0..IdleCap, keep : 0..KeepaliveInterval, input : 0..IdleCap]

TypeOK ==
    /\ main \in {"idle", "handshake", "join"}
    /\ attempt \in 1..HandshakeRetries
    /\ waited \in 0..HandshakeTimeout + JoinTimeout
    /\ threadloop \in Threads \cup {NoThread}
    /\ stop_event \in BOOLEAN
    /\ loop \in [Threads -> Loops]
    /\ answer \in {"none", "ack", "icmp"}

Fresh(at) == [at |-> at, wait |-> 0, rx |-> 0, keep |-> 0, input |-> 0]
Off == Fresh("off")

Init ==
    /\ main = "idle"
    /\ attempt = 1
    /\ waited = 0
    /\ threadloop = NoThread
    /\ stop_event = FALSE
    /\ loop = [t \in Threads |-> Off]
    /\ answer = "none"

Live(t) == loop[t].at # "off"

\* The socket of a running thread, or of a handshake, holds the port.
PortFree == main # "handshake" /\ \A t \in Threads : ~Live(t)

-----------------------------------------------------------------------------
(* start *)

\* The socket is bound.  If it is not, start returns 1 and changes nothing.
StartBegin ==
    /\ main = "idle"
    /\ PortFree
    /\ main' = "handshake"
    /\ attempt' = 1
    /\ waited' = 0
    /\ UNCHANGED <<threadloop, stop_event, loop, answer>>

\* The ACK: the event is cleared, a thread starts.  The answer to another
\* attempt may still come.
HandshakeAck(t) ==
    /\ main = "handshake"
    /\ ~Live(t)
    /\ main' = "idle"
    /\ attempt' = 1
    /\ waited' = 0
    /\ stop_event' = FALSE
    /\ threadloop' = t
    /\ loop' = [loop EXCEPT ![t] = Fresh("top")]
    /\ answer' \in {"none", "ack", "icmp"}

\* Mutant: one attempt too many.
HandshakeNext_OneMore ==
    /\ main = "handshake"
    /\ waited' = 0
    /\ IF attempt <= HandshakeRetries
       THEN attempt' = attempt + 1 /\ UNCHANGED main
       ELSE attempt' = 1 /\ main' = "idle"
    /\ UNCHANGED <<threadloop, stop_event, loop, answer>>

\* Another datagram or a timeout: next attempt, or start returns 1.
HandshakeNext ==
    /\ main = "handshake"
    /\ waited' = 0
    /\ IF attempt < HandshakeRetries
       THEN attempt' = attempt + 1 /\ UNCHANGED main
       ELSE attempt' = 1 /\ main' = "idle"
    /\ UNCHANGED <<threadloop, stop_event, loop, answer>>

\* An OSError of the socket, which ends the handshake: start returns 1.
HandshakeError ==
    /\ main = "handshake"
    /\ main' = "idle"
    /\ attempt' = 1
    /\ waited' = 0
    /\ UNCHANGED <<threadloop, stop_event, loop, answer>>

(* stop *)

\* Mutant: the event is cleared for the next start at once.
StopBegin_Clear ==
    /\ main = "idle"
    /\ threadloop # NoThread
    /\ main' = "join"
    /\ waited' = 0
    /\ stop_event' = FALSE
    /\ UNCHANGED <<attempt, threadloop, loop, answer>>

\* Without a thread stop only clears the event, which is clear already.
StopBegin ==
    /\ main = "idle"
    /\ threadloop # NoThread
    /\ main' = "join"
    /\ waited' = 0
    /\ stop_event' = TRUE
    /\ UNCHANGED <<attempt, threadloop, loop, answer>>

\* join returns, because the thread has ended or the timeout is up.
StopJoined ==
    /\ main = "join"
    /\ ~Live(threadloop) \/ waited >= JoinTimeout
    /\ main' = "idle"
    /\ waited' = 0
    /\ threadloop' = NoThread
    /\ stop_event' = FALSE
    /\ UNCHANGED <<attempt, loop, answer>>

-----------------------------------------------------------------------------
(* receive_loop, in thread t *)

\* Thread t goes to at, with these ages.
Put(t, at, rx, keep, input) ==
    loop' = [loop EXCEPT ![t] = [at |-> at, wait |-> 0, rx |-> rx,
                                 keep |-> keep, input |-> input]]
GoTo(t, at) == Put(t, at, loop[t].rx, loop[t].keep, loop[t].input)
End(t) == loop' = [loop EXCEPT ![t] = Off]

TopStopped(t) ==
    /\ loop[t].at = "top"
    /\ stop_event
    /\ End(t)
    /\ UNCHANGED <<callerVars, answer>>

KeepaliveDue(t) == loop[t].keep >= KeepaliveInterval

Top(t) ==
    /\ loop[t].at = "top"
    /\ ~stop_event
    /\ ~KeepaliveDue(t)
    /\ GoTo(t, "recv")
    /\ UNCHANGED <<callerVars, answer>>

\* The keepalive may be answered by the console or by an ICMP error.
TopKeepalive(t) ==
    /\ loop[t].at = "top"
    /\ ~stop_event
    /\ KeepaliveDue(t)
    /\ Put(t, "recv", loop[t].rx, 0, loop[t].input)
    /\ answer' \in {"none", "ack", "icmp"}
    /\ UNCHANGED callerVars

\* sendto raises OSError, which nothing catches: the thread ends.
TopSendFails(t) ==
    /\ loop[t].at = "top"
    /\ ~stop_event
    /\ KeepaliveDue(t)
    /\ End(t)
    /\ UNCHANGED <<callerVars, answer>>

\* A valid packet is displayed.
RecvInput(t) ==
    /\ loop[t].at = "recv"
    /\ Put(t, "show", 0, loop[t].keep, 0)
    /\ UNCHANGED <<callerVars, answer>>

Drop(t) ==
    /\ loop[t].at = "recv"
    /\ Put(t, "top", 0, loop[t].keep, loop[t].input)
    /\ UNCHANGED callerVars

\* The ACK of a keepalive
RecvAck(t) ==
    /\ answer = "ack"
    /\ Drop(t)
    /\ answer' = "none"

\* Something that unpack_input refuses
RecvRefused(t) ==
    /\ Strangers
    /\ Drop(t)
    /\ UNCHANGED answer

\* An ICMP error: the loop goes on without a look at the idle time.
RecvError(t) ==
    /\ loop[t].at = "recv"
    /\ answer = "icmp"
    /\ GoTo(t, "top")
    /\ answer' = "none"
    /\ UNCHANGED callerVars

\* Mutant: the idle time is not looked at.
RecvTimeout_Stay(t) ==
    /\ loop[t].at = "recv"
    /\ loop[t].wait >= PollTimeout
    /\ GoTo(t, "top")
    /\ UNCHANGED <<callerVars, answer>>

RecvTimeout(t) ==
    /\ loop[t].at = "recv"
    /\ loop[t].wait >= PollTimeout
    /\ IF loop[t].rx >= AutoTerminate THEN End(t) ELSE GoTo(t, "top")
    /\ UNCHANGED <<callerVars, answer>>

Shown(t) ==
    /\ loop[t].at = "show"
    /\ GoTo(t, "top")
    /\ UNCHANGED <<callerVars, answer>>

-----------------------------------------------------------------------------
AtMost(cap, n) == IF n > cap THEN cap ELSE n

\* A thread that is blocked and may stay so for a time unit
MayWait(l) ==
    \/ l.at = "off"
    \/ l.at = "recv" /\ l.wait < PollTimeout
    \/ l.at = "show" /\ l.wait < ShowTime

Later(l) ==
    IF l.at = "off" THEN l
    ELSE [at |-> l.at, wait |-> l.wait + 1,
          rx |-> AtMost(IdleCap, l.rx + 1),
          keep |-> AtMost(KeepaliveInterval, l.keep + 1),
          input |-> AtMost(IdleCap, l.input + 1)]

CallerMayWait ==
    \/ main = "idle"
    \/ main = "handshake" /\ waited < HandshakeTimeout
    \/ main = "join" /\ waited < JoinTimeout /\ Live(threadloop)

Tick ==
    /\ CallerMayWait
    /\ \A t \in Threads : MayWait(loop[t])
    /\ waited' = IF main = "idle" THEN 0 ELSE waited + 1
    /\ loop' = [t \in Threads |-> Later(loop[t])]
    /\ UNCHANGED <<main, attempt, threadloop, stop_event, answer>>

Caller ==
    \/ StartBegin \/ HandshakeNext \/ HandshakeError
    \/ StopBegin \/ StopJoined

Loop(t) ==
    \/ TopStopped(t) \/ Top(t) \/ TopKeepalive(t) \/ TopSendFails(t)
    \/ RecvInput(t) \/ RecvAck(t) \/ RecvRefused(t)
    \/ RecvError(t) \/ RecvTimeout(t) \/ Shown(t)

Next ==
    \/ Caller
    \/ \E t \in Threads : HandshakeAck(t) \/ Loop(t)
    \/ Tick

Spec == Init /\ [][Next]_vars

-----------------------------------------------------------------------------
\* One thread at most receives, and it is the one that stop() would stop:
\* stop never returns, for its timeout, before the thread has ended.  (The
\* event is cleared then, and the thread would not end.)
StopReaches ==
    \A t \in Threads : Live(t) => threadloop = t

\* A thread that hears nothing at all, not even an ACK, has ended
\* AUTO_TERMINATE_S and three polls later: the idle time is looked at when a
\* poll times out, and two polls in a row may end in errors that answer
\* keepalives instead.
SilenceEnds ==
    \A t \in Threads : Live(t) => loop[t].rx <= AutoTerminate + 3 * PollTimeout

\* "Auto-terminates after 30 seconds of no valid input packets"
\* (receiver.py:12), the polls allowed for.
NoInputEnds ==
    \A t \in Threads :
        Live(t) => loop[t].input <= AutoTerminate + 3 * PollTimeout
=============================================================================
