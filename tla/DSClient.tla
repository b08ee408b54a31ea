------------------------------ MODULE DSClient ------------------------------
(***************************************************************************)
(* The 3DS program: controllerTick of 3ds/source/main.cpp, run once a      *)
(* frame, reads at most one datagram, renews or drops the session with the *)
(* PC it streams to and sends it the inputs of that frame.                 *)
(***************************************************************************)
EXTENDS Wire

CONSTANTS
    HelloTimeout,   \* HELLO_TIMEOUT_MS, in time units
    NoHost          \* g_pcAddr before the first HELLO

ASSUME HelloTimeoutAssumption == HelloTimeout \in Nat
ASSUME NoHostAssumption == NoHost \notin Hosts

VARIABLES
    g_state,    \* AppState
    g_pcAddr,   \* where INPUT goes
    helloAge,   \* osGetTime() - g_lastHelloMs
    framed,     \* the tick of this time unit has run (60 frames a second)
    greeted     \* history: every host whose HELLO this console answered

consoleVars == <<g_state, g_pcAddr, helloAge, framed, greeted>>

AppState == {"WAITING_WIFI", "LISTENING", "STREAMING"}

\* helloAge counts to the first value beyond the timeout and stays there.
HelloCap == HelloTimeout + 1

ConsoleTypeOK ==
    /\ g_state \in AppState
    /\ g_pcAddr \in Hosts \cup {NoHost}
    /\ helloAge \in 0..HelloCap
    /\ framed \in BOOLEAN
    /\ greeted \subseteq Hosts

ConsoleInit ==
    /\ g_state = "WAITING_WIFI"
    /\ g_pcAddr = NoHost
    /\ helloAge = HelloCap          \* g_lastHelloMs = 0: long ago
    /\ framed = FALSE
    /\ greeted = {}

-----------------------------------------------------------------------------
(* STATE_WAITING_WIFI *)

\* networkVisible() is false, or createSocket failed: retried next frame.
TickWaiting ==
    /\ g_state = "WAITING_WIFI"
    /\ framed' = TRUE
    /\ UNCHANGED <<g_state, g_pcAddr, helloAge, greeted, net>>

\* networkVisible() and createSocket() succeeded.
TickBind ==
    /\ g_state = "WAITING_WIFI"
    /\ g_state' = "LISTENING"
    /\ framed' = TRUE
    /\ UNCHANGED <<g_pcAddr, helloAge, greeted, net>>

(* STATE_LISTENING *)

\* recvfrom has nothing (EWOULDBLOCK).
TickListenIdle ==
    /\ g_state = "LISTENING"
    /\ framed' = TRUE
    /\ UNCHANGED <<g_state, g_pcAddr, helloAge, greeted, net>>

\* What a HELLO from d.host does in either socket state.
TakeHello(d) ==
    /\ d \in net
    /\ d.kind = "HELLO"
    /\ g_pcAddr' = d.host
    /\ helloAge' = 0
    /\ greeted' = greeted \cup {d.host}
    /\ framed' = TRUE

\* The first HELLO is answered; INPUT starts on the next frame.
TickListenHello(d) ==
    /\ g_state = "LISTENING"
    /\ TakeHello(d)
    /\ g_state' = "STREAMING"
    /\ \E rest \in Without(d) : net' = rest \cup {Datagram("ACK", d.host)}

(* STATE_STREAMING *)

\* Mutant: a keepalive moves the stream and is answered, the clock is not reset.
TickStreamHello_NoRefresh(d) ==
    /\ g_state = "STREAMING"
    /\ d \in net
    /\ d.kind = "HELLO"
    /\ g_pcAddr' = d.host
    /\ greeted' = greeted \cup {d.host}
    /\ framed' = TRUE
    /\ \E rest \in Without(d) :
          net' = rest \cup {Datagram("ACK", d.host), Datagram("INPUT", d.host)}
    /\ UNCHANGED <<g_state, helloAge>>

\* Mutant: a HELLO in a session begins another, as if the PC had restarted.
TickStreamHello_Restart(d) ==
    /\ g_state = "STREAMING"
    /\ TakeHello(d)
    /\ g_state' = "LISTENING"
    /\ \E rest \in Without(d) : net' = rest \cup {Datagram("ACK", d.host)}

\* A HELLO, from this host or another: the stream follows it, in this frame.
TickStreamHello(d) ==
    /\ g_state = "STREAMING"
    /\ TakeHello(d)
    /\ \E rest \in Without(d) :
          net' = rest \cup {Datagram("ACK", d.host), Datagram("INPUT", d.host)}
    /\ UNCHANGED g_state

\* Mutant: the age of the last HELLO is not looked at.
TickStreamInput_NoTimeout ==
    /\ g_state = "STREAMING"
    /\ framed' = TRUE
    /\ net' = net \cup {Datagram("INPUT", g_pcAddr)}
    /\ UNCHANGED <<g_state, g_pcAddr, helloAge, greeted>>

\* No HELLO this frame and the last one is recent: send the inputs.
TickStreamInput ==
    /\ g_state = "STREAMING"
    /\ helloAge <= HelloTimeout
    /\ framed' = TRUE
    /\ net' = net \cup {Datagram("INPUT", g_pcAddr)}
    /\ UNCHANGED <<g_state, g_pcAddr, helloAge, greeted>>

\* Mutant: the lease ends one unit early.
TickStreamExpire_Early ==
    /\ g_state = "STREAMING"
    /\ helloAge >= HelloTimeout
    /\ g_state' = "LISTENING"
    /\ framed' = TRUE
    /\ UNCHANGED <<g_pcAddr, helloAge, greeted, net>>

\* The last HELLO is too old: stop streaming and wait for a reconnect.
TickStreamExpire ==
    /\ g_state = "STREAMING"
    /\ helloAge > HelloTimeout
    /\ g_state' = "LISTENING"
    /\ framed' = TRUE
    /\ UNCHANGED <<g_pcAddr, helloAge, greeted, net>>

-----------------------------------------------------------------------------
\* The program ends (platform::loop returns false) and is started again.
ConsoleRelaunch ==
    /\ g_state # "WAITING_WIFI"
    /\ g_state' = "WAITING_WIFI"
    /\ g_pcAddr' = NoHost
    /\ helloAge' = HelloCap
    /\ framed' = FALSE
    /\ UNCHANGED <<greeted, net>>

TickNoHello ==
    \/ TickWaiting
    \/ TickBind
    \/ TickListenIdle
    \/ TickStreamInput
    \/ TickStreamExpire

TickHello(d) == TickListenHello(d) \/ TickStreamHello(d)
=============================================================================
