------------------------------- MODULE Console -------------------------------
(***************************************************************************)
(* The life of the 3DS program around its session: main, the network and   *)
(* exit of platform.cpp, createSocket, and the log of log.cpp.  Every      *)
(* service call may fail, Wi-Fi comes and goes between any two steps, and  *)
(* the network is brought up in the frame loop, over as many frames as it  *)
(* takes.  What a HELLO does in the session is DSClient; here it may come  *)
(* and fail to come at any frame.                                          *)
(***************************************************************************)
EXTENDS Integers

CONSTANTS
    MaxWifi,      \* the wifi word is 0..MaxWifi; 0 is no access point
    WindowHeight  \* g_logConsole.windowHeight (29)

ASSUME WifiAssumption == MaxWifi \in Nat \ {0}
\* What the first frame can log fits: five lines of `main`, four of startNetwork,
\* three of the tick.
ASSUME WindowAssumption == WindowHeight \in Nat /\ WindowHeight >= 12

VARIABLES
    step,        \* where main is
    wifi,        \* what ACU_GetWifiStatus would say
    calm,        \* from now on Wi-Fi stays and no service call fails
    last,        \* lastWifi and lastResult of getNetworkVisibility
    buffer,      \* s_socuBuffer is allocated
    socuActive,  \* s_socuActive
    ndm,         \* the state of the NDM service
    ndmuLocked,  \* s_ndmuLocked
    sleep,       \* aptSetSleepAllowed: the console may sleep
    g_sock,      \* g_sock >= 0
    open,        \* the sockets that the soc service has open for the program
    g_state,     \* AppState of main.cpp
    sensors,     \* the sensors switched on
    ready,       \* g_cppPresent, g_gyroReady, g_accelReady
    pending,     \* s_messages.size()
    logUpdated   \* s_logUpdated

network == <<last, buffer, socuActive, ndm, ndmuLocked, sleep>>
session == <<g_sock, open, g_state>>
devices == <<sensors, ready>>
log == <<pending, logUpdated>>
vars == <<step, wifi, calm, network, session, devices, log>>

\* What a call returns: 0, or one of two errors
Codes == 0..2

Sensors == {"irrst", "gyro", "accel"}

\* main, one frame (loop, tick, draw), and what follows the loop
Steps == {"boot", "loop", "tick", "draw", "sensorsOff", "close", "ndmOff",
          "socOff", "done"}

TypeOK ==
    /\ step \in Steps
    /\ wifi \in 0..MaxWifi
    /\ calm \in BOOLEAN
    /\ last \in [wifi : 0..MaxWifi, result : Codes]
    /\ buffer \in BOOLEAN
    /\ socuActive \in BOOLEAN
    /\ ndm \in {"free", "exclusive", "locked"}
    /\ ndmuLocked \in BOOLEAN
    /\ sleep \in BOOLEAN
    /\ g_sock \in BOOLEAN
    /\ open \in 0..1
    /\ g_state \in {"WAITING_WIFI", "LISTENING", "STREAMING"}
    /\ sensors \subseteq Sensors
    /\ ready \subseteq Sensors
    /\ pending \in Nat
    /\ logUpdated \in BOOLEAN

Init ==
    /\ step = "boot"
    /\ wifi \in 0..MaxWifi
    /\ calm = FALSE
    /\ last = [wifi |-> 0, result |-> 0]
    /\ buffer = FALSE
    /\ socuActive = FALSE
    /\ ndm = "free"
    /\ ndmuLocked = FALSE
    /\ sleep = TRUE
    /\ g_sock = FALSE
    /\ open = 0
    /\ g_state = "WAITING_WIFI"
    /\ sensors = {}
    /\ ready = {}
    /\ pending = 0
    /\ logUpdated = TRUE

-----------------------------------------------------------------------------
(* Helpers *)

\* info or error, n times
Say(n) ==
    /\ pending' = pending + n
    /\ logUpdated' = (logUpdated \/ n > 0)

\* Whether a service call succeeds
Outcomes == IF calm THEN {TRUE} ELSE BOOLEAN
Results == IF calm THEN {0} ELSE Codes

\* Mutant: only a change of the wifi word counts.
Visible_OnChange(result) == result = 0 /\ wifi # 0 /\ wifi # last.wifi

\* getNetworkVisibility, for what ACU_GetWifiStatus returns: what it finds,
\* what it remembers and how much it logs
Visible(result) == result = 0 /\ wifi # 0

Remember(result) ==
    last' = [wifi |-> IF result = 0 THEN wifi ELSE last.wifi, result |-> result]

Lines(result) ==
    (IF result # last.result THEN 1 ELSE 0)
        + (IF result = 0 /\ wifi # last.wifi THEN 1 ELSE 0)

-----------------------------------------------------------------------------
(* The sensors are tried once. *)

\* A gyroscope without coefficient is switched off again.
GyroSwitched(enabled, coefficient) == enabled /\ coefficient

Boot ==
    /\ step = "boot"
    /\ \E irrst, accel, enabled, coefficient \in Outcomes :
          LET on(gyro) == (IF irrst THEN {"irrst"} ELSE {})
                          \cup (IF accel THEN {"accel"} ELSE {})
                          \cup (IF gyro THEN {"gyro"} ELSE {})
          IN  /\ sensors' = on(GyroSwitched(enabled, coefficient))
              /\ ready' = on(enabled /\ coefficient)
    /\ Say(5)
    /\ step' = "loop"
    /\ UNCHANGED <<wifi, calm, network, session>>

-----------------------------------------------------------------------------
(* platform::loop: aptMainLoop, then startNetwork *)

ToTick == step = "loop" /\ step' = "tick"

\* Soc is up already.
LoopUp ==
    /\ ToTick
    /\ socuActive
    /\ UNCHANGED <<wifi, calm, network, session, devices, log>>

LoopInvisible ==
    /\ ToTick
    /\ ~socuActive
    /\ \E result \in Results :
          /\ ~Visible(result)
          /\ Remember(result)
          /\ Say(Lines(result))
    /\ UNCHANGED <<wifi, calm, buffer, socuActive, ndm, ndmuLocked, sleep,
                   session, devices>>

\* memalign or socInit fails; a buffer that was allocated is kept.
LoopSocFails ==
    /\ ToTick
    /\ ~socuActive
    /\ ~calm
    /\ Visible(0)
    /\ Remember(0)
    /\ Say(Lines(0))
    /\ buffer' \in {buffer, TRUE}
    /\ UNCHANGED <<wifi, calm, socuActive, ndm, ndmuLocked, sleep, session,
                   devices>>

\* Mutant: NDM is not left when it cannot be locked.
NdmAfter_NoLeave(entered, locked) ==
    IF entered THEN IF locked THEN "locked" ELSE "exclusive" ELSE "free"

\* NDMU_EnterExclusiveState, NDMU_LockState, and Leave if that fails
NdmAfter(entered, locked) == IF entered /\ locked THEN "locked" ELSE "free"

\* The network is up, with or without NDM.
LoopSocUp ==
    /\ ToTick
    /\ ~socuActive
    /\ Visible(0)
    /\ Remember(0)
    /\ buffer' = TRUE
    /\ socuActive' = TRUE
    /\ sleep' = FALSE
    /\ \E entered, locked \in Outcomes :
          /\ ndm' = NdmAfter(entered, locked)
          /\ ndmuLocked' = (entered /\ locked)
          /\ Say(Lines(0) + IF entered /\ locked THEN 1 ELSE 2)
    /\ UNCHANGED <<wifi, calm, session, devices>>

\* aptMainLoop is false: the loop ends.
LoopEnds ==
    /\ step = "loop"
    /\ step' = "sensorsOff"
    /\ UNCHANGED <<wifi, calm, network, session, devices, log>>

-----------------------------------------------------------------------------
(* controllerTick *)

ToDraw == step = "tick" /\ step' = "draw"

Quiet == UNCHANGED <<wifi, calm, network, session, devices, log>>

\* networkVisible is false: soc is down, and nothing is asked, or Wi-Fi is.
WaitDown == ToDraw /\ g_state = "WAITING_WIFI" /\ ~socuActive /\ Quiet

WaitInvisible ==
    /\ ToDraw
    /\ g_state = "WAITING_WIFI"
    /\ socuActive
    /\ \E result \in Results :
          /\ ~Visible(result)
          /\ Remember(result)
          /\ Say(Lines(result))
    /\ UNCHANGED <<wifi, calm, buffer, socuActive, ndm, ndmuLocked, sleep,
                   session, devices>>

\* Mutant: a socket that cannot be bound stays open.
OpenAfter_NoClose(bound) == open + 1

\* createSocket closes a socket that it cannot bind.
OpenAfter(bound) == IF bound THEN open + 1 ELSE open

\* createSocket; `socket` may fail too, and leaves no more than a failed bind.
WaitVisible ==
    /\ ToDraw
    /\ g_state = "WAITING_WIFI"
    /\ socuActive
    /\ Visible(0)
    /\ Remember(0)
    /\ Say(Lines(0) + 1)
    /\ \E bound \in Outcomes :
          /\ open' = OpenAfter(bound)
          /\ g_sock' = bound
          /\ g_state' = IF bound THEN "LISTENING" ELSE g_state
    /\ UNCHANGED <<wifi, calm, buffer, socuActive, ndm, ndmuLocked, sleep, devices>>

\* No HELLO; in STREAMING the inputs are sent.  Wi-Fi is not asked again.
TickQuiet == ToDraw /\ g_state # "WAITING_WIFI" /\ Quiet

TickHello ==
    /\ ToDraw
    /\ g_state # "WAITING_WIFI"
    /\ Say(IF g_state = "LISTENING" THEN 2 ELSE 1)
    /\ g_state' = "STREAMING"
    /\ UNCHANGED <<wifi, calm, network, g_sock, open, devices>>

TickExpire ==
    /\ ToDraw
    /\ g_state = "STREAMING"
    /\ g_state' = "LISTENING"
    /\ Say(1)
    /\ UNCHANGED <<wifi, calm, network, g_sock, open, devices>>

\* Mutant: messages stay after they were printed.
Draw_Keep ==
    /\ step = "draw"
    /\ step' = "loop"
    /\ logUpdated' = FALSE
    /\ UNCHANGED <<wifi, calm, network, session, devices, pending>>

\* drawLog prints the last WindowHeight messages and drops them all.
Draw ==
    /\ step = "draw"
    /\ step' = "loop"
    /\ pending' = IF logUpdated THEN 0 ELSE pending
    /\ logUpdated' = FALSE
    /\ UNCHANGED <<wifi, calm, network, session, devices>>

-----------------------------------------------------------------------------
(* After the loop *)

SensorsOff ==
    /\ step = "sensorsOff"
    /\ step' = "close"
    /\ sensors' = sensors \ ready
    /\ UNCHANGED <<wifi, calm, network, session, ready, log>>

\* Mutant: the socket is closed whether there is one or not.
Close_Unchecked ==
    /\ step = "close"
    /\ step' = "ndmOff"
    /\ open' = open - 1
    /\ UNCHANGED <<wifi, calm, network, g_sock, g_state, devices, log>>

Close ==
    /\ step = "close"
    /\ step' = "ndmOff"
    /\ open' = IF g_sock THEN open - 1 ELSE open
    /\ UNCHANGED <<wifi, calm, network, g_sock, g_state, devices, log>>

\* Sleep is allowed again only if NDM had been locked.
NdmOff ==
    /\ step = "ndmOff"
    /\ step' = "socOff"
    /\ ndm' = IF ndmuLocked THEN "free" ELSE ndm
    /\ sleep' = (sleep \/ ndmuLocked)
    /\ ndmuLocked' = FALSE
    /\ UNCHANGED <<wifi, calm, last, buffer, socuActive, session, devices, log>>

\* socExit comes before the free of the memory that it works in.
SocOff ==
    /\ step = "socOff"
    /\ step' = "done"
    /\ socuActive' = FALSE
    /\ buffer' = FALSE
    /\ UNCHANGED <<wifi, calm, last, ndm, ndmuLocked, sleep, session, devices, log>>

-----------------------------------------------------------------------------
(* The surroundings *)

WifiChanges ==
    /\ ~calm
    /\ wifi' \in 0..MaxWifi \ {wifi}
    /\ UNCHANGED <<step, calm, network, session, devices, log>>

Settle ==
    /\ ~calm
    /\ wifi # 0
    /\ calm' = TRUE
    /\ UNCHANGED <<step, wifi, network, session, devices, log>>

Loop == LoopUp \/ LoopInvisible \/ LoopSocFails \/ LoopSocUp

Tick == WaitDown \/ WaitInvisible \/ WaitVisible
            \/ TickQuiet \/ TickHello \/ TickExpire

Exit == SensorsOff \/ Close \/ NdmOff \/ SocOff

Main == Boot \/ Loop \/ LoopEnds \/ Tick \/ Draw \/ Exit

Next == Main \/ WifiChanges \/ Settle

Spec == Init /\ [][Next]_vars

\* main runs on as long as it has not returned.
FairSpec == Spec /\ WF_vars(Main)

-----------------------------------------------------------------------------
\* Whatever failed on the way, main gives back what it took: no sensor stays
\* on, no socket open, NDM neither locked nor exclusive, soc ended.
Released ==
    step = "done" =>
        /\ sensors = {}
        /\ open = 0
        /\ ndm = "free"
        /\ ~socuActive /\ ~buffer

\* However often createSocket is tried again, the one socket there is is the
\* one that g_sock holds; a session has one and does not sleep, and no socket
\* outlives soc or its memory.
SocketHeld ==
    /\ step \notin {"ndmOff", "socOff", "done"} =>
          open = IF g_sock THEN 1 ELSE 0
    /\ g_state # "WAITING_WIFI" => g_sock
    /\ step \in {"loop", "tick", "draw"} /\ g_sock => ~sleep
    /\ open > 0 => socuActive /\ buffer

\* No message is erased undrawn: all that a frame can log fits the window, and
\* what is pending has the flag set that drawLog asks.
LogShown ==
    /\ pending <= WindowHeight
    /\ pending > 0 => logUpdated

\* Once Wi-Fi stays and nothing fails any more, the console leaves WAITING_WIFI,
\* however many attempts failed half-way before.
ComesUp == calm ~> (g_state # "WAITING_WIFI" \/ step = "done")
=============================================================================
