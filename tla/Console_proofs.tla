---------------------------- MODULE Console_proofs ----------------------------
(***************************************************************************)
(* Theorems about Console: type correctness, that main gives back what it  *)
(* took whatever failed, that the socket is held, and that no message is   *)
(* lost.  The invariant says for every point of main what has been taken   *)
(* by then, and how much the frame has logged so far.                      *)
(***************************************************************************)
EXTENDS Console, TLAPS

Running == step \in {"loop", "tick", "draw"}

\* A sensor that is on is ready, until SensorsOff.
SensorInv ==
    /\ step \in {"boot", "loop", "tick", "draw", "sensorsOff"} => sensors = ready
    /\ step \in {"close", "ndmOff", "socOff", "done"} => sensors = {}

SocketInv ==
    /\ g_sock <=> g_state # "WAITING_WIFI"
    /\ step \in {"boot", "loop", "tick", "draw", "sensorsOff", "close"} =>
          open = IF g_sock THEN 1 ELSE 0
    /\ step \in {"ndmOff", "socOff", "done"} => open = 0

NetworkInv ==
    /\ step = "boot" => ~socuActive
    /\ socuActive => buffer
    /\ g_sock /\ step # "done" => socuActive
    /\ ndm = IF ndmuLocked THEN "locked" ELSE "free"
    /\ step \in {"socOff", "done"} => ~ndmuLocked
    /\ step = "done" => ~socuActive /\ ~buffer
    /\ Running /\ socuActive => ~sleep

\* Twelve messages at most from one drawLog to the next
LogInv ==
    /\ pending > 0 => logUpdated
    /\ step = "boot" => pending = 0
    /\ step \in {"loop", "sensorsOff", "close", "ndmOff", "socOff", "done"} =>
          pending <= 5
    /\ step = "tick" => pending <= 9
    /\ step = "draw" => pending <= 12

Inv == TypeOK /\ SensorInv /\ SocketInv /\ NetworkInv /\ LogInv

LEMMA InitInv == Init => Inv
<1> SUFFICES ASSUME Init
             PROVE  Inv
  OBVIOUS
<1>1. last \in [wifi : 0..MaxWifi, result : Codes]
  BY WifiAssumption DEF Init, Codes
<1>2. TypeOK
  <2>1. step \in Steps
    BY DEF Init, Steps
  <2>2. wifi \in 0..MaxWifi /\ open \in 0..1 /\ pending \in Nat
    BY DEF Init
  <2>3. sensors \subseteq Sensors /\ ready \subseteq Sensors
    BY DEF Init
  <2>4. /\ calm \in BOOLEAN /\ buffer \in BOOLEAN /\ socuActive \in BOOLEAN
        /\ ndmuLocked \in BOOLEAN /\ sleep \in BOOLEAN /\ g_sock \in BOOLEAN
        /\ logUpdated \in BOOLEAN
    BY DEF Init
  <2> QED
    BY <1>1, <2>1, <2>2, <2>3, <2>4 DEF Init, TypeOK
<1>3. SensorInv /\ SocketInv
  BY DEF Init, SensorInv, SocketInv
<1>4. NetworkInv
  BY DEF Init, NetworkInv, Running
<1>5. LogInv
  BY DEF Init, LogInv
<1> QED
  BY <1>2, <1>3, <1>4, <1>5 DEF Inv

LEMMA OutcomesType == Outcomes \subseteq BOOLEAN
BY DEF Outcomes

LEMMA ResultsType == Results \subseteq Codes
BY DEF Results, Codes

LEMMA LinesType ==
    ASSUME TypeOK, NEW result \in Codes
    PROVE  Lines(result) \in Nat /\ Lines(result) <= 2
BY DEF Lines

LEMMA RememberType ==
    ASSUME TypeOK, NEW result \in Codes, Remember(result)
    PROVE  last' \in [wifi : 0..MaxWifi, result : Codes]
BY DEF Remember, TypeOK

LEMMA SayType ==
    ASSUME TypeOK, NEW n \in Nat, Say(n)
    PROVE  /\ pending' \in Nat /\ pending' = pending + n
           /\ logUpdated' \in BOOLEAN
           /\ (pending > 0 => logUpdated) => (pending' > 0 => logUpdated')
<1>1. pending' \in Nat /\ pending' = pending + n
  BY DEF Say, TypeOK
<1>2. CASE n > 0
  <2>1. logUpdated' = TRUE
    BY <1>2 DEF Say
  <2> QED
    BY <1>1, <2>1
<1>3. CASE n = 0
  <2>1. logUpdated' = logUpdated /\ pending' = pending
    BY <1>3 DEF Say, TypeOK
  <2> QED
    BY <1>1, <2>1 DEF TypeOK
<1> QED
  BY <1>1, <1>2, <1>3

LEMMA SayLines ==
    ASSUME TypeOK, NEW result \in Codes, NEW n \in Nat, Say(Lines(result) + n)
    PROVE  /\ pending' \in Nat /\ pending' <= pending + 2 + n
           /\ logUpdated' \in BOOLEAN
           /\ (pending > 0 => logUpdated) => (pending' > 0 => logUpdated')
<1>1. PICK k \in Nat : k = Lines(result) + n /\ k <= 2 + n
  BY LinesType
<1>2. Say(k)
  BY <1>1
<1>3. pending' \in Nat /\ pending' = pending + k /\ logUpdated' \in BOOLEAN
  BY <1>2, SayType
<1>4. (pending > 0 => logUpdated) => (pending' > 0 => logUpdated')
  BY <1>2, SayType
<1>5. pending' <= pending + 2 + n
  BY <1>1, <1>3 DEF TypeOK
<1> QED
  BY <1>3, <1>4, <1>5

LEMMA BootInv == Inv /\ Boot => Inv'
<1> SUFFICES ASSUME Inv, Boot
             PROVE  Inv'
  OBVIOUS
<1>1. PICK irrst \in Outcomes, accel \in Outcomes, enabled \in Outcomes,
           coefficient \in Outcomes :
        /\ sensors' = (IF irrst THEN {"irrst"} ELSE {})
                      \cup (IF accel THEN {"accel"} ELSE {})
                      \cup (IF enabled /\ coefficient THEN {"gyro"} ELSE {})
        /\ ready' = (IF irrst THEN {"irrst"} ELSE {})
                    \cup (IF accel THEN {"accel"} ELSE {})
                    \cup (IF enabled /\ coefficient THEN {"gyro"} ELSE {})
  BY DEF Boot, GyroSwitched
<1>2. sensors' = ready' /\ ready' \subseteq Sensors
  BY <1>1 DEF Sensors
<1>3. /\ pending' \in Nat /\ pending' = pending + 5 /\ logUpdated' \in BOOLEAN
      /\ pending' > 0 => logUpdated'
  BY SayType DEF Boot, Inv, LogInv
<1>a. TypeOK'
  BY <1>2, <1>3
     DEF Inv, TypeOK, Steps, Boot, network, session
<1>b. SensorInv'
  BY <1>2, <1>3
     DEF Inv, SensorInv, TypeOK, Boot, network, session
<1>c. SocketInv'
  BY <1>2, <1>3
     DEF Inv, SocketInv, TypeOK, Boot, network, session
<1>d. NetworkInv'
  BY <1>2, <1>3
     DEF Inv, NetworkInv, Running, SocketInv, TypeOK, Boot, network, session
<1>e. LogInv'
  BY <1>2, <1>3
     DEF Inv, LogInv, TypeOK, Boot, network, session
<1> QED
  BY <1>a, <1>b, <1>c, <1>d, <1>e DEF Inv

\* The steps of platform::loop
LEMMA LoopInv == Inv /\ Loop => Inv'
<1> SUFFICES ASSUME Inv, Loop
             PROVE  Inv'
  OBVIOUS
<1> USE DEF ToTick, Running
<1>1. CASE LoopUp
  BY <1>1
     DEF LoopUp, Inv, TypeOK, Steps, SensorInv, SocketInv, NetworkInv, LogInv,
         network, session, devices, log
<1>2. CASE LoopInvisible
  <2>1. PICK result \in Codes : Remember(result) /\ Say(Lines(result) + 0)
    BY <1>2, ResultsType, LinesType DEF LoopInvisible, Inv
  <2>2. /\ pending' \in Nat /\ pending' <= pending + 2
        /\ logUpdated' \in BOOLEAN /\ (pending' > 0 => logUpdated')
    BY <2>1, SayLines DEF Inv, LogInv, TypeOK
  <2>3. last' \in [wifi : 0..MaxWifi, result : Codes]
    BY <2>1, RememberType DEF Inv
  <2>a. TypeOK'
    BY <1>2, <2>2, <2>3
       DEF LoopInvisible, Inv, TypeOK, Steps, session, devices
  <2>b. SensorInv'
    BY <1>2, <2>2, <2>3
       DEF LoopInvisible, Inv, SensorInv, TypeOK, session, devices
  <2>c. SocketInv'
    BY <1>2, <2>2, <2>3
       DEF LoopInvisible, Inv, SocketInv, TypeOK, session, devices
  <2>d. NetworkInv'
    BY <1>2, <2>2, <2>3
       DEF LoopInvisible, Inv, NetworkInv, Running, SocketInv, TypeOK, session, devices
  <2>e. LogInv'
    BY <1>2, <2>2, <2>3
       DEF LoopInvisible, Inv, LogInv, TypeOK, session, devices
  <2> QED
    BY <2>a, <2>b, <2>c, <2>d, <2>e DEF Inv
<1>3. CASE LoopSocFails
  <2>1. PICK result \in Codes : Remember(result) /\ Say(Lines(result) + 0)
    <3>1. \E result \in Codes : Remember(result) /\ Say(Lines(result))
      BY <1>3 DEF LoopSocFails, Codes
    <3> QED
      BY <3>1, LinesType DEF Inv
  <2>2. /\ pending' \in Nat /\ pending' <= pending + 2
        /\ logUpdated' \in BOOLEAN /\ (pending' > 0 => logUpdated')
    BY <2>1, SayLines DEF Inv, LogInv, TypeOK
  <2>3. last' \in [wifi : 0..MaxWifi, result : Codes]
    BY <2>1, RememberType DEF Inv
  <2>a. TypeOK'
    BY <1>3, <2>2, <2>3
       DEF LoopSocFails, Inv, TypeOK, Steps, session, devices
  <2>b. SensorInv'
    BY <1>3, <2>2, <2>3
       DEF LoopSocFails, Inv, SensorInv, TypeOK, session, devices
  <2>c. SocketInv'
    BY <1>3, <2>2, <2>3
       DEF LoopSocFails, Inv, SocketInv, TypeOK, session, devices
  <2>d. NetworkInv'
    BY <1>3, <2>2, <2>3
       DEF LoopSocFails, Inv, NetworkInv, Running, SocketInv, TypeOK, session, devices
  <2>e. LogInv'
    BY <1>3, <2>2, <2>3
       DEF LoopSocFails, Inv, LogInv, TypeOK, session, devices
  <2> QED
    BY <2>a, <2>b, <2>c, <2>d, <2>e DEF Inv
<1>4. CASE LoopSocUp
  <2>1. PICK entered \in BOOLEAN, locked \in BOOLEAN :
          /\ ndm' = NdmAfter(entered, locked)
          /\ ndmuLocked' = (entered /\ locked)
          /\ Say(Lines(0) + IF entered /\ locked THEN 1 ELSE 2)
    BY <1>4, OutcomesType DEF LoopSocUp
  <2>2. PICK result \in Codes, n \in 1..2 : Say(Lines(result) + n)
    <3>1. CASE entered /\ locked
      <4>1. Say(Lines(0) + 1) /\ 0 \in Codes
        BY <2>1, <3>1 DEF Codes
      <4>2. 1 \in 1..2
        OBVIOUS
      <4> QED
        BY <4>1, <4>2, Zenon
    <3>2. CASE ~(entered /\ locked)
      <4>1. Say(Lines(0) + 2) /\ 0 \in Codes
        BY <2>1, <3>2 DEF Codes
      <4>2. 2 \in 1..2
        OBVIOUS
      <4> QED
        BY <4>1, <4>2, Zenon
    <3> QED
      BY <3>1, <3>2
  <2>3. /\ pending' \in Nat /\ pending' <= pending + 4
        /\ logUpdated' \in BOOLEAN /\ (pending' > 0 => logUpdated')
    BY <2>2, SayLines DEF Inv, LogInv, TypeOK
  <2>4. last' \in [wifi : 0..MaxWifi, result : Codes]
    BY <1>4, RememberType DEF Inv, LoopSocUp, Codes
  <2>5. /\ ndm' = IF ndmuLocked' THEN "locked" ELSE "free"
        /\ ndmuLocked' \in BOOLEAN
    BY <2>1 DEF NdmAfter
  <2>a. TypeOK'
    BY <1>4, <2>3, <2>4, <2>5
       DEF LoopSocUp, Inv, TypeOK, Steps, session, devices
  <2>b. SensorInv'
    BY <1>4, <2>3, <2>4, <2>5
       DEF LoopSocUp, Inv, SensorInv, TypeOK, session, devices
  <2>c. SocketInv'
    BY <1>4, <2>3, <2>4, <2>5
       DEF LoopSocUp, Inv, SocketInv, TypeOK, session, devices
  <2>d. NetworkInv'
    BY <1>4, <2>3, <2>4, <2>5
       DEF LoopSocUp, Inv, NetworkInv, Running, SocketInv, TypeOK, session, devices
  <2>e. LogInv'
    BY <1>4, <2>3, <2>4, <2>5
       DEF LoopSocUp, Inv, LogInv, TypeOK, session, devices
  <2> QED
    BY <2>a, <2>b, <2>c, <2>d, <2>e DEF Inv
<1> QED
  BY <1>1, <1>2, <1>3, <1>4 DEF Loop

LEMMA TickInv == Inv /\ Tick => Inv'
<1> SUFFICES ASSUME Inv, Tick
             PROVE  Inv'
  OBVIOUS
<1> USE DEF ToDraw, Running
<1>1. CASE Quiet
  <2> USE DEF Quiet, network, session, devices, log
  <2>1. step = "tick" /\ step' = "draw"
    BY DEF Tick, WaitDown, WaitInvisible, WaitVisible, TickQuiet, TickHello,
           TickExpire
  <2>2. TypeOK'
    BY <1>1, <2>1 DEF Inv, TypeOK, Steps
  <2>3. SensorInv'
    BY <1>1, <2>1 DEF Inv, SensorInv
  <2>4. SocketInv'
    BY <1>1, <2>1 DEF Inv, SocketInv
  <2>5. NetworkInv'
    BY <1>1, <2>1 DEF Inv, NetworkInv
  <2>6. LogInv'
    BY <1>1, <2>1 DEF Inv, LogInv, TypeOK
  <2> QED
    BY <2>2, <2>3, <2>4, <2>5, <2>6 DEF Inv
<1>2. CASE WaitInvisible
  <2>1. PICK result \in Codes : Remember(result) /\ Say(Lines(result) + 0)
    BY <1>2, ResultsType, LinesType DEF WaitInvisible, Inv
  <2>2. /\ pending' \in Nat /\ pending' <= pending + 2
        /\ logUpdated' \in BOOLEAN /\ (pending' > 0 => logUpdated')
    BY <2>1, SayLines DEF Inv, LogInv, TypeOK
  <2>3. last' \in [wifi : 0..MaxWifi, result : Codes]
    BY <2>1, RememberType DEF Inv
  <2>a. TypeOK'
    BY <1>2, <2>2, <2>3
       DEF WaitInvisible, Inv, TypeOK, Steps, session, devices
  <2>b. SensorInv'
    BY <1>2, <2>2, <2>3
       DEF WaitInvisible, Inv, SensorInv, TypeOK, session, devices
  <2>c. SocketInv'
    BY <1>2, <2>2, <2>3
       DEF WaitInvisible, Inv, SocketInv, TypeOK, session, devices
  <2>d. NetworkInv'
    BY <1>2, <2>2, <2>3
       DEF WaitInvisible, Inv, NetworkInv, Running, SocketInv, TypeOK, session, devices
  <2>e. LogInv'
    BY <1>2, <2>2, <2>3
       DEF WaitInvisible, Inv, LogInv, TypeOK, session, devices
  <2> QED
    BY <2>a, <2>b, <2>c, <2>d, <2>e DEF Inv
<1>3. CASE WaitVisible
  <2>1. PICK bound \in BOOLEAN :
          /\ open' = OpenAfter(bound)
          /\ g_sock' = bound
          /\ g_state' = IF bound THEN "LISTENING" ELSE g_state
    BY <1>3, OutcomesType DEF WaitVisible
  <2>2. open = 0
    BY <1>3 DEF WaitVisible, Inv, SocketInv
  <2>3. PICK result \in Codes : Say(Lines(result) + 1)
    BY <1>3 DEF WaitVisible, Codes
  <2>4. /\ pending' \in Nat /\ pending' <= pending + 3
        /\ logUpdated' \in BOOLEAN /\ (pending' > 0 => logUpdated')
    BY <2>3, SayLines DEF Inv, LogInv, TypeOK
  <2>5. last' \in [wifi : 0..MaxWifi, result : Codes]
    BY <1>3, RememberType DEF Inv, WaitVisible, Codes
  <2>6. open' = IF g_sock' THEN 1 ELSE 0
    BY <2>1, <2>2 DEF OpenAfter
  <2>7. g_sock' <=> g_state' # "WAITING_WIFI"
    BY <1>3, <2>1 DEF WaitVisible
  <2>a. TypeOK'
    BY <1>3, <2>1, <2>4, <2>5, <2>6, <2>7
       DEF WaitVisible, Inv, TypeOK, Steps, devices
  <2>b. SensorInv'
    BY <1>3, <2>1, <2>4, <2>5, <2>6, <2>7
       DEF WaitVisible, Inv, SensorInv, TypeOK, devices
  <2>c. SocketInv'
    BY <1>3, <2>1, <2>4, <2>5, <2>6, <2>7
       DEF WaitVisible, Inv, SocketInv, TypeOK, devices
  <2>d. NetworkInv'
    BY <1>3, <2>1, <2>4, <2>5, <2>6, <2>7
       DEF WaitVisible, Inv, NetworkInv, Running, SocketInv, TypeOK, devices
  <2>e. LogInv'
    BY <1>3, <2>1, <2>4, <2>5, <2>6, <2>7
       DEF WaitVisible, Inv, LogInv, TypeOK, devices
  <2> QED
    BY <2>a, <2>b, <2>c, <2>d, <2>e DEF Inv
<1>4. CASE TickHello
  <2>1. /\ (IF g_state = "LISTENING" THEN 2 ELSE 1) \in Nat
        /\ (IF g_state = "LISTENING" THEN 2 ELSE 1) <= 2
    OBVIOUS
  <2>2. /\ pending' \in Nat /\ pending' <= pending + 2
        /\ logUpdated' \in BOOLEAN /\ (pending' > 0 => logUpdated')
    BY <1>4, <2>1, SayType DEF TickHello, Inv, LogInv, TypeOK
  <2>a. TypeOK'
    BY <1>4, <2>2
       DEF TickHello, Inv, TypeOK, Steps, network, devices
  <2>b. SensorInv'
    BY <1>4, <2>2
       DEF TickHello, Inv, SensorInv, TypeOK, network, devices
  <2>c. SocketInv'
    BY <1>4, <2>2
       DEF TickHello, Inv, SocketInv, TypeOK, network, devices
  <2>d. NetworkInv'
    BY <1>4, <2>2
       DEF TickHello, Inv, NetworkInv, Running, SocketInv, TypeOK, network, devices
  <2>e. LogInv'
    BY <1>4, <2>2
       DEF TickHello, Inv, LogInv, TypeOK, network, devices
  <2> QED
    BY <2>a, <2>b, <2>c, <2>d, <2>e DEF Inv
<1>5. CASE TickExpire
  <2>1. /\ pending' \in Nat /\ pending' = pending + 1
        /\ logUpdated' \in BOOLEAN /\ (pending' > 0 => logUpdated')
    BY <1>5, SayType DEF TickExpire, Inv, LogInv, TypeOK
  <2>a. TypeOK'
    BY <1>5, <2>1
       DEF TickExpire, Inv, TypeOK, Steps, network, devices
  <2>b. SensorInv'
    BY <1>5, <2>1
       DEF TickExpire, Inv, SensorInv, TypeOK, network, devices
  <2>c. SocketInv'
    BY <1>5, <2>1
       DEF TickExpire, Inv, SocketInv, TypeOK, network, devices
  <2>d. NetworkInv'
    BY <1>5, <2>1
       DEF TickExpire, Inv, NetworkInv, Running, SocketInv, TypeOK, network, devices
  <2>e. LogInv'
    BY <1>5, <2>1
       DEF TickExpire, Inv, LogInv, TypeOK, network, devices
  <2> QED
    BY <2>a, <2>b, <2>c, <2>d, <2>e DEF Inv
<1> QED
  BY <1>1, <1>2, <1>3, <1>4, <1>5 DEF Tick, WaitDown, TickQuiet

LEMMA ExitInv == Inv /\ Exit => Inv'
<1> SUFFICES ASSUME Inv, Exit
             PROVE  Inv'
  OBVIOUS
<1> USE DEF Inv, TypeOK, Steps, SensorInv, SocketInv, NetworkInv, LogInv,
            Running, network, session, devices, log
<1>1. CASE SensorsOff
  BY <1>1 DEF SensorsOff
<1>2. CASE Close
  BY <1>2 DEF Close
<1>3. CASE NdmOff
  BY <1>3 DEF NdmOff
<1>4. CASE SocOff
  BY <1>4 DEF SocOff
<1> QED
  BY <1>1, <1>2, <1>3, <1>4 DEF Exit

LEMMA NextInv == Inv /\ [Next]_vars => Inv'
<1> SUFFICES ASSUME Inv, [Next]_vars
             PROVE  Inv'
  OBVIOUS
<1>1. ASSUME UNCHANGED <<network, session, devices>>,
             LoopEnds \/ Draw \/ WifiChanges \/ Settle
      PROVE  Inv'
  <2> USE <1>1 DEF LoopEnds, Draw, WifiChanges, Settle, network, session,
                   devices, log
  <2>1. TypeOK'
    <3>1. step' \in Steps /\ calm' \in BOOLEAN
      BY DEF Inv, TypeOK, Steps
    <3>2. wifi' \in 0..MaxWifi
      BY DEF Inv, TypeOK
    <3>3. pending' \in {pending, 0} /\ logUpdated' \in {logUpdated, FALSE}
      OBVIOUS
    <3>4. pending' \in Nat
      BY <3>3 DEF Inv, TypeOK
    <3>5. logUpdated' \in BOOLEAN
      BY <3>3, Zenon DEF Inv, TypeOK
    <3> QED
      BY <3>1, <3>2, <3>4, <3>5 DEF Inv, TypeOK
  <2>2. SensorInv'
    BY DEF Inv, SensorInv
  <2>3. SocketInv'
    BY DEF Inv, SocketInv
  <2>4. NetworkInv'
    BY DEF Inv, NetworkInv, Running
  <2>5. LogInv'
    BY DEF Inv, LogInv, TypeOK
  <2> QED
    BY <2>1, <2>2, <2>3, <2>4, <2>5 DEF Inv
<1>2. CASE UNCHANGED vars
  BY <1>2
     DEF vars, Inv, TypeOK, Steps, SensorInv, SocketInv, NetworkInv, LogInv,
         Running, network, session, devices, log
<1> QED
  BY <1>1, <1>2, BootInv, LoopInv, TickInv, ExitInv
     DEF Next, Main, LoopEnds, Draw, WifiChanges, Settle

-----------------------------------------------------------------------------
LEMMA SpecInv == Spec => []Inv
BY InitInv, NextInv, PTL DEF Spec

\* The program is in a state that its types name, whatever call failed.
THEOREM TypeSafe == Spec => []TypeOK
<1>1. Inv => TypeOK
  BY DEF Inv
<1> QED
  BY <1>1, SpecInv, PTL

\* main gives back what it took, for every combination of failures.
THEOREM ReleaseSafe == Spec => []Released
<1>1. Inv => Released
  BY DEF Inv, SensorInv, SocketInv, NetworkInv, Released
<1> QED
  BY <1>1, SpecInv, PTL

\* One socket at most, the one of g_sock, and never without soc.
THEOREM SocketSafe == Spec => []SocketHeld
<1>1. Inv => SocketHeld
  <2> SUFFICES ASSUME Inv
               PROVE  SocketHeld
    OBVIOUS
  <2>1. step \in Steps
    BY DEF Inv, TypeOK
  <2> QED
    BY <2>1
       DEF Inv, SocketInv, NetworkInv, SocketHeld, Running, Steps
<1> QED
  BY <1>1, SpecInv, PTL

\* No frame logs more than the window holds, and drawLog is told of it.
THEOREM LogSafe == Spec => []LogShown
<1>1. Inv => LogShown
  <2> SUFFICES ASSUME Inv
               PROVE  LogShown
    OBVIOUS
  <2>1. step \in Steps /\ pending \in Nat
    BY DEF Inv, TypeOK
  <2> QED
    BY <2>1, WindowAssumption DEF Inv, LogInv, LogShown, Steps
<1> QED
  BY <1>1, SpecInv, PTL
=============================================================================
