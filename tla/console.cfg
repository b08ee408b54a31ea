\* The program ends: no deadlock check.
SPECIFICATION FairSpec
CHECK_DEADLOCK FALSE
CONSTANTS
    MaxWifi = 2
    WindowHeight = 29
INVARIANTS
    TypeOK
    Released
    SocketHeld
    LogShown
PROPERTIES
    ComesUp
