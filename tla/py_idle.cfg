\* The timers of the code, in half seconds.
SPECIFICATION Spec
CONSTANTS
    Threads = {t1, t2}
    NoThread = NoThread
    HandshakeTimeout = 1
    HandshakeRetries = 30
    PollTimeout = 2
    JoinTimeout = 4
    AutoTerminate = 60
    KeepaliveInterval = 10
    ShowTime = 1
    Strangers = FALSE
SYMMETRY Symmetry
INVARIANT
    NoInputEnds
