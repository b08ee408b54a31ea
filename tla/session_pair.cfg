SPECIFICATION Spec
CONSTANTS
    Hosts = {h1, h2}
    NoHost = NoHost
    MaxDelay = 0
    HelloTimeout = 4
    HandshakeTimeout = 1
    HandshakeRetries = 1
    PollTimeout = 1
    AutoTerminate = 1
    KeepaliveInterval = 1
    MaxLoss = 1
SYMMETRY Symmetry
INVARIANTS
    TypeOK
    NoPhantomSession
    DeadHostReleased
PROPERTIES
    ImplementsLease
