\* One PC with the code's timers in seconds (0.5 s counts as one unit):
\* keepalive 5, poll 1, console timeout 30; three lost keepalives in a row.
\* The idle limit of the receiver is shortened from 30.
SPECIFICATION FairSpec
CONSTANTS
    Hosts = {h1}
    NoHost = NoHost
    MaxDelay = 1
    HelloTimeout = 30
    HandshakeTimeout = 1
    HandshakeRetries = 2
    PollTimeout = 1
    AutoTerminate = 8
    KeepaliveInterval = 5
    MaxLoss = 3
INVARIANTS
    IdleEnds
PROPERTIES
    KeepaliveHolds
    SessionHeals
    HandshakeResolves
