\* Two clients and one slot whose MAC changes, under fairness.  Rumble is off:
\* it is the subject of dsu_rumble.
SPECIFICATION FairSpec
CONSTANTS
    Clients = {c1, c2}
    MaxSlots = 1
    Intensities = {0}
    Timeout = 1
    CounterMod = 2
    MaxInbox = 1
    Crc32 <- Checksum
INVARIANTS
    TypeOK
    SubscribedOnce
    NoGaps
    RequestsRead
PROPERTIES
    LiveClientKept
    SilentClientGoes
