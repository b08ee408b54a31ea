\* Expected to fail: rumble asked for by a client that is gone is held.
SPECIFICATION Spec
CONSTANTS
    Clients = {c1}
    MaxSlots = 1
    Intensities = {0, 1}
    Timeout = 1
    CounterMod = 2
    MaxInbox = 1
    Crc32 <- Checksum
INVARIANTS
    RumbleDropped
