\* A face button, two opposite directions and a trigger; the owner sets a
\* trigger and a button without pressure; three pressures.
SPECIFICATION PipelineSpec
CHECK_DEADLOCK FALSE
CONSTANTS
    Pressable = {"A", "UP", "DOWN", "ZL"}
    MaxPos = 0
    ApiButtons = {"L2", "HOME"}
    Full = 2
    IdMod = 3
INVARIANTS
    PipelineTypeOK
    FrameFollowsPacket
PROPERTIES
    OthersKept
    TouchIdStable
    ImplementsViews
