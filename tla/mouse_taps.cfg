\* Two positions, two buttons for one key and X; short timers.
SPECIFICATION FairSpec
CONSTANTS
    Pressable = {"A", "L", "X"}
    MaxPos = 1
    TapRelease = 2
    TapReenter = 3
    ClickThreshold = 1
INVARIANTS
    TypeOK
    NoStuckButton
PROPERTIES
    StillTapCounts
    TapOutcome
    TapResolves
