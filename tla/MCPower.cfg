SPECIFICATION FairSpec
CONSTANTS
    Width = 16
    TickMod = 16
    Timeouts = {0, 3, 5}
    MaxIdle = 7
    MaxTouches = 1
INVARIANTS
    IdleIsExact
    NoLeak
PROPERTIES
    AlwaysSleepsAgain
CHECK_DEADLOCK FALSE
