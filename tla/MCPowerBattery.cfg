SPECIFICATION Spec
CONSTANTS
    Width = 8
    TickMod = 8
    Timeouts = {0, 3, 5}
    MaxIdle = 7
    MaxTouches = 0
INVARIANTS
    HandlerDecides
CHECK_DEADLOCK FALSE
