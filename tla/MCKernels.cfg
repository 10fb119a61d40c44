SPECIFICATION HostSpec
CONSTANTS
    N = 256
    Key <- VectorKey
    Dropped = 256
    MessageLengths = {1, 4, 5, 16, 64}
    MaxSent = 336
INVARIANTS
    InStep
    MatchesProgram
PROPERTIES
    MessagesRestored
CHECK_DEADLOCK FALSE
