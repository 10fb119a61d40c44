SPECIFICATION FairSpec
CONSTANTS
    Capacity = 2
    MaxBlocks = 6
    MaxTurns = 3
    MaxFast = 2
    MsgLen = 2
INVARIANTS
    NoLostWakeup
    KeystreamInStep
    LastBlockDecrypted
    VerifiesOnlyFreshStream
PROPERTIES
    DecryptedIffNewest
    EveryRequestRuns
CHECK_DEADLOCK FALSE
