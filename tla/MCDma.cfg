SPECIFICATION FairSpec
CONSTANTS
    MaxBlocks = 3
    MaxSends = 2
    MaxReads = 2
INVARIANTS
    TypeOK
    HandlerFindsBlock
    NoBlockTwice
    CalmCopyIsNewest
    MessageReadable
    NeverWaitsForNothing
PROPERTIES
    MessagesGoOutWhole
    SendsReturn
CHECK_DEADLOCK FALSE
