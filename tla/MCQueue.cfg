SPECIFICATION FairSpec
CONSTANTS
    main = main
    low = low
    high = high
    r1 = r1
    r2 = r2
    NoRequest = NoRequest
    Actor = {main, low, high}
    Level <- Levels
    May <- Handlers
    Request = {r1, r2}
    Max = 3
    Port = "save"
    MaxDepth = 1
INVARIANTS
    TypeOK
    MutualExclusion
    MaskedWhileInside
PROPERTIES
    QueueRefinement
    EveryRequestServed
