SPECIFICATION FairSpec
CONSTANTS
    Keys = {k1, k2}
    Nonces <- MCNonces
    Earlier <- MCEarlier
    Bytes = {"b"}
    Texts <- MCTexts
    Faults = {"open", "stat", "alloc", "intr", "io", "write"}
    MaxLen = 2
    MaxTexts = 2
    Calls <- MCCalls
INVARIANTS
    TypeOK
    NothingLeft
    OutputIsAVersion
PROPERTIES
    ZeroMeansWritten
    CallsReturn
