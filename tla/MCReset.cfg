SPECIFICATION Spec
CONSTANTS
    N = 3
    Ctx = {s1, h1}
    Heap = {h1}
    s1 = s1
    h1 = h1
    Keys <- SmallKeys
    Discard = 1
    Lengths = {0, 2}
    MaxPos = 3
INVARIANTS
    ResetReusesKey
