SPECIFICATION Spec
CONSTANTS
    k1 = k1
    k2 = k2
    Thread = {w1}
    Reader = {}
    Key = {k1}
    Value = {v1}
    BloomBits <- NestedBits
    Delete = Delete
    Torn = Torn
    None = None
    NumLevels = 2
    DataThreshold = 1
    SstThreshold = 2
    Crashes = TRUE
    MaxWrites = 2
INVARIANTS
    CanReopen
CHECK_DEADLOCK FALSE
