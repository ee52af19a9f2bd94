SPECIFICATION FairSpec
CONSTANTS
    k1 = k1
    k2 = k2
    Thread = {w1, w2, r1}
    Reader = {r1}
    Key = {k1}
    Value = {v1}
    BloomBits <- NestedBits
    Delete = Delete
    Torn = Torn
    None = None
    NumLevels = 2
    DataThreshold = 1
    SstThreshold = 2
    Crashes = FALSE
    MaxWrites = 5
INVARIANTS
    PrioritiesOrdered
    GetIsLinearizable
PROPERTIES
    StoreSpec
    CallsReturn
CHECK_DEADLOCK FALSE
