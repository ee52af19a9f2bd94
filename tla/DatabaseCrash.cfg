SPECIFICATION Spec
CONSTANTS
    k1 = k1
    k2 = k2
    Thread = {w1}
    Reader = {}
    Key = {k1, k2}
    Value = {v1}
    BloomBits <- NestedBits
    Delete = Delete
    Torn = Torn
    None = None
    NumLevels = 3
    DataThreshold = 1
    SstThreshold = 0
    Crashes = TRUE
    MaxWrites = 4
INVARIANTS
    TypeOK
    TablesOnDisk
PROPERTIES
    StoreSpec
CHECK_DEADLOCK FALSE
