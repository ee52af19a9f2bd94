SPECIFICATION Spec
CONSTANTS
    Self = 1
    Peer = {2, 3}
    None = None
    Torn = Torn
    Sentinel <- Zero
    LeaderLog <- Logs
    LeaderCommit <- Committed
    MaxTerm = 2
    MaxIndex = 2
    MaxStarts = 2
INVARIANTS
    DiskInSync
