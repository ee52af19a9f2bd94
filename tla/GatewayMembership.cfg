SPECIFICATION GatewaySpec
CONSTANTS
    s1 = s1
    s2 = s2
    a = a
    b = b
    None = None
    Server = {s1, s2}
    Members = {s1, s2}
    Command = {}
    Request <- Submitted
    Reconfig <- Changes
    Gateway = {}
    Links <- AllLinks
    Campaign <- Handover
    Restartable = {}
    MaxLogLen = 2
    Call = {a, b}
    Operation <- Operations
    Ids <- InOrder
    Unreliable <- LostCall
INVARIANTS
    OkMeansApplied
    CheckedUntilDone
    PeersFollowEntries
    ProgressForPeers
PROPERTIES
    AskedOnce
    CallsAnswered
CHECK_DEADLOCK FALSE
CONSTRAINT OneOrTheOther
