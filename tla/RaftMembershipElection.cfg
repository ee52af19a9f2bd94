SPECIFICATION MembershipSpec
CONSTANTS
    s1 = s1
    s2 = s2
    s3 = s3
    None = None
    Server = {s1, s2, s3}
    Members = {s1, s2, s3}
    Command = {}
    Request = {}
    Reconfig <- RemoveTwo
    Gateway = {s1}
    Links <- AllLinks
    Campaign <- Successor
    Restartable = {}
    MaxLogLen = 2
INVARIANTS
    ElectionSafety
CHECK_DEADLOCK FALSE
