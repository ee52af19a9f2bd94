SPECIFICATION MembershipSpec
CONSTANTS
    s1 = s1
    s2 = s2
    s3 = s3
    None = None
    Server = {s1, s2}
    Members = {s1, s2}
    Command = {}
    Request = {r1}
    Reconfig <- RemoveAdd
    Gateway = {s1}
    Links <- AllLinks
    Campaign <- OneLeader
    Restartable = {}
    MaxLogLen = 3
INVARIANTS
    NoPanic
CHECK_DEADLOCK FALSE
