SPECIFICATION DivergedSpec
CONSTANTS
    s1 = s1
    s2 = s2
    s3 = s3
    None = None
    Server = {s1, s2, s3}
    Members = {s1, s2, s3}
    Command = {c1}
    Request = {}
    Gateway = {s3}
    Links <- HalfOpen
    Campaign <- ReturningLeader
    Restartable = {}
    MaxLogLen = 2
INVARIANTS
    LogMatching
    StateMachineSafety
    AppliedInLog
    MatchIndexTruthful
    NoPanic
CHECK_DEADLOCK FALSE
