SPECIFICATION Spec
CONSTANTS
    s1 = s1
    s2 = s2
    s3 = s3
    None = None
    Server = {s1, s2, s3}
    Members = {s1, s2, s3}
    Command = {}
    Request = {r1}
    Gateway = {s1, s2}
    Links <- HalfOpen
    Campaign <- SplitVote
    Restartable = {s2}
    MaxLogLen = 1
INVARIANTS
    TypeOK
    ElectionInv
    ElectionSafety
    LeaderHintAgreement
    AcknowledgedWriteDurable
    LeaderCompleteness
PROPERTIES
    LeaderAppendOnly
CHECK_DEADLOCK FALSE
