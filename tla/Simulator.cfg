SPECIFICATION Spec
CONSTANTS
    N = 2
    Fault <- Faults
    Delays = {1}
    DropCounts = {1}
    MaxMessages = 2
    MaxFaults = 3
    MaxTime = 2
INVARIANTS
    TypeOK
    CopiesAccounted
    FaultsOnTime
    IdleIsQuiet
    ChaosConverges
PROPERTIES
    RunReturns
CONSTRAINT ThreeAtOnce
ACTION_CONSTRAINTS
    ChaosFirst
    FlushBeforeThird
CHECK_DEADLOCK FALSE
