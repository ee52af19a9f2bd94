SPECIFICATION Spec
CONSTANTS
    Node = {1, 2}
    Conn = {c1, c2, c3}
    None = None
    MaxFailures = 1
    MaxChanges = 1
INVARIANTS
    TypeOK
    SenderHasReader
PROPERTIES
    Reconnects
    StaysConnected
    NoLeak
