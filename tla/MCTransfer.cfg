CONSTANTS
    c1 = c1
    c2 = c2
    Clients = {c1, c2}
    Names = {"f"}
    MaxOps = 3
    MaxFaults = 1
SPECIFICATION Spec
INVARIANTS
    FilesIntact
    WaitHasCause
PROPERTY TransfersEnd
CHECK_DEADLOCK FALSE
