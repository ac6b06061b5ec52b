CONSTANTS
    c1 = c1
    m1 = m1
    m2 = m2
    NoConn = NoConn
    Conns = {c1}
    Monitors = {m1, m2}
    MaxTasks = 4
SPECIFICATION FairSpec
INVARIANTS
    PlainPointersValid
    ReleasedAfterOneDown
    AssertsHoldUnlessForced
PROPERTIES
    ClosedIsReleased
CHECK_DEADLOCK FALSE
