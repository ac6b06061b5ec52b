CONSTANTS
    p1 = p1
    p2 = p2
    f1 = f1
    f2 = f2
    f3 = f3
    Threads = {p1, p2}
    Functors = {f1, f2, f3}
SPECIFICATION FairSpec
INVARIANTS
    NoSleepOverWork
PROPERTIES
    FifoOnce
    QueuedRuns
    QuitEndsLoop
CHECK_DEADLOCK FALSE
