CONSTANTS
    w1 = w1
    w2 = w2
    w3 = w3
    p1 = p1
    p2 = p2
    t1 = t1
    t2 = t2
    t3 = t3
    t4 = t4
    Workers = {w1, w2, w3}
    Callers = {p1, p2}
    Tasks = {t1, t2, t3, t4}
SPECIFICATION PoolFairSpec
INVARIANTS
    NoTaskBesideSleeper
    DrainedWhenDone
PROPERTIES
    StartsInOrder
    DestructorReturns
CHECK_DEADLOCK FALSE
