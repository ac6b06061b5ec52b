CONSTANTS
    u1 = u1
    u2 = u2
    c1 = c1
    c2 = c2
    NoUser = NoUser
    NoConn = NoConn
    Users = {u1, u2}
    Conns = {c1, c2}
    Registered = {u1}
    MaxRequests <- RequestsOf
SPECIFICATION FairSpec
INVARIANTS
    TypeOK
    RoutesAreProved
    DeadRoutesNeedARace
    StatusMatchesScreen
PROPERTIES
    RequestsAnswered
CHECK_DEADLOCK FALSE
