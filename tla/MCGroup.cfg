CONSTANTS
    ann = ann
    ben = ben
    None = None
    Users = {ann, ben}
    MaxRequests <- RequestsOf
    MaxWords <- WordsOf
    MaxTasks = 2
    MaxFaults = 1
SPECIFICATION Spec
INVARIANTS
    MembershipAgrees
    GroupHasOwner
    CounterCountsUnseen
    WaitIsServed
CHECK_DEADLOCK FALSE
