CONSTANTS
    ann = ann
    ben = ben
    Unknown = Unknown
    None = None
    Users = {ann, ben}
    MaxRequests <- RequestsOf
    MaxWords <- WordsOf
    MaxFaults = 0
SPECIFICATION Spec
INVARIANT
    StrangersSilent
CHECK_DEADLOCK FALSE
