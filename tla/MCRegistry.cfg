CONSTANTS
    ann = ann
    ben = ben
    Unknown = Unknown
    None = None
    Users = {ann, ben}
    MaxRequests <- RequestsOf
    MaxFaults = 1
    MaxWords <- WordsOf
SPECIFICATION Spec
INVARIANTS
    FriendshipIsMutual
    NoRequestBetweenFriends
    FriendsAgreed
    DeletedLeavesNothing
PROPERTY
    AnsweredUnlessOverlapped
CHECK_DEADLOCK FALSE
