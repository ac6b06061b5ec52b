CONSTANTS
    Servers = {"ftp", "chat"}
    MaxInFlight = 2
    MaxRequests = 5
SPECIFICATION Spec
INVARIANTS
    WaitIsAnswered
    OneMenu
    NoLostWakeup
    ChannelMatchesState
CHECK_DEADLOCK FALSE
