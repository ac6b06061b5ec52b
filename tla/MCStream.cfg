CONSTANTS
    kCheapPrepend = 1
    kInitialSize = 3
    Bytes <- SomeBytes
    Base = 4
    HeaderSize = 2
    ExtraSize = 2
    Room = 4
    Messages <- SomeMessages
    MaxSent = 3
SPECIFICATION StreamFairSpec
INVARIANTS
    ReceivedIsPrefixOfSent
    RestInFlight
PROPERTIES
    AllArrive
CHECK_DEADLOCK FALSE
