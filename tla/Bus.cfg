SPECIFICATION FairBusSpec
CONSTANTS
    Kind = {"jig"}
    None = None
    MaxListed = 1
    MaxEvents = 2
INVARIANTS
    OneOrder
    ListenersStay
    BucketsExist
PROPERTIES
    ShutdownEnds
CHECK_DEADLOCK FALSE
