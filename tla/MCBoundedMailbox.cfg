SPECIFICATION FairSpec
CONSTANTS
    MaxMessages = 4
    Capacity = 2
INVARIANTS
    TypeOK
    NoLostWakeup
    DropsAreAccounted
    AcceptanceOrder
    DroppedForNewer
PROPERTIES
    AcceptedIsSettled
CHECK_DEADLOCK FALSE
