SPECIFICATION FairSpec
CONSTANTS
    start = start
    stop = stop
    m1 = m1
    m2 = m2
    NoMessage = NoMessage
    StartMessage = start
    Messages <- MCMessages
    StopMessages <- MCStopMessages
INVARIANTS
    TypeOK
    NoLostWakeup
    OneAtATime
    DeadLettersAreRefusals
    SuspensionHasOwner
PROPERTIES
    QuarantineAfterCleanStart
    ImplementsDelivery
    AcceptedIsSettled
CHECK_DEADLOCK FALSE
