SPECIFICATION Spec
CONSTANTS
    start = start
    stop = stop
    m1 = m1
    m2 = m2
    NoMessage = NoMessage
    StartMessage = start
    Messages <- MCMessages
    StopMessages <- MCStopMessages
PROPERTIES
    NoProcessingDuringSupervision
CHECK_DEADLOCK FALSE
