SPECIFICATION FairSpec
CONSTANTS
    first = first
    second = second
    first1 = first1
    first2 = first2
    second1 = second1
    second2 = second2
    NoRequest = NoRequest
    Actors <- MCActors
    Requests <- MCRequests
    To <- MCTo
PROPERTIES
    EscalationIsDecided
CHECK_DEADLOCK FALSE
