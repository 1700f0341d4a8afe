SPECIFICATION FairSpec
CONSTANTS
    NoMessage = NoMessage
    Actors <- MCActors
    Messages <- MCMessages
    Target <- MCTarget
    Calls <- MCCalls
    Awaited <- MCAwaited
INVARIANTS
    TypeOK
    NoCircularWait
    AnswersFollowCallees
    SelfSendsFollow
PROPERTIES
    EveryCallSettles
CHECK_DEADLOCK FALSE
