SPECIFICATION FairSpec
CONSTANTS
    NoMessage = NoMessage
    Actors <- BankActors
    Messages <- BankMessages
    Target <- BankTarget
    Calls <- BankCallsOf
    Awaited <- BankAwaited
PROPERTIES
    SelfSendsFinish
CHECK_DEADLOCK FALSE
