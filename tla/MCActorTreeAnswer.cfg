SPECIFICATION FairSpec
CONSTANTS
    PrivateRoot = PrivateRoot
    PublicRoot = PublicRoot
    NoActor = NoActor
    parent1 = parent1
    child = child
    second = second
    Actors <- MCActors
    Creator <- MCCreator
    Named <- MCNamed
    SupervisorName <- MCSupervisorName
    HashCode <- MCHashCode
    BucketCount = 2
    Types <- MCTypes
    Type <- MCType
    Registered = {}
    Fallible = {}
    ClientCalls <- MCTwoStops
PROPERTIES
    StopIsAnswered
CHECK_DEADLOCK FALSE
