SPECIFICATION FairSpec
CONSTANTS
    PrivateRoot = PrivateRoot
    PublicRoot = PublicRoot
    NoActor = NoActor
    parent1 = parent1
    child = child
    second = second
    Actors <- MCActors
    Creator <- MCCreator
    Named <- MCNamed
    SupervisorName <- MCSupervisorName
    HashCode <- MCHashCode
    BucketCount = 2
    Types <- MCTypes
    Type <- MCType
    Registered = {"parent"}
    Fallible <- MCFallible
    ClientCalls <- MCCalls
INVARIANTS
    TypeOK
    ChildrenStopFirst
    CloseInOrder
    TreeAgrees
    FailuresAreHeard
PROPERTIES
    IndexOutlivesSecondStop
    ImplementsLives
    StopsEnd
    FailuresAreSettled
CHECK_DEADLOCK FALSE
