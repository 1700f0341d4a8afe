SPECIFICATION FairSpec
CONSTANTS
    Teller = Teller
    Bank = Bank
    Coordinator = Coordinator
    Client = Client
    Nobody = Nobody
    NaN = NaN
    Ticker = Ticker
    Alarm = Alarm
    Tasks <- MCTasks
    Repeated <- MCRepeated
    Workloads <- MCWorkloads
INVARIANTS
    TypeOK
    Books
    OneStepInFlight
    ContextOfRequest
    TimersCanBeCleared
PROPERTIES
    RequestsAnswered
    TransfersSettle
\* the users stop, histories may leave calls unanswered
CHECK_DEADLOCK FALSE
