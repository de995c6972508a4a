\* Scheduled mode with a per-execution timeout: two tasks, three triggers.
CONSTANTS
    UseCron = TRUE
    Timeout = 5
    MaxTasks = 2
    MaxFires = 3
SPECIFICATION FairSpec
INVARIANTS
    TypeOK
    JobAlwaysFound
    ExecutionIdsDistinct
    CompleteCarriesOwnXid
    EnginesOfOneExecution
    GracefulExitQuiescent
PROPERTIES
    ExecutionTerminates
    SignalLeadsToExit
    CronImplementsSingleFlight
    XidStableWhileInUse
