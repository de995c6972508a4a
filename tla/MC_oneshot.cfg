\* Unscheduled mode (-use_cron=false) with a timeout: four tasks (two
\* interfaces, each with a tcpdump and a JSON task).
CONSTANTS
    UseCron = FALSE
    Timeout = 5
    MaxTasks = 4
    MaxFires = 1
SPECIFICATION FairSpec
INVARIANTS
    EnginesOfOneExecution
    GracefulExitQuiescent
PROPERTIES
    OneShotTerminates
