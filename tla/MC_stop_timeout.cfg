\* Scheduled mode where an execution may outlast gocron's stop timeout.
CONSTANTS
    UseCron = TRUE
    Timeout = 5
    MaxTasks = 1
    MaxFires = 1
SPECIFICATION SpecStopTimeout
INVARIANTS
    GracefulExitQuiescent
