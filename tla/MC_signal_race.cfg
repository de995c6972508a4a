\* Scheduled mode: a trigger racing the termination signal.
CONSTANTS
    UseCron = TRUE
    Timeout = 5
    MaxTasks = 1
    MaxFires = 2
SPECIFICATION FairSpec
INVARIANT
    NoStartAfterSignal
