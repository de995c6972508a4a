\* Scheduled mode with a time zone that may fail to load.
CONSTANTS
    UseCron = TRUE
    Timeout = 5
    MaxTasks = 1
    MaxFires = 1
SPECIFICATION FairSpec
INVARIANT
    TzFallbackNamesRequested
