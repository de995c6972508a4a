\* Scheduled mode without a timeout (-timeout=0, the default).
CONSTANTS
    UseCron = TRUE
    Timeout = 0
    MaxTasks = 1
    MaxFires = 2
SPECIFICATION FairSpec
PROPERTY
    TasksEndedLeadsToReturn
