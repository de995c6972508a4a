\* Scheduled mode, one trigger: the stamp of the "execution started" line.
CONSTANTS
    UseCron = TRUE
    Timeout = 5
    MaxTasks = 1
    MaxFires = 1
SPECIFICATION FairSpec
INVARIANT
    StartedCarriesOwnXid
