SPECIFICATION FairSpec
CONSTANTS
    None = None
    Envs <- MCFairEnvs
    MaxXid = 3
    MaxLeases = 1
    MaxSignals = 1
CHECK_DEADLOCK FALSE
PROPERTIES AcquiresLease ExitEnds
