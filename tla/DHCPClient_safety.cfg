SPECIFICATION Spec
CONSTANTS
    None = None
    Envs <- MCEnvs
    MaxXid = 3
    MaxLeases = 2
    MaxSignals = 2
CHECK_DEADLOCK FALSE
INVARIANTS TypeOK LeaseFitsState TimersFitLease SendsForState
PROPERTIES GrantsAreCurrent
