SPECIFICATION Spec
CONSTANTS
    None = None
    Envs <- MCExit
    MaxXid = 2
    MaxLeases = 2
    MaxSignals = 0
CHECK_DEADLOCK FALSE
INVARIANTS ExitCompletes
