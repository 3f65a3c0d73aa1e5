SPECIFICATION MCSpec
CONSTANTS
    t1 = t1
    t2 = t2
    None = None
    KeyError = KeyError
    Thread <- MCThread
    BanTicks <- MCTicks
    CellSize = 2
    MinAddr = 1
    MaxAddr = 3
    Reverse = FALSE
    Release = 0
    Misuse = TRUE
    MaxBan = 1
INVARIANTS PoolConsistent
PROPERTIES IsPool ReverseIsPool AllocTerminates
