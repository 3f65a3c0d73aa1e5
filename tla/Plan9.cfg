SPECIFICATION Spec
CONSTANTS
    c1 = c1
    c2 = c2
    t1 = t1
    t2 = t2
    t3 = t3
    f1 = f1
    f2 = f2
    none = none
    root = root
    Clients = {c1, c2}
    Tasks = {t1, t2, t3}
    ClientOf <- MCClientOf
    Files = {f1, f2}
    Missing = none
    Root = root
    MinTag = 1
    MaxTag = 9
    CellSize = 3
    NoTag = 65535
    Ban = 8
    Plans <- MCPlans
    Envs <- MCEnvs
INVARIANTS CallServed TagsLast
PROPERTIES OwnAnswer RequestsEnd
CHECK_DEADLOCK FALSE
