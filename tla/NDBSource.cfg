SPECIFICATION Spec
CONSTANTS
    eth = eth
    addr = addr
    route = route
    zero = zero
    Links = {eth}
    Children = {addr, route}
    Zero = zero
    Parent <- MCParent
    MaxVal = 1
    Order <- MCOrder
    MaxChanges = 2
    MaxMixed = 1
    MaxFails = 1
    MaxLost = 1
    MaxOps = 2
    ApiObjs = {route}
    Envs <- MCEnvs
INVARIANTS BacklogIsDifference
PROPERTIES IsReplica RestartLoads CatchesUp RestartReturns
CHECK_DEADLOCK FALSE
