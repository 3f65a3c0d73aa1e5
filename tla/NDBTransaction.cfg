SPECIFICATION Spec
CONSTANTS
    eth0 = eth0
    eth1 = eth1
    ip1 = ip1
    ip2 = ip2
    Links = {eth0, eth1}
    Addrs = {ip1, ip2}
    Owner <- MCOwner
    MaxVal = 2
    Tries = 2
    Plans <- MCPlans
    Starts <- MCStarts
    MaxRefusals = 1
    MaxOthers = 1
    Envs <- MCEnvs
PROPERTIES CommitConfirmed FailedCommitRestores FailedTransactionRestores
    RollbackRestores Returns
CHECK_DEADLOCK FALSE
