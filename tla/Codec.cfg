SPECIFICATION Spec
CONSTANTS
    Class <- MCClass
    Kernel <- MCKernel
    Values <- MCValues
    Datagrams <- MCDatagrams
    Top = "ifinfmsg"
    NoField = NoField
    MaxEncode = 2
INVARIANTS ReadsBack EncodesWire CacheIsTrue
CHECK_DEADLOCK FALSE
