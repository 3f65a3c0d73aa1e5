SPECIFICATION FairSpec
CONSTANTS
    r1 = r1
    r2 = r2
    None = None
    Req <- MCTwo
    Batches <- MCNoBatch
    Parser <- MCOne
    Seqs <- MCSeqs
    Ban = 1
    MaxTries = 1
    Answers <- MCDumps
    MaxNotes = 1
    Envs <- MCFairEnvs
CHECK_DEADLOCK FALSE
PROPERTIES ResponsesEnd CloseWakesReader
