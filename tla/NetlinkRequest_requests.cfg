SPECIFICATION Spec
CONSTANTS
    r1 = r1
    r2 = r2
    None = None
    Req <- MCTwo
    Batches <- MCBatches
    Parser <- MCNone
    Seqs <- MCSeqs
    Ban = 1
    MaxTries = 2
    Answers <- MCAnswers
    MaxNotes = 1
    Envs <- MCEnvs
SYMMETRY Symmetric
CHECK_DEADLOCK FALSE
INVARIANTS TypeOK OwnTags LateAnswersAreOld NotTruncated
