SPECIFICATION Spec
CONSTANTS
    r1 = r1
    r2 = r2
    None = None
    Req <- MCOne
    Batches <- MCNoBatch
    Parser <- MCNone
    Seqs <- MCSeqs
    Ban = 1
    MaxTries = 1
    Answers <- MCAnswers
    MaxNotes = 1
    Envs <- MCForeign
CHECK_DEADLOCK FALSE
INVARIANTS OwnConversation
