SPECIFICATION Spec
CONSTANTS
    t1 = t1
    t2 = t2
    foo = foo
    Threads = {t1, t2}
    Names = {foo}
    MaxTries = 1
    Plans <- MCPlans
    Envs <- MCEnvs
INVARIANTS TypeOK ChildrenReaped NamesAreWhole OneNamespace
PROPERTIES AnswerOfThisChild CallsReturn
CHECK_DEADLOCK FALSE
