SPECIFICATION FairSpec
CONSTANTS
    c1 = c1
    c2 = c2
    c3 = c3
    d1 = d1
    d2 = d2
    d3 = d3
    a1 = a1
    Coroutines = {c1, c2, c3}
    Idents = {d1, d2}
    Accounts = {a1}
    NULL = NULL
    Operations = {"signIn", "link", "submit", "apply"}
    Faults = {"offline"}
INVARIANT AnswersCollected
PROPERTY EveryOperationEnds
CHECK_DEADLOCK FALSE
