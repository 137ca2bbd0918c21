SPECIFICATION Spec
CONSTANTS
    c1 = c1
    c2 = c2
    c3 = c3
    d1 = d1
    d2 = d2
    a1 = a1
    a2 = a2
    Coroutines = {c1, c2, c3}
    Idents = {d1, d2}
    Accounts = {a1, a2}
    NULL = NULL
    Operations = {"signIn", "signOut", "link", "apply"}
    Faults = {"giveUp", "restart"}
SYMMETRY Symmetry
INVARIANT NoResurrection
INVARIANT RetryStaysInSession
INVARIANT PendingUntilLinked
INVARIANT FailureCanBeRetried
PROPERTY SessionSpec
PROPERTY CallsEndOnlyTheirSession
PROPERTY NoSilentAnonymity
CHECK_DEADLOCK FALSE
