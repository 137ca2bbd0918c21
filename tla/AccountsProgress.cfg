SPECIFICATION FairSpec
CONSTANTS
    s1 = s1
    s2 = s2
    Subs = {s1, s2}
    d1 = d1
    d2 = d2
    Idents = {d1, d2}
    u1 = u1
    u2 = u2
    u3 = u3
    UserIds = {u1, u2, u3}
    r1 = r1
    r2 = r2
    r3 = r3
    Requests = {r1, r2, r3}
    a1 = a1
    Apps = {a1}
    Operations = {"link", "delete"}
    FailPoints = {"deleteCommit", "deleteCognito", "linkCommit"}
    TokenLife = 2
    TombstoneLife = 2
    NULL = NULL
PROPERTY EveryRequestEnds
CHECK_DEADLOCK FALSE
