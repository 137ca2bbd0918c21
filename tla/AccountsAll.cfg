SPECIFICATION Spec
CONSTANTS
    s1 = s1
    s2 = s2
    Subs = {s1, s2}
    d1 = d1
    d2 = d2
    d3 = d3
    Idents = {d1, d2, d3}
    u1 = u1
    u2 = u2
    u3 = u3
    UserIds = {u1, u2, u3}
    r1 = r1
    r2 = r2
    r3 = r3
    Requests = {r1, r2, r3}
    a1 = a1
    Apps = {a1}
    Operations = {"link", "delete", "submit", "profile", "read", "getToken", "issueToken", "applyToken"}
    FailPoints = {"linkCommit", "deleteCommit", "deleteCognito", "confirm"}
    TokenLife = 2
    TombstoneLife = 2
    NULL = NULL
SYMMETRY Symmetry
INVARIANT PrimaryIsLinked
INVARIANT NoAccountAfterDeletion
INVARIANT LinkedDeviceWritesReachPrimary
INVARIANT TokenConsumedOnce
PROPERTY LinkIsPermanent
PROPERTY AnswersFollowTheirAccount
PROPERTY PrimarySettingWins
PROPERTY TombstoneOutlivesTokens
CHECK_DEADLOCK FALSE
