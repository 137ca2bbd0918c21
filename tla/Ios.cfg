CONSTANTS
  NULL = NULL
  Tasks = {t1, t2}
  Accounts = {a, b}
  MaxSessions = 2
  MaxDevices = 4
  MaxExpired = 1
  MaxCalls = 4
SPECIFICATION Spec
INVARIANTS LinkedOrOffered AnswersKept
PROPERTIES AnswersReachTheAccount
SYMMETRY Symmetry
VIEW View
CHECK_DEADLOCK FALSE
