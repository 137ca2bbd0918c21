CONSTANTS
  NULL = NULL
  Tasks = {t1, t2}
  Accounts = {a, b}
  MaxDevices = 4
  Operations = {"auth", "answer", "progress"}
  MaxSessions = 2
  MaxFaults = 1
SPECIFICATION Spec
INVARIANTS ShownProgressIsOwn EnsuredMeansLinked NobodyWaitsInACircle
PROPERTIES RotatedIdsAreForeign MergeMissesNothing
SYMMETRY Symmetry
VIEW View
CHECK_DEADLOCK FALSE
