SPECIFICATION Spec
CONSTANTS
  Data <- SomeData
  Yaml <- Directory
  InitDB <- SeedDB
  QuestionBodies <- OneOrTwoKeys
  WorkbookBodies <- SomeWorkbooks
  Titles = {"d"}
  Uploads = {"u1", "u2"}
  MaxId = 8
  MaxEdits = 2
  MaxTools = 2
  MaxFaults = 1
INVARIANTS
  UndisturbedRunsConverge
  
PROPERTIES
  SyncKeepsTheRest
  ImplementsReconciler
CHECK_DEADLOCK FALSE
