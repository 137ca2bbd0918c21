SPECIFICATION LearningSpec
CONSTANTS
  Submissions = {s1, s2, s3}
  Users = {u1, u2}
  Bodies <- SomeBodies
  QuestionBodies <- OneKey
  WorkbookBodies <- Reordered
  InitDB <- SeedDB
  DayLength = 8
  JstOffset = 3
  Start = 47
  Ticks = {4, 20}
  MaxClock = 90
  MaxEdits = 2
SYMMETRY Alike
INVARIANTS
  GradedAsShown
  LogPagesComplete
  RepeatsAreLatest
  WeekIsMondayToSunday
CHECK_DEADLOCK FALSE
