SPECIFICATION Spec
CONSTANTS
  Publishes = {p1, p2}
  InitDB <- SeedDB
  QuestionBodies <- SomeQuestions
  WorkbookBodies <- SomeWorkbooks
  AnnouncementBodies <- SomeAnnouncements
  Titles = {"d"}
  Uploads = {"u1", "u2", "u3", "u4"}
  Slugs = {"s", "t"}
  Budget = 4
  MaxFailures = 1
SYMMETRY Twins
INVARIANTS
  TypeOK
  CleanPublishIsExact
  SuccessfulListsResolve
  EndpointsAgree
CHECK_DEADLOCK FALSE
