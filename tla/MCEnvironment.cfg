SPECIFICATION MCSpec
CONSTANTS
  HFilter = {"a1", "a2"}
  Identifier <- Ids
  HLocal = {"lua", "native"}
  HPeer = {"p1", "p2"}
  HttpRequest = {"r1", "r2"}
  Target <- Targets
  MaxAnswers = 2
  MaxChanges = 3
  ClientRequest <- Requests
  ServerCode = {200, 404, 500}
  MaxThreads = 2
  Offset = {1, 2}
  MaxRetries = 5
  MaxRestarts = 1
  Identifiers = {1, 2, 3}
  Text = {"x", "y"}
  Lifetime = {0, 1}
  MaxClock = 3
  MaxNotified = 4
  InterruptLimit = 2
  HardLimit = 2
  Pin = {1, 19, 25}
  Watched = 19
  OutputPin = {25}
  MaxEdges = 7
  MaxCommands = 1
CHECK_DEADLOCK FALSE
INVARIANTS
  EndedOnce
  TableExact
  RegistrationExact
  CalibrationTrue
  ScreenTrue
PROPERTIES
  RequestsEnd
  AnsweredOnce
  MeasuresOrExits
  NotificationsExpire
  LevelKnown
