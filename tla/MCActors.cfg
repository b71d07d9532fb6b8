SPECIFICATION MCSpec
CONSTANTS
  f1 = f1
  c1 = c1
  Topic = {f1}
  Behaviour <- APICalls
  Code = {c1}
  CodeGrace = 0
  Debounce = 1
  Period = 1
  BadCode = TRUE
  FetchTimeout = 1
  MaxRetries = 1
  MaxActors = 2
  MaxTime = 2
  MaxInputs = 2
  MaxCalls = 3
CHECK_DEADLOCK FALSE
INVARIANTS
  SchedulingSound
  BlockedGetsItsMessage
  MappingExact
  ExitsReported
PROPERTIES
  InitializedOrGone
  QueuesDrain
