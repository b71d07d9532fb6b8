SPECIFICATION MCSpec
CONSTANTS
  d1 = d1
  d2 = d2
  ta = ta
  tb = tb
  tu = tu
  Offer <- Offers
  UnmanagedType = {tu}
  LabelUpdate <- Labels
  HiddenLabel = {"room"}
  CodeGrace = 1
  Margin = 1
  MaxRestarts = 1
  Debug = FALSE
  StartTime = {0, 1}
  MaxTime = 4
  MaxInputs = 4
  MaxFailures = 1
CHECK_DEADLOCK FALSE
INVARIANTS
  ActiveRequirementsMet
  TablesExact
  ActiveIsServed
  CodeOutlivesDeployment
PROPERTIES
  EndsInTime
