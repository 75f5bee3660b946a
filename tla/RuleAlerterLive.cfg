SPECIFICATION FairAlerterSpec
CONSTANTS
  AlertIds = {a1, a2, a3}
  NoAlert = NoAlert
  EmptyAlert = EmptyAlert
  Options <- MCTimedOptions
  Epoch = 1
  MaxTime = 2
  MaxViolations = 2
  MaxStreak = 2
  MaxSaves = 0
  Servers = {s1}
  MaxInFlight = 2
  MaxTroubles = 1
  Deactivation = FALSE

PROPERTIES
  GoodResultsRecover
CHECK_DEADLOCK FALSE
