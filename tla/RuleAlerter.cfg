SPECIFICATION AllSpec
CONSTANTS
  AlertIds = {a1, a2, a3}
  NoAlert = NoAlert
  EmptyAlert = EmptyAlert
  Options <- MCAllOptions
  Epoch = 1
  MaxTime = 2
  MaxViolations = 2
  MaxStreak = 2
  MaxSaves = 1
  Servers = {s1}
  MaxInFlight = 2
  MaxTroubles = 2
  Deactivation = TRUE
INVARIANTS
  AllTypeOK
  SentOnce
  QuietAgrees
  TrippedHasAlert
  EventsSentBounded
CHECK_DEADLOCK FALSE
