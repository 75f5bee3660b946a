SPECIFICATION Spec
CONSTANTS
  AlertIds = {a1}
  NoAlert = NoAlert
  Options <- MCOptions
  Epoch = 3
  MaxTime = 5
  MaxViolations = 3
  MaxStreak = 2
  MaxSaves = 1
INVARIANTS
  TypeOK
  OpenIffThresholdReached
  NotificationsWithinBudget
PROPERTIES
  OnlyViolationsTrip
  RecoveryIsEarned
  RecoveryClosesAlert
