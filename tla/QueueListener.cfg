SPECIFICATION FairSpec
CONSTANTS
  Jobs = {j1, j2}
  NotANumber = NotANumber
  MaxEvents = 6
  MaxFaults = 1
INVARIANTS
  TypeOK
  DurationsRight
PROPERTIES
  FinishesEmitted
CHECK_DEADLOCK FALSE
