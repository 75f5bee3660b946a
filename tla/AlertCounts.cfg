SPECIFICATION FairSpec
CONSTANTS
  Servers = {s1, s2}
  Rules = {r1, r2}
  Absent = Absent
  NoAlert = NoAlert
  MaxAlerts = 2
  MaxCalls = 3

INVARIANTS
  TypeOK
  ConsistentAtRest
PROPERTIES
  CountsRepaired
CHECK_DEADLOCK FALSE
