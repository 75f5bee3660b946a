SPECIFICATION Spec
CONSTANTS
  Managers = {m1, m2}
  NoManager = NoManager
  Serials = {1, 2}
  NoLock = NoLock
  Ttl = 3
  Lease = 2
  RenewTime = 1
  WaitTime = 0
  Stoppable = {m1, m2}
  KeyMayVanish = FALSE
  MaxCalls = 2
  MaxAllCalls = 2
  MaxFaults = 1
SYMMETRY ManagerSymmetry
INVARIANTS
  TypeOK
  KeyBacksLease
PROPERTIES
  ImplementsLease
