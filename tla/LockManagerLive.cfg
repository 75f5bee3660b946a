SPECIFICATION FairSpec
CONSTANTS
  Managers = {m1, m2}
  NoManager = NoManager
  Serials = {1, 2}
  NoLock = NoLock
  Ttl = 3
  Lease = 2
  RenewTime = 1
  WaitTime = 1
  Stoppable = {}
  KeyMayVanish = TRUE
  MaxCalls = 1
  MaxAllCalls = 2
  MaxFaults = 1
PROPERTIES
  HeldAgain
  StaleOwnershipEnds
