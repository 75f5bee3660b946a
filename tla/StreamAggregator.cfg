SPECIFICATION Spec
CONSTANTS
  Streams = {s1, s2}
  Latest = Latest
  NoSub = NoSub
  Concurrency = 1
  Connecting = TRUE
  MaxMessages = 2
  MaxLoops = 2
  MaxFaults = 1
SYMMETRY StreamSymmetry

INVARIANTS
  TypeOK
  NothingSkipped
CHECK_DEADLOCK FALSE
