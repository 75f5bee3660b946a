SPECIFICATION Spec
CONSTANTS
  Servers = {s1, s2}
  Rules = {r1}
  Metrics = {m1, m2}
  Absent = Absent
  Nameless = Nameless
  MaxCalls = 2

SYMMETRY RegistrySymmetry
INVARIANTS
  TypeOK
  IndexListsRules
  DeletedForgotten
  KnownEverywhere
  EvaluatedAreRegistered
CHECK_DEADLOCK FALSE
