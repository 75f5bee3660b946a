SPECIFICATION Spec
CONSTANTS
  Servers = {s1}
  Rules = {r1}
  Metrics = {m1}
  Absent = Absent
  Nameless = Nameless
  MaxCalls = 1

INVARIANT
  StatusKeepsRule
CHECK_DEADLOCK FALSE
