SPECIFICATION FairSpec
CONSTANTS
  Servers = {s1, s2}
  NoHour = NoHour
  Minutes = {0, 2, 3}
  MaxMinute = 3
  MaxJobs = 3
  MaxChanges = 3
  MaxFaults = 1
INVARIANTS
  TypeOK
  CountsMatchRecords
  HourMatchesRecords
  RecordedOnce
PROPERTIES
  HourNeverLoses
  BuffersDrain
CHECK_DEADLOCK FALSE
