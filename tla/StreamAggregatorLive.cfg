SPECIFICATION FairSpec
CONSTANTS
  Streams = {s1}
  Latest = Latest
  NoSub = NoSub
  Concurrency = 3
  Connecting = TRUE
  MaxMessages = 3
  MaxLoops = 2
  MaxFaults = 1
INVARIANTS
  SettledOnLatest
PROPERTIES
  CursorsNeverRegress
  Delivered
  LoopsEnd
CHECK_DEADLOCK FALSE
