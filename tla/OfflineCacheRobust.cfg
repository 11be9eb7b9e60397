\* Every operation may fail, the state record included, around one power loss and
\* an unbounded number of stops and starts.
SPECIFICATION FairSpec
CONSTANTS
  Empty = Empty
  Corrupt = Corrupt
  NoState = NoState
  N = 2
  Batch = 1
  MaxId = 2
  MaxCrashes = 1
  Faults = {"write", "save", "load", "read", "publish", "corrupt"}
PROPERTIES Drains
