\* A ring and a batch smaller than the backlog of three readings.
SPECIFICATION FairSpec
CONSTANTS
  Depth = 1
  Capacity = 2
  Batch = 1
  BusSize = 2
  MaxItems = 3
  Faults = {"bus", "send", "flash"}
INVARIANTS Conserved LinkTruth
PROPERTIES StoredWhenDown BacklogEnds
