\* Three slots, four entries, batches of two, one power loss: the ring fills, wraps
\* and overwrites, and a batch is cut short by a power loss or an error.
SPECIFICATION Spec
CONSTANTS
  Empty = Empty
  Corrupt = Corrupt
  NoState = NoState
  N = 3
  Batch = 2
  MaxId = 4
  MaxCrashes = 1
  Faults = {"write", "read", "publish", "corrupt"}
INVARIANTS StateDurable RingClosed NoSilentLoss BoundedReplayAgain
PROPERTIES ImplementsFifo
