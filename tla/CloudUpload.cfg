\* A queue of one, three items: callers find it full while the worker sends.
SPECIFICATION FairSpec
CONSTANTS
  Depth = 1
  MaxItems = 3
  BusRefuses = TRUE
INVARIANTS TypeOK HandledOnce OneWorker NoStaleData
PROPERTIES StopReturns Settles
