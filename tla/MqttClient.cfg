\* A publisher that passed the connection check before the worker reconnects.
SPECIFICATION Spec
CONSTANTS
  Fields = {"broker"}
  Publishers = {p1}
  p1 = p1
  MinDelay = 1
  MaxDelay = 3
  MaxVersion = 0
  BusRefuses = FALSE
INVARIANTS ClientExclusive
