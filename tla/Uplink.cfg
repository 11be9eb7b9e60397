\* The edges of two polls may wait on the bus at once, and any may be refused.
SPECIFICATION FairSpec
CONSTANTS
  BusSize = 2
  BusRefuses = TRUE
INVARIANTS Follows
PROPERTIES Believed
