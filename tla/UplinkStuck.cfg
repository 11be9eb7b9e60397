\* No event is ever refused.
SPECIFICATION FairSpec
CONSTANTS
  BusSize = 2
  BusRefuses = FALSE
PROPERTIES NeverStuck
