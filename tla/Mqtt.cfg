\* One publisher, one parameter changed twice; a cap that is no power of two.
SPECIFICATION FairSpec
CONSTANTS
  Fields = {"broker"}
  Publishers = {p1}
  p1 = p1
  MinDelay = 1
  MaxDelay = 3
  MaxVersion = 2
  BusRefuses = FALSE
INVARIANTS TypeOK StaleConnectionDropped StoppedClean AnnouncedTruly
PROPERTIES StopTerminates Reconnects DelayResetByConnack ImplementsSession
