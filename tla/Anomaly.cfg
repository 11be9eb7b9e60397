\* Windows of two; the clock wraps every 4 units, alerts are 2 apart; floats have three
\* bits, so that nearly every square and sum is rounded.
SPECIFICATION Spec
CONSTANTS
  Types = {"current", "temperature"}
  Current = "current"
  Temperature = "temperature"
  W = 2
  Samples = {2, 7, 100}
  Scores = {1, 2, 5}
  Precision = 3
  Float <- Rounded
  Fused = FALSE
  Limit = 50
  AbsMax <- SmallAbsMax
  DefaultSigma <- Standard
  Sigmas <- Unordered
  Interval = 2
  ClockMod = 4
  MaxTime = 4
  MaxSamples = 6
INVARIANTS SumsOfWindow AlertExplained LevelHasBaseline
PROPERTIES AlertsSpaced
