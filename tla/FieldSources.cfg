SPECIFICATION Spec
CONSTANTS
  RxSize = 1
  MaxFrames = 2
  W = 6
  Intervals = {1, 3}
  MaxGap = 1
INVARIANTS FilterHasThread
PROPERTIES FreshFrames RoundsOnTime
