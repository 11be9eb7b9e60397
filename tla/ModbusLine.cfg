\* Two slaves; frames of 7 and 9 bytes that may pause after 3, a buffer of 8.
SPECIFICATION ModbusFairSpec
CONSTANTS
  Slaves = {1, 2}
  Counts = {1, 2}
  PollCount = 1
  RxBufSize = 8
  Cuts = {3}
  Punctual = TRUE
  MaxLine = 2
INVARIANTS ModbusTypeOK OwnAnswer
PROPERTIES StopReturns ReadReturns
