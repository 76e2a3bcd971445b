SPECIFICATION Spec
CONSTANTS
  Late = TRUE
  Scenarios <- LongCalls
  Faults = {"refuse", "mute"}
  Lens = {1}
  BufSize = 1
  maxSocket = 2
  CountMod = 16
  ShortReads = FALSE
  MaxLines = 1
PROPERTY OperationEnds
CHECK_DEADLOCK FALSE
