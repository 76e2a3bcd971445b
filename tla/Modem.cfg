SPECIFICATION Spec
CONSTANTS
  Late = TRUE
  Scenarios <- MCScenarios
  Faults = {"refuse", "mute"}
  Lens = {1, 2}
  BufSize = 2
  maxSocket = 2
  CountMod = 16
  ShortReads = FALSE
  MaxLines = 1
INVARIANTS TruthfulReport FilterFollowsSocket AvailWithinRing ReadHonest StatusFollowsModem
CHECK_DEADLOCK FALSE
