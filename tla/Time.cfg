SPECIFICATION Spec
CONSTANTS
  KHZ = 3
  CLOCKS_PER_SEC = 9
  Freqs <- MCFreqs
  Adds <- MCAdds
  Settings = {3}
  Periods <- MCPeriods
  MaxTicks = 8
  MaxCalls = 3
INVARIANTS TimeTypeOK ReadWithinASecond SetTimeNotTorn ClockKeepsPace TimerNotEarly
CHECK_DEADLOCK FALSE
