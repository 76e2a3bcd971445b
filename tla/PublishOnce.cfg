SPECIFICATION Spec
CONSTANTS
  MaxPacketId = 2
  MaxRetry = 0
  Timeout = 2
  MaxPublishes = 3
  Link = {"lose", "duplicate"}
CHECK_DEADLOCK FALSE
INVARIANTS DoneMeansAccepted
