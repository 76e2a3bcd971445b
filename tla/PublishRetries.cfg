SPECIFICATION FairSpec
CONSTANTS
  MaxPacketId = 1
  MaxRetry = 1
  Timeout = 2
  MaxPublishes = 2
  Link = {"lose", "duplicate", "late", "send"}
CHECK_DEADLOCK FALSE
INVARIANTS TypeOK TransmissionBound
PROPERTIES PublishEnds
