SPECIFICATION Spec
CONSTANTS
  MaxPacketId = 3
  MaxRetry = 1
  Timeout = 2
  MaxPublishes = 1
  Link = {"lose"}
CHECK_DEADLOCK FALSE
INVARIANTS RetransmitsSamePacket
