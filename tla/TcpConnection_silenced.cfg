SPECIFICATION Spec
CONSTANTS
  MaxReceived = 1
  MaxSent = 1
  writeCompleteCallback_ = FALSE
PROPERTIES PeerEndIsClosed
CHECK_DEADLOCK FALSE
