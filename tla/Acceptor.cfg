SPECIFICATION Spec
CONSTANTS
  p1 = p1
  p2 = p2
  p3 = p3
  p4 = p4
  Listener = Listener
  Peers <- MCPeers
  MaxOpen = 3
INVARIANTS TypeOK DescriptorsAccounted
PROPERTIES BacklogDrains
CHECK_DEADLOCK FALSE
