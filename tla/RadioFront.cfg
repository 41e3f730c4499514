CONSTANTS
  p1 = p1
  p2 = p2
  Packets <- TwoPackets
  Tasks <- MainTask
  MaxReconfigures = 1
  NoPacket = NoPacket
SPECIFICATION Spec
INVARIANT FrontExists
CHECK_DEADLOCK FALSE
