CONSTANTS
  p1 = p1
  p2 = p2
  Packets <- TwoPackets
  Tasks <- MainTask
  MaxReconfigures = 1
  NoPacket = NoPacket
SPECIFICATION FairSpec
INVARIANTS TypeOK AssertionsHold Attended WorkScheduled
PROPERTY EventuallyLeaves
CHECK_DEADLOCK FALSE
