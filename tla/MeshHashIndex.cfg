SPECIFICATION Spec
CONSTANTS
  Node <- Pair
  BROADCAST = BROADCAST
  BROADCAST_NO_LORA = BROADCAST_NO_LORA
  PKI = PKI
  Channel = {"primary"}
  PRIMARY = "primary"
  NoChannel = NoChannel
  OnChannel <- OnEveryNode
  HashAsIndex <- HashNoIndex
  Keys <- Nobody
  Ignores <- Nobody
  Routers <- Nobody
  Mute <- Nobody
  LocalOnly <- Nobody
  TxDisabled <- Nobody
  Responders <- Nobody
  MqttNodes <- Nobody
  NUM_RETRANSMISSIONS = 3
  MAX_TX_QUEUE = 4
  MAX_RX_FROMRADIO = 4
  LoraHopLimit = 3
  Hears <- Line
  Messages <- TextToTwo
  MaxSent = 1
  FirstId = 10
  DutyLimited <- Nobody
  MaxReboots = 0
  NoPacket = NoPacket
INVARIANT AssertionsHold
CHECK_DEADLOCK FALSE
