SPECIFICATION FairSpec
CONSTANTS
  Node <- Trio
  BROADCAST = BROADCAST
  BROADCAST_NO_LORA = BROADCAST_NO_LORA
  PKI = PKI
  Channel = {"primary"}
  PRIMARY = "primary"
  NoChannel = NoChannel
  OnChannel <- OnEveryNode
  HashAsIndex <- HashNoIndex
  Keys <- AllKeys
  Ignores <- Nobody
  Routers <- Nobody
  Mute <- Nobody
  LocalOnly <- Nobody
  TxDisabled <- Nobody
  Responders <- Trio
  MqttNodes <- Nobody
  NUM_RETRANSMISSIONS = 2
  MAX_TX_QUEUE = 4
  MAX_RX_FROMRADIO = 4
  LoraHopLimit = 3
  Hears <- Line
  Messages <- RequestOrFlood
  MaxSent = 1
  FirstId = 10
  DutyLimited <- Nobody
  MaxReboots = 0
  NoPacket = NoPacket
INVARIANT RelayBounded
PROPERTIES
  EventuallyReported
  EventuallyQuiet
CHECK_DEADLOCK FALSE
