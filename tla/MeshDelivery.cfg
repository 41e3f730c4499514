SPECIFICATION Spec
CONSTANTS
  Node <- Trio
  BROADCAST = BROADCAST
  BROADCAST_NO_LORA = BROADCAST_NO_LORA
  PKI = PKI
  Channel = {"primary"}
  PRIMARY = "primary"
  NoChannel = NoChannel
  OnChannel <- OnEveryNode
  HashAsIndex <- HashNoIndex
  Keys <- AllKeys
  Ignores <- Nobody
  Routers <- JustTwo
  Mute <- Nobody
  LocalOnly <- Nobody
  TxDisabled <- Nobody
  Responders <- Nobody
  MqttNodes <- Nobody
  NUM_RETRANSMISSIONS = 2
  MAX_TX_QUEUE = 4
  MAX_RX_FROMRADIO = 4
  LoraHopLimit = 3
  Hears <- Complete
  Messages <- TextOrRequest
  MaxSent = 1
  FirstId = 10
  DutyLimited <- Nobody
  MaxReboots = 0
  NoPacket = NoPacket
INVARIANTS
  AckMeansHandled
  ImplicitAckMeansHeard
  ResolvedIsReported
PROPERTY ImplementsReliableDelivery
CHECK_DEADLOCK FALSE
