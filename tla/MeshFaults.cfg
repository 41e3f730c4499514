SPECIFICATION Spec
CONSTANTS
  Node <- Trio
  BROADCAST = BROADCAST
  BROADCAST_NO_LORA = BROADCAST_NO_LORA
  PKI = PKI
  Channel = {"primary", "secondary"}
  PRIMARY = "primary"
  NoChannel = NoChannel
  OnChannel <- NotOnTwo
  HashAsIndex <- HashNoIndex
  Keys <- AllKeys
  Ignores <- Nobody
  Routers <- Nobody
  Mute <- Nobody
  LocalOnly <- Nobody
  TxDisabled <- Nobody
  Responders <- Nobody
  MqttNodes <- JustOne
  NUM_RETRANSMISSIONS = 2
  MAX_TX_QUEUE = 4
  MAX_RX_FROMRADIO = 4
  LoraHopLimit = 3
  Hears <- Line
  Messages <- SecondaryToThree
  MaxSent = 1
  FirstId = 10
  DutyLimited <- JustTwo
  MaxReboots = 1
  NoPacket = NoPacket
INVARIANTS
  TypeOK
  DeliveredOnce
  AttemptsBounded
  NeverForgotten
  HopsCountable
CHECK_DEADLOCK FALSE
