SPECIFICATION FairSpec
CONSTANTS
  MAX_RX_TOPHONE = 1
  MaxNotifications = 1
  MAX_NUM_CHANNELS = 2
  Configs = 1
  ModuleConfigs = 1
  Files = 1
  Nonces = {1, 2}
  SPECIAL_NONCE = 2
  Recent = 1
  MAX_NUM_NODES = 3
  MaxPackets = 2
  MaxIds = 2
  MaxWrites = 3
  MaxEvictions = 1
INVARIANTS
  TypeOK
  DownloadWhole
  PacketsKept
  PacketsAnnounced
  SentOnce
CHECK_DEADLOCK FALSE
PROPERTIES
  ConfigAnswered
  Unblocked
