CONSTANTS
  alice = alice
  bob = bob
  v1 = v1
  v2 = v2
  v3 = v3
  Address = {alice, bob}
  ValidatorKey = {v1, v2, v3}
  Validators <- MCValidators
  GenesisAllocations <- MCGenesis
  SlotDuration = 1
  SlotWait = 0
  MaxFutureDrift = 1
  MaxPoolSize = 3
  MaxPendingPerSender = 2
  MaxTxsPerBlock = 2
  TxTtl = 1
  MyKey = v1
  TxInput <- MCTxInput
  BlockInput <- MCBlockInput
  ChainInput <- MCChainInput
  DiskMayFail = FALSE
  MaxTime = 2
  Clients = {client}
  TopicSets <- MCTopicSets
  PeerInfo = {lone, peered}
  NoPeers = lone
  NoView = NoView
  MaxChanges = 2
SPECIFICATION ApiSpec
INVARIANTS
  ViewsCurrent
PROPERTIES
  VanishedDropped
  PeersReachSubscribers
