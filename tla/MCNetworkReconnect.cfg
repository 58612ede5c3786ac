CONSTANTS
  alice = alice
  bob = bob
  p = p
  q = q
  f = f
  vp = vp
  vq = vq
  noKey = noKey
  Address = {alice, bob}
  ValidatorKey = {vp, vq}
  Validators <- MCValidators
  GenesisAllocations <- MCGenesis
  SlotDuration = 1
  SlotWait = 0
  MaxFutureDrift = 1
  MaxPoolSize = 3
  MaxPendingPerSender = 2
  MaxTxsPerBlock = 1
  TxTtl = 5
  Node = {p, q}
  KeyOf <- MCKeyOf
  Peering <- TwoNodes
  ClientInput <- ForkClientInput
  StartConnected = TRUE
  ClockOffset <- PAhead
  MaxTime = 3
  MaxDisconnects = 1
SPECIFICATION FairSpec
CHECK_DEADLOCK FALSE
INVARIANT
  QuietAgreement
PROPERTIES
  NoTransferLost
  GossipSettles
