CONSTANTS
  alice = alice
  bob = bob
  p = p
  q = q
  f = f
  vp = vp
  vq = vq
  noKey = noKey
  Address = {alice, bob}
  ValidatorKey = {vp, vq}
  Validators <- MCValidators
  GenesisAllocations <- MCGenesis
  SlotDuration = 1
  SlotWait = 0
  MaxFutureDrift = 1
  MaxPoolSize = 3
  MaxPendingPerSender = 2
  MaxTxsPerBlock = 2
  TxTtl = 5
  Node = {p, q, f}
  KeyOf <- MCKeyOf
  Peering <- ThroughF
  ClientInput <- OneClientInput
  StartConnected = FALSE
  ClockOffset <- NoOffset
  MaxTime = 2
  MaxDisconnects = 0
SPECIFICATION Spec
CHECK_DEADLOCK FALSE
INVARIANT
  QuietAgreement
