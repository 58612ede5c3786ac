CONSTANTS
  alice = alice
  bob = bob
  v1 = v1
  v2 = v2
  v3 = v3
  Address = {alice, bob}
  ValidatorKey = {v1, v2, v3}
  Validators <- MCValidators
  GenesisAllocations <- MCGenesis
  SlotDuration = 2
  SlotWait = 1
  MaxFutureDrift = 1
  MaxPoolSize = 3
  MaxPendingPerSender = 2
  MaxTxsPerBlock = 2
  TxTtl = 3
  MyKey = v2
  TxInput <- MCTxInput
  BlockInput <- MCBlockInput
  ChainInput <- MCChainInput
  DiskMayFail = FALSE
  MaxTime = 9
SPECIFICATION Spec
INVARIANTS
  TypeOK
  ChainValid
  StateIsReplay
  SupplyConserved
  NonceSpentOnce
  OneBlockPerSlot
  HeightBoundedByClock
  PendingUnconfirmed
  PendingAffordable
  PoolBounded
  NextNonceUsable
  OwnProposalAccepted
PROPERTIES
  ServesPayments
  ChainGrows
  RestartLossless
