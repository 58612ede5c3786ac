CONSTANTS
  alice = alice
  bob = bob
  v1 = v1
  v2 = v2
  v3 = v3
  Address = {alice, bob}
  ValidatorKey = {v1, v2, v3}
  Validators <- MCValidators
  GenesisAllocations <- MCGenesis
  SlotDuration = 2
  SlotWait = 1
  MaxFutureDrift = 1
  MaxPoolSize = 3
  MaxPendingPerSender = 2
  MaxTxsPerBlock = 2
  TxTtl = 3
  MyKey = v2
  TxInput <- MCFewTxInput
  BlockInput <- MCBlockInput
  ChainInput <- MCFewChainInput
  DiskMayFail = TRUE
  MaxTime = 6
SPECIFICATION Spec
INVARIANTS
  StateIsReplay
  PendingAffordable
