CONSTANTS
  alice = alice
  bob = bob
  v1 = v1
  v2 = v2
  v3 = v3
  Address = {alice, bob}
  ValidatorKey = {v1, v2, v3}
  Validators <- MCValidators
  GenesisAllocations <- MCGenesis
  SlotDuration = 2
  SlotWait = 1
  MaxFutureDrift = 1
  MaxPoolSize = 3
  MaxPendingPerSender = 2
  MaxTxsPerBlock = 2
  TxTtl = 3
  MyKey = v3
  TxInput <- MCTxInput
  BlockInput <- MCBlockInput
  ChainInput <- MCFewChainInput
  DiskMayFail = FALSE
  MaxTime = 7
SPECIFICATION Spec
INVARIANT
  SlotSignedOnce
