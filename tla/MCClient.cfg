CONSTANTS
  alice = alice
  bob = bob
  v1 = v1
  v2 = v2
  rent = rent
  again = again
  Address = {alice, bob}
  ValidatorKey = {v1, v2}
  Validators <- MCValidators
  GenesisAllocations <- MCGenesis
  SlotDuration = 2
  SlotWait = 1
  MaxFutureDrift = 1
  MaxPoolSize = 3
  MaxPendingPerSender = 2
  MaxTxsPerBlock = 2
  TxTtl = 1
  MyKey = v1
  TxInput = {}
  BlockInput = {}
  ChainInput = {}
  DiskMayFail = FALSE
  MaxTime = 6
  Sends = {rent, again}
  Payment <- MCPayment
SPECIFICATION ClientSpec
INVARIANTS
  ReportsTruthful
  AcceptedKept
  NonceNotShared
PROPERTIES
  EverySendSettles
