CONSTANTS
  NumAssets = 2
  Workers <- MCWorkers
  ExecCap = 1
  ResCap = 1
  InitialCapital = 4800
  KillThresholds <- MCKillThresholds
  SweepEnabled = TRUE
  SweepThreshold = 5000
  MaxMarkets = 2
SPECIFICATION FairSpec
INVARIANTS
  TypeOK
  OneOrderPerAsset
  InflightAgrees
  WalletBalances
  StakeCovered
PROPERTIES
  DeskImplemented
  OrderResolved
  KillDrains
CHECK_DEADLOCK FALSE
