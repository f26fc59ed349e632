CONSTANTS
  NumAssets = 2
  Workers <- MCWorkers
  ExecCap = 1
  ResCap = 1
  InitialCapital = 4600
  KillThresholds <- MCKillThresholds
  SweepEnabled = TRUE
  SweepThreshold = 5000
  MaxMarkets = 2
SPECIFICATION Spec
INVARIANT
  KillOnlyOnLoss
CHECK_DEADLOCK FALSE
