CONSTANTS
  InitialCapital = 15000000
  KillLimit <- MCKillLimit
  Cooldown = 2
  PollerPatience = 2
  BinancePrices <- MCBinancePrices
  DexPrices <- MCDexPrices
  MaxBet = 500
SPECIFICATION FairSpec
INVARIANTS
  TypeOK
  SingleFlight
  OrderStateAgrees
  StakeAgrees
  LossBounded
PROPERTIES
  StoppedIsFinal
  DeskImplemented
  OrderSettled
  KillStops
  FiresWithWallet
CHECK_DEADLOCK FALSE
