CONSTANTS
  MaxMoves = 2
  MaxEpoch = 2
  HttpPool <- MCHttpPool
  WssPool <- MCWssPool
  Reliable <- MCReliable
SPECIFICATION FairSpec
INVARIANTS
  TypeOK
PROPERTIES
  FrozenAfterCancel
  SettlesOnMarket
  FollowsChain
  ShutdownCompletes
CHECK_DEADLOCK FALSE
