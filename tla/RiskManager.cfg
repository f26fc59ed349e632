CONSTANTS
  DryRun = FALSE
  MaxLosses = 3
  MaxFailed = 2
  MaxLatency = 5
  Cooldown = 3
  MaxTrades = 2
  Latencies <- MCLatencies
SPECIFICATION FairSpec
INVARIANTS
  TypeOK
  NotOpenWithinLimits
  OvershootBounded
PROPERTIES
  BreakerImplemented
  RecoversFromLatency
