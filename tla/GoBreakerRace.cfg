CONSTANTS
  Goroutines <- MCTwoGoroutines
  MaxLosses = 2
  MaxFailed = 2
  Cooldown = 2
  CountBound = 4
SPECIFICATION Spec
PROPERTY
  RecoverySafe
