CONSTANTS
  Goroutines <- MCGoroutines
  Amounts <- MCAmounts
  BaseStake = 20
  ResetAlone = TRUE
  PnlBound = 10
SPECIFICATION Spec
INVARIANTS
  TypeOK
  PeakCoversPnl
