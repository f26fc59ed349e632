CONSTANTS
  Workers = {w1, w2}
  Harvester = Harvester
  MaxRound = 4
  Oldest = 2
  MaxOrders = 3
  Sides = {bull, bear}
  GasPrices = {1, 2}
SPECIFICATION Spec
INVARIANTS
  TypeOK
  BookedIsMined
SYMMETRY MCSymmetry
CHECK_DEADLOCK FALSE
