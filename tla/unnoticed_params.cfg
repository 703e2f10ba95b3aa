SPECIFICATION Spec
CONSTANTS
  c1 = c1
  c2 = c2
  p1 = p1
  p2 = p2
  Processes <- OneProcess
  Coins <- TwoCoins
  Targets <- MCTargets
  NoTarget = NoTarget
  TooSmall <- MCTooSmall
  Flags <- MCFlags
  Missing = Missing
  MaxStarts = 3
  MaxOverlapping = 0
  MaxErrors = 0
  MaxReservations = 1
INVARIANTS
  ParamChangesAreNoticed
CHECK_DEADLOCK FALSE
