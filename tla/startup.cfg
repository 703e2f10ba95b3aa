SPECIFICATION Spec
CONSTANTS
  c1 = c1
  c2 = c2
  p1 = p1
  p2 = p2
  Processes <- TwoProcesses
  Coins <- TwoCoins
  Targets <- MCTargets
  NoTarget = NoTarget
  TooSmall <- MCTooSmall
  Flags <- MCFlags
  Missing = Missing
  MaxStarts = 3
  MaxOverlapping = 2
  MaxErrors = 1
  MaxReservations = 1
SYMMETRY Symmetric
INVARIANTS
  TypeOK
  PoolFitsTarget
  AllCoinsAreRegistered
  RegistryIsSound
  LocksAreReleased
PROPERTIES
  MigrationIsOver
CHECK_DEADLOCK FALSE
