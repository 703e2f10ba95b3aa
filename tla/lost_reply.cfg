SPECIFICATION Spec
CONSTANTS
  c1 = c1
  c2 = c2
  c3 = c3
  t1 = t1
  t2 = t2
  s1 = s1
  s2 = s2
  CoinIds <- ThreeCoins
  MaxCoinsPerQuery = 2
  LockDuration = 1
  Absent = Absent
  Stations <- TwoStations
  Tasks <- TwoTasks
  StationOf <- OnTwoStations
  InitialBalance = 2
  OversizeThreshold = 4
  RescanBuffer = 1
  U64 = 1000
  Budgets <- MCBudgets
  Durations <- MCDurations
  MaxGasBudget = 3
  MaxDuration = 1
  HealthBudget = 1
  HealthDuration = 1
  NetGas <- MCNetGas
  FullnodeLags = FALSE
  ResponsesGetLost = TRUE
  MaxReservations = 3
  MaxTime = 3
  MaxPool = 9
  MaxCrashes = 0
  MaxLostReplies = 1
INVARIANTS
  SingleCustody
CHECK_DEADLOCK FALSE
SYMMETRY Symmetric
