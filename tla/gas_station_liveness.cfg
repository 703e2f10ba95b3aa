SPECIFICATION FairSpec
CONSTANTS
  c1 = c1
  c2 = c2
  c3 = c3
  t1 = t1
  t2 = t2
  s1 = s1
  s2 = s2
  CoinIds <- TwoCoins
  MaxCoinsPerQuery = 2
  LockDuration = 1
  Absent = Absent
  Stations <- TwoStations
  Tasks <- TwoTasks
  StationOf <- OnTwoStations
  InitialBalance = 2
  OversizeThreshold = 2
  RescanBuffer = 1
  U64 = 1000
  Budgets <- MCBudgets
  Durations <- MCDurations
  MaxGasBudget = 3
  MaxDuration = 1
  HealthBudget = 1
  HealthDuration = 1
  NetGas <- MCNetGas
  FullnodeLags = FALSE
  ResponsesGetLost = TRUE
  MaxReservations = 2
  MaxTime = 2
  MaxPool = 9
  MaxCrashes = 1
  MaxLostReplies = 1
PROPERTIES
  ReservationsEnd
  CoinsComeBack
CHECK_DEADLOCK FALSE
