SPECIFICATION InitializerSpec
CONSTANTS
  c1 = c1
  c2 = c2
  c3 = c3
  c4 = c4
  c5 = c5
  c6 = c6
  c7 = c7
  c8 = c8
  c9 = c9
  c10 = c10
  t1 = t1
  t2 = t2
  s1 = s1
  s2 = s2
  CoinIds <- Coins3
  MaxCoinsPerQuery = 2
  LockDuration = 9
  Absent = Absent
  Stations <- TwoStations
  Tasks <- OneTask
  StationOf <- OnOneStation
  InitialBalance = 2
  OversizeThreshold = 7
  RescanBuffer = 1
  U64 = 1000
  Budgets <- Budgets13
  Durations <- MCDurations
  MaxGasBudget = 3
  MaxDuration = 1
  HealthBudget = 1
  HealthDuration = 1
  NetGas <- CostAndRebate
  FullnodeLags = FALSE
  ResponsesGetLost = FALSE
  MaxReservations = 2
  MaxTime = 2
  MaxPool = 8
  MaxCrashes = 0
  MaxLostReplies = 0
  GasPerObject = 1
  SplitGas <- AllGas
  MaxSplit = 3
  ChunkSize = 2
  InitialLedger <- OneCoinOf9
  DepositBalance = 7
  FullRescans = FALSE
  IgnoreLocks = FALSE
  MaxStarts = 2
  MaxDeposits = 0
INVARIANTS
  PoolHasNoDuplicates
