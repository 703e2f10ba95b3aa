SPECIFICATION RegistrySpec
CONSTANTS
  c1 = c1
  c2 = c2
  CoinIds <- MCCoinIds
  MaxCoinsPerQuery = 2
  LockDuration = 1
  Absent = Absent
  Budgets <- MCBudgets
  Durations <- MCDurations
  Balances <- MCBalances
  MaxBatch = 2
  MaxPool = 3
  MaxReservations = 2
  MaxTime = 3
INVARIANTS
  RegistryTypeOK
  StatisticsAgree
  ReservationsCanExpire
  PooledCoinsAreInitialized
PROPERTIES
  TakenCoinsAreRecorded
  ReservationsAreFrugal
  ReservationsEndOnce
CHECK_DEADLOCK FALSE
SYMMETRY Symmetric
