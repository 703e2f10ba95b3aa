SPECIFICATION PathSpec
CONSTANTS
  r1 = r1
  r2 = r2
  t1 = t1
  t2 = t2
  None = None
  Requests <- MCRequests
  Tasks <- MCTasks
  DailyCap = 2
  I63 = 16
  NetGas <- MCNetGas
  MaxAttempts = 1
  MaxDay = 1
  MaxExecuted = 3
  MaxReservations = 3
  MaxRestarts = 1
INVARIANTS
  PathTypeOK
  OvershootIsBounded
  SponsorSignsOnce
  SentGasIsCountedOnce
  LedgerGasIsCapped
PROPERTIES
  RefusalsAreEarned
SYMMETRY Symmetric
