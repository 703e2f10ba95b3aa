SPECIFICATION FairSpec
CONSTANTS
  r1 = r1
  r2 = r2
  Addresses <- MCAddresses
  Star = Star
  Names <- MCNames
  Values <- MCValues
  ValidNames <- MCValidNames
  ValidValues <- MCValues
  Urls <- MCUrls
  Places <- MCPlaces
  None = None
  Requests <- MCRequests
  Transactions <- MCTransactions
  Configs <- MCConfigs
  RegoPolicies <- MCRegoPolicies
  GasUsed <- MCGasUsed
  MaxI64 = 4
  MaxTime = 3
  MaxEvents = 1
INVARIANTS
  TypeOK
  LimitHolds
  CountersSettle
  PendingBelongsToARequest
  InstalledRulesAreLoaded
  AccessIsJustified
PROPERTIES
  RequestsAreAnswered
CHECK_DEADLOCK FALSE
