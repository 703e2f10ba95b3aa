----------------------- MODULE RegistryClientsProofs -----------------------
(***************************************************************************)
(* The properties of RegistryClients hold for every set of coin ids, every *)
(* limit of coins per reservation and every set of budgets and durations.  *)
(*                                                                         *)
(* The four invariants are inductive together: the count and the total     *)
(* stay natural numbers because they agree with the list, and a grant      *)
(* takes a new id because live reservations have ids INCR has passed.      *)
(***************************************************************************)
EXTENDS RegistryClients, CoinRegistryProofs

IInv ==
  /\ RegistryTypeOK
  /\ StatisticsAgree
  /\ ReservationsCanExpire
  /\ PooledCoinsAreInitialized

LEMMA InitImpliesIInv == RegistryInit => IInv
<1> SUFFICES ASSUME RegistryInit PROVE IInv
  OBVIOUS
<1>1. << >> \in Seq(Coin) /\ DOMAIN << >> = {}
  OBVIOUS
<1>2. RegistryTypeOK
  <2>1. /\ DOMAIN reservations = {}
        /\ DOMAIN expirationQueue = {}
        /\ available \in Seq(Coin)
    BY <1>1 DEF RegistryInit
  <2>2. /\ \A r \in DOMAIN reservations : reservations[r] \in Seq(CoinIds)
        /\ \A r \in DOMAIN expirationQueue : expirationQueue[r] \in Nat
    BY <2>1
  <2>3. /\ DOMAIN reservations \subseteq Nat
        /\ DOMAIN expirationQueue \subseteq Nat
    BY <2>1
  <2>4. /\ now \in Nat \ {0}
        /\ availableCount = Absent /\ availableTotal = Absent
        /\ nextReservationId \in Nat
        /\ schemaVersion = Absent
        /\ initLock \in Nat /\ maintenanceLock \in Nat
    BY DEF RegistryInit
  <2>5. initialized \in BOOLEAN
    BY DEF RegistryInit
  <2> QED
    BY <2>1, <2>2, <2>3, <2>4, <2>5 DEF RegistryTypeOK
<1>3. StatisticsAgree
  BY DEF RegistryInit, StatisticsAgree
<1>4. ReservationsCanExpire
  BY <1>1 DEF RegistryInit, ReservationsCanExpire
<1>5. PooledCoinsAreInitialized
  BY DEF RegistryInit, PooledCoinsAreInitialized
<1> QED
  BY <1>2, <1>3, <1>4, <1>5 DEF IInv

LEMMA UnchangedPreservesIInv == IInv /\ UNCHANGED registryVars => IInv'
BY DEF IInv, RegistryTypeOK, StatisticsAgree, ReservationsCanExpire,
       PooledCoinsAreInitialized, registryVars, poolVars, reservationVars,
       lockVars

(* What a granted reservation does to the list, in the terms of the lemmas. *)
LEMMA GrantedTakesTheFront ==
  ASSUME RegistryTypeOK, StatisticsAgree,
         NEW b \in Budgets, NEW d \in Durations, ReserveGranted(b, d)
  PROVE  \E n \in 1 .. MaxCoinsPerQuery, taken \in Seq(Coin) :
           /\ Len(taken) = n
           /\ available = taken \o available'
           /\ available' \in Seq(Coin)
           /\ Len(available) = n + Len(available')
           /\ BalanceOf(available) = BalanceOf(taken) + BalanceOf(available')
           /\ availableTotal' = BalanceOf(available')
           /\ availableCount' = Len(available')
           /\ reservations' =
                [x \in DOMAIN reservations \cup {nextReservationId + 1} |->
                   IF x = nextReservationId + 1 THEN IdsOf(taken)
                                                ELSE reservations[x]]
           /\ PrefixBalance(available)[n] >= b
           /\ PrefixBalance(available)[n - 1] < b
<1> DEFINE n == PoppedCoins(b)
           N == Len(available)
           paid == PrefixBalance(available)
           taken == SubSeq(available, 1, n)
           rest == SubSeq(available, n + 1, N)
<1>1. available \in Seq(Coin) /\ b \in Nat \ {0} /\ N \in Nat
  BY ClientsAssumption DEF RegistryTypeOK
<1>2. /\ n \in 0 .. N
      /\ n <= MaxCoinsPerQuery
      /\ \A m \in 0 .. n - 1 : paid[m] < b
  BY <1>1, PoppedCoinsProperties
<1>3. paid[n] >= b
  BY DEF ReserveGranted, EnoughCoins
<1>4. paid \in [0 .. N -> Nat] /\ paid[0] = 0
  BY <1>1, PrefixBalanceSums DEF SumsTo
<1>5. /\ available' = rest
      /\ availableTotal # Absent
      /\ availableTotal' = availableTotal - BalanceOf(taken)
      /\ availableCount' = availableCount - n
      /\ reservations' =
           [x \in DOMAIN reservations \cup {nextReservationId + 1} |->
              IF x = nextReservationId + 1 THEN IdsOf(taken)
                                           ELSE reservations[x]]
  BY DEF ReserveGranted, NewReservationId
<1> HIDE DEF n, paid
<1>6. n \in 1 .. MaxCoinsPerQuery /\ n - 1 \in 0 .. n - 1
  BY <1>1, <1>2, <1>3, <1>4
<1>7. paid[n - 1] < b
  BY <1>2, <1>6
<1>8. /\ taken \in Seq(Coin) /\ rest \in Seq(Coin)
      /\ Len(taken) = n /\ Len(rest) = N - n
      /\ available = taken \o rest
      /\ BalanceOf(available) = BalanceOf(taken) + BalanceOf(rest)
  BY <1>1, <1>2, SplitAt
<1>9. /\ BalanceOf(taken) \in Nat
      /\ BalanceOf(rest) \in Nat
  BY <1>8, BalanceOfType
<1>10. availableCount = N /\ availableTotal = BalanceOf(available)
  BY <1>5 DEF StatisticsAgree
<1> HIDE DEF taken, rest, N
<1>11. /\ availableTotal' = BalanceOf(rest)
       /\ availableCount' = Len(rest)
       /\ N = n + Len(rest)
  BY <1>1, <1>5, <1>6, <1>8, <1>9, <1>10
<1> QED
  BY <1>3, <1>5, <1>6, <1>7, <1>8, <1>11 DEF n, paid, N

-----------------------------------------------------------------------------
LEMMA GrantedPreservesIInv ==
  ASSUME IInv, NEW b \in Budgets, NEW d \in Durations, ReserveGranted(b, d)
  PROVE  IInv'
<1> USE DEF IInv
<1> DEFINE r == nextReservationId + 1
<1>1. PICK n \in 1 .. MaxCoinsPerQuery, taken \in Seq(Coin) :
        /\ available = taken \o available'
        /\ available' \in Seq(Coin)
        /\ Len(available) = n + Len(available')
        /\ availableTotal' = BalanceOf(available')
        /\ availableCount' = Len(available')
        /\ reservations' =
             [x \in DOMAIN reservations \cup {r} |->
                IF x = r THEN IdsOf(taken) ELSE reservations[x]]
  BY GrantedTakesTheFront
<1>2. /\ expirationQueue' = [x \in DOMAIN expirationQueue \cup {r} |->
                               IF x = r THEN now + d ELSE expirationQueue[x]]
      /\ nextReservationId' = r
      /\ UNCHANGED <<now, initialized, schemaVersion, lockVars>>
  BY DEF ReserveGranted, NewReservationId
<1>3. r \in Nat /\ now + d \in Nat
  BY ClientsAssumption DEF RegistryTypeOK
<1>4. RegistryTypeOK'
  <2>1. IdsOf(taken) \in Seq(CoinIds)
    BY IdsOfProperties
  <2>2. availableTotal' \in Nat /\ availableCount' \in Nat
    BY <1>1, BalanceOfType
  <2>3. /\ DOMAIN reservations' \subseteq Nat
        /\ \A x \in DOMAIN reservations' : reservations'[x] \in Seq(CoinIds)
    BY <1>1, <1>3, <2>1 DEF RegistryTypeOK
  <2>4. /\ DOMAIN expirationQueue' \subseteq Nat
        /\ \A x \in DOMAIN expirationQueue' : expirationQueue'[x] \in Nat
    BY <1>2, <1>3 DEF RegistryTypeOK
  <2> QED
    BY <1>1, <1>2, <1>3, <2>2, <2>3, <2>4 DEF RegistryTypeOK, lockVars
<1>5. StatisticsAgree'
  BY <1>1 DEF StatisticsAgree
<1>6. ReservationsCanExpire'
  BY <1>1, <1>2, <1>3 DEF ReservationsCanExpire, RegistryTypeOK
<1>7. PooledCoinsAreInitialized'
  <2>1. available # << >>
    BY <1>1 DEF RegistryTypeOK
  <2> QED
    BY <1>2, <2>1 DEF PooledCoinsAreInitialized
<1> QED
  BY <1>4, <1>5, <1>6, <1>7

(* A reservation that fails leaves an inconsistent list only where there are
   no statistics to be inconsistent with. *)
LEMMA FailedPreservesIInv ==
  ASSUME IInv, NEW b \in Budgets, ReserveFailed(b)
  PROVE  IInv'
<1> USE DEF IInv
<1> DEFINE n == PoppedCoins(b)
<1>1. available \in Seq(Coin) /\ b \in Nat \ {0} /\ Len(available) \in Nat
  BY ClientsAssumption DEF RegistryTypeOK
<1>2. n \in 0 .. Len(available)
  BY <1>1, PoppedCoinsProperties
<1>3. /\ availableTotal = Absent
      /\ available' = SubSeq(available, n + 1, Len(available))
      /\ UNCHANGED <<now, availableCount, availableTotal, reservationVars,
                     initialized, schemaVersion, lockVars>>
  BY DEF ReserveFailed
<1> HIDE DEF n
<1>4. /\ available' \in Seq(Coin)
      /\ available = << >> => available' = << >>
  <2>1. available' \in Seq(Coin) /\ Len(available') = Len(available) - n
    BY <1>1, <1>2, <1>3, SplitAt
  <2> QED
    BY <1>1, <1>2, <2>1
<1>5. availableCount = Absent
  BY <1>1, <1>3, BalanceOfType, ConstantsAssumption DEF StatisticsAgree
<1> QED
  BY <1>3, <1>4, <1>5 DEF RegistryTypeOK, StatisticsAgree,
     ReservationsCanExpire, PooledCoinsAreInitialized, reservationVars, lockVars

LEMMA BatchesAreCoins ==
  ASSUME NEW coins \in Batches
  PROVE  coins \in Seq(Coin)
<1> DEFINE Fresh == [id : CoinIds, balance : Balances, version : {1}]
<1>1. Fresh \subseteq Coin
  <2>1. Balances \subseteq Nat /\ {1} \subseteq Nat
    BY ClientsAssumption
  <2> QED
    BY <2>1, Zenon DEF Coin
<1> HIDE DEF Fresh
<1>2. PICK n \in 0 .. MaxBatch : coins \in [1 .. n -> Fresh]
  BY DEF Batches, Fresh
<1>3. n \in Nat /\ coins \in [1 .. n -> Coin]
  BY <1>1, <1>2, ClientsAssumption
<1> QED
  BY <1>3, SeqDef

LEMMA AddPreservesIInv ==
  ASSUME IInv, NEW coins \in Batches,
         AddNewCoins(coins) \/ AddNewCoinsFailed(coins)
  PROVE  IInv'
<1> USE DEF IInv
<1>1. available \in Seq(Coin) /\ coins \in Seq(Coin)
  BY BatchesAreCoins DEF RegistryTypeOK
<1>2. PushCoins(coins)
  BY DEF AddNewCoins, AddNewCoinsFailed
<1>3. /\ available' \in Seq(Coin)
      /\ Len(available') = Len(available) + Len(coins)
      /\ BalanceOf(available') = BalanceOf(available) + BalanceOf(coins)
      /\ available' # << >> => available # << >> \/ coins # << >>
  BY <1>1, <1>2, BalanceOfConcat DEF PushCoins
<1>4. /\ initialized' = (initialized \/ coins # << >>)
      /\ schemaVersion' = IF coins # << >> /\ schemaVersion = Absent
                          THEN 1 ELSE schemaVersion
      /\ UNCHANGED <<now, reservationVars, lockVars>>
  BY <1>2 DEF PushCoins
<1>5. /\ Len(available') \in Nat
      /\ BalanceOf(available') \in Nat
  BY <1>3, BalanceOfType
<1>6. \/ /\ availableCount' = Len(available')
         /\ availableTotal' = BalanceOf(available')
      \/ availableCount' = Absent /\ availableTotal' = Absent
  <2>1. CASE AddNewCoins(coins)
    BY <1>3, <2>1 DEF AddNewCoins, StatisticsAgree
  <2>2. CASE AddNewCoinsFailed(coins)
    <3>1. availableTotal = Absent /\ UNCHANGED <<availableTotal, availableCount>>
      BY <2>2 DEF AddNewCoinsFailed
    <3>2. availableTotal # BalanceOf(available)
      BY <1>1, <3>1, BalanceOfType, ConstantsAssumption
    <3> QED
      BY <3>1, <3>2 DEF StatisticsAgree
  <2> QED
    BY <2>1, <2>2
<1>7. RegistryTypeOK'
  BY <1>3, <1>4, <1>5, <1>6 DEF RegistryTypeOK, reservationVars, lockVars
<1>8. StatisticsAgree'
  BY <1>6 DEF StatisticsAgree
<1>9. ReservationsCanExpire'
  BY <1>4 DEF ReservationsCanExpire, reservationVars
<1>10. PooledCoinsAreInitialized'
  <2>1. CASE coins # << >>
    <3>1. initialized' = TRUE
      BY <1>4, <2>1
    <3>2. schemaVersion' # Absent
      BY <1>4, <2>1, ConstantsAssumption
    <3> QED
      BY <3>1, <3>2 DEF PooledCoinsAreInitialized
  <2>2. CASE coins = << >>
    <3>1. schemaVersion' = schemaVersion /\ initialized' = (initialized \/ FALSE)
      BY <1>4, <2>2
    <3>2. available' # << >> => available # << >>
      BY <1>3, <2>2
    <3> QED
      BY <3>1, <3>2, Zenon DEF PooledCoinsAreInitialized
  <2> QED
    BY <2>1, <2>2
<1> QED
  BY <1>7, <1>8, <1>9, <1>10

LEMMA ReadyPreservesIInv ==
  ASSUME IInv, NEW r, ReadyForExecution(r)
  PROVE  IInv'
<1> USE DEF IInv
<1>1. /\ reservations' = Restrict(reservations, DOMAIN reservations \ {r})
      /\ UNCHANGED <<now, poolVars, nextReservationId, expirationQueue,
                     initialized, schemaVersion, lockVars>>
  BY DEF ReadyForExecution
<1>2. /\ DOMAIN reservations' \subseteq DOMAIN reservations
      /\ \A x \in DOMAIN reservations' : reservations'[x] = reservations[x]
  BY <1>1 DEF Restrict
<1>3. RegistryTypeOK'
  BY <1>1, <1>2 DEF RegistryTypeOK, poolVars, lockVars
<1>4. StatisticsAgree' /\ PooledCoinsAreInitialized'
  BY <1>1 DEF StatisticsAgree, PooledCoinsAreInitialized, poolVars
<1>5. ReservationsCanExpire'
  BY <1>1, <1>2 DEF ReservationsCanExpire
<1> QED
  BY <1>3, <1>4, <1>5

(* Both keys lose the same ids, which keeps one within the other. *)
LEMMA ExpirePreservesIInv ==
  ASSUME IInv, ExpireCoins
  PROVE  IInv'
<1> USE DEF IInv
<1>1. /\ reservations' =
           Restrict(reservations, DOMAIN reservations \ DueReservations)
      /\ expirationQueue' =
           Restrict(expirationQueue, DOMAIN expirationQueue \ DueReservations)
      /\ UNCHANGED <<now, poolVars, nextReservationId, initialized,
                     schemaVersion, lockVars>>
  BY DEF ExpireCoins
<1>2. /\ DOMAIN reservations' = DOMAIN reservations \ DueReservations
      /\ \A x \in DOMAIN reservations' : reservations'[x] = reservations[x]
      /\ DOMAIN expirationQueue' = DOMAIN expirationQueue \ DueReservations
      /\ \A x \in DOMAIN expirationQueue' :
           expirationQueue'[x] = expirationQueue[x]
  BY <1>1 DEF Restrict
<1>3. RegistryTypeOK'
  BY <1>1, <1>2 DEF RegistryTypeOK, poolVars, lockVars
<1>4. StatisticsAgree' /\ PooledCoinsAreInitialized'
  BY <1>1 DEF StatisticsAgree, PooledCoinsAreInitialized, poolVars
<1>5. ReservationsCanExpire'
  BY <1>1, <1>2 DEF ReservationsCanExpire
<1> QED
  BY <1>3, <1>4, <1>5

(* The two keys are missing together, so they are also computed together. *)
LEMMA InitCoinStatsPreservesIInv ==
  ASSUME IInv, InitCoinStats
  PROVE  IInv'
<1> USE DEF IInv
<1>1. /\ availableCount' =
           IF availableCount = Absent THEN Len(available) ELSE availableCount
      /\ availableTotal' = IF availableTotal = Absent
                           THEN BalanceOf(available) ELSE availableTotal
      /\ schemaVersion' = IF schemaVersion = Absent THEN 1 ELSE schemaVersion
      /\ UNCHANGED <<now, available, reservationVars, initialized, lockVars>>
  BY DEF InitCoinStats
<1>2. Len(available) \in Nat /\ BalanceOf(available) \in Nat
  BY BalanceOfType DEF RegistryTypeOK
<1>3. RegistryTypeOK'
  BY <1>1, <1>2 DEF RegistryTypeOK, reservationVars, lockVars
<1>4. StatisticsAgree'
  BY <1>1, <1>2, ConstantsAssumption DEF StatisticsAgree
<1>5. ReservationsCanExpire'
  BY <1>1 DEF ReservationsCanExpire, reservationVars
<1>6. PooledCoinsAreInitialized'
  <2>1. schemaVersion' # Absent
    BY <1>1, ConstantsAssumption
  <2> QED
    BY <1>1, <2>1 DEF PooledCoinsAreInitialized
<1> QED
  BY <1>3, <1>4, <1>5, <1>6

LEMMA CleanUpPreservesIInv ==
  ASSUME IInv, CleanUpCoinRegistry
  PROVE  IInv'
<1> USE DEF IInv
<1>1. << >> \in Seq(Coin) /\ DOMAIN << >> = {}
  OBVIOUS
<1>2. /\ available' = << >>
      /\ availableCount' = Absent /\ availableTotal' = Absent
      /\ nextReservationId' = 0
      /\ DOMAIN reservations' = {} /\ DOMAIN expirationQueue' = {}
      /\ schemaVersion' = Absent
      /\ UNCHANGED <<now, lockVars>>
  BY <1>1 DEF CleanUpCoinRegistry
<1>3. initialized' = FALSE
  BY DEF CleanUpCoinRegistry
<1>4. RegistryTypeOK'
  <2>1. initialized' \in BOOLEAN
    BY <1>3
  <2>2. available' \in Seq(Coin)
    BY <1>1, <1>2
  <2>3. now' \in Nat \ {0} /\ initLock' \in Nat /\ maintenanceLock' \in Nat
    BY <1>2 DEF RegistryTypeOK, lockVars
  <2> QED
    BY <1>2, <2>1, <2>2, <2>3 DEF RegistryTypeOK
<1>5. StatisticsAgree' /\ PooledCoinsAreInitialized'
  BY <1>2 DEF StatisticsAgree, PooledCoinsAreInitialized
<1>6. ReservationsCanExpire'
  BY <1>2 DEF ReservationsCanExpire
<1> QED
  BY <1>4, <1>5, <1>6

LEMMA LocksAndClockPreserveIInv ==
  ASSUME IInv,
         \/ AcquireInitLock \/ ReleaseInitLock
         \/ AcquireMaintenanceLock \/ ReleaseMaintenanceLock
         \/ Tick
  PROVE  IInv'
<1> USE DEF IInv
<1>1. /\ now' \in Nat \ {0} /\ initLock' \in Nat /\ maintenanceLock' \in Nat
      /\ UNCHANGED <<poolVars, reservationVars, initialized, schemaVersion>>
  BY ConstantsAssumption
     DEF RegistryTypeOK, Acquired, AcquireInitLock, ReleaseInitLock,
         AcquireMaintenanceLock, ReleaseMaintenanceLock, Tick, lockVars
<1>2. RegistryTypeOK'
  BY <1>1 DEF RegistryTypeOK, poolVars, reservationVars
<1>3. StatisticsAgree' /\ ReservationsCanExpire' /\ PooledCoinsAreInitialized'
  BY <1>1 DEF StatisticsAgree, ReservationsCanExpire,
     PooledCoinsAreInitialized, poolVars, reservationVars
<1> QED
  BY <1>2, <1>3

-----------------------------------------------------------------------------
LEMMA IInvIsInductive == IInv /\ [RegistryNext]_registryVars => IInv'
<1> SUFFICES ASSUME IInv, [RegistryNext]_registryVars PROVE IInv'
  OBVIOUS
<1>1. CASE Reserve
  <2>1. PICK b \in Budgets :
          \/ ReserveRefused(b)
          \/ \E d \in Durations : ReserveGranted(b, d)
          \/ ReserveFailed(b)
    BY <1>1 DEF Reserve
  <2>2. CASE ReserveRefused(b)
    BY <2>2, UnchangedPreservesIInv DEF ReserveRefused
  <2>3. CASE \E d \in Durations : ReserveGranted(b, d)
    BY <2>3, GrantedPreservesIInv
  <2>4. CASE ReserveFailed(b)
    BY <2>4, FailedPreservesIInv
  <2> QED
    BY <2>1, <2>2, <2>3, <2>4
<1>2. CASE Add
  BY <1>2, AddPreservesIInv DEF Add
<1>3. CASE Ready
  <2>1. PICK r \in 1 .. MaxReservations : ReadyForExecution(r) \/ ReadyRefused(r)
    BY <1>3 DEF Ready
  <2>2. CASE ReadyForExecution(r)
    BY <2>2, ReadyPreservesIInv
  <2>3. CASE ReadyRefused(r)
    BY <2>3, UnchangedPreservesIInv DEF ReadyRefused
  <2> QED
    BY <2>1, <2>2, <2>3
<1>4. CASE ExpireCoins
  BY <1>4, ExpirePreservesIInv
<1>5. CASE InitCoinStats
  BY <1>5, InitCoinStatsPreservesIInv
<1>6. CASE CleanUpCoinRegistry
  BY <1>6, CleanUpPreservesIInv
<1>7. CASE \/ AcquireInitLock \/ ReleaseInitLock
           \/ AcquireMaintenanceLock \/ ReleaseMaintenanceLock
           \/ Advance
  BY <1>7, LocksAndClockPreserveIInv DEF Advance
<1>8. CASE UNCHANGED registryVars
  BY <1>8, UnchangedPreservesIInv
<1> QED
  BY <1>1, <1>2, <1>3, <1>4, <1>5, <1>6, <1>7, <1>8 DEF RegistryNext

LEMMA IInvHolds == RegistrySpec => []IInv
BY InitImpliesIInv, IInvIsInductive, PTL DEF RegistrySpec

(* The types of the keys hold whatever the clients do. *)
THEOREM RegistryIsTyped == RegistrySpec => []RegistryTypeOK
<1>1. IInv => RegistryTypeOK
  BY DEF IInv
<1> QED
  BY <1>1, IInvHolds, PTL

(* The statistics never drift from the list. *)
THEOREM StatisticsNeverDrift == RegistrySpec => []StatisticsAgree
<1>1. IInv => StatisticsAgree
  BY DEF IInv
<1> QED
  BY <1>1, IInvHolds, PTL

(* Every live reservation will come up for expiration. *)
THEOREM ReservationsAlwaysCanExpire == RegistrySpec => []ReservationsCanExpire
<1>1. IInv => ReservationsCanExpire
  BY DEF IInv
<1> QED
  BY <1>1, IInvHolds, PTL

(* A pool that holds coins is never taken for one that was not initialized. *)
THEOREM PooledCoinsStayInitialized == RegistrySpec => []PooledCoinsAreInitialized
<1>1. IInv => PooledCoinsAreInitialized
  BY DEF IInv
<1> QED
  BY <1>1, IInvHolds, PTL

-----------------------------------------------------------------------------
(* Only a grant makes a reservation; everything else keeps those that are
   live, or drops some. *)
LEMMA OnlyGrantsReserve ==
  ASSUME IInv, [RegistryNext]_registryVars
  PROVE  \/ DOMAIN reservations' \subseteq DOMAIN reservations
         \/ \E b \in Budgets, d \in Durations : ReserveGranted(b, d)
<1>1. CASE Reserve
  BY <1>1 DEF Reserve, ReserveRefused, ReserveFailed, registryVars,
     reservationVars
<1>2. CASE Add
  BY <1>2 DEF Add, AddNewCoins, AddNewCoinsFailed, PushCoins, reservationVars
<1>3. CASE Ready
  BY <1>3 DEF Ready, ReadyForExecution, ReadyRefused, registryVars,
     reservationVars, Restrict
<1>4. CASE ExpireCoins
  BY <1>4 DEF ExpireCoins, Restrict
<1>5. CASE CleanUpCoinRegistry
  <2>1. DOMAIN << >> = {}
    OBVIOUS
  <2> QED
    BY <1>5, <2>1 DEF CleanUpCoinRegistry
<1>6. CASE \/ InitCoinStats
           \/ AcquireInitLock \/ ReleaseInitLock
           \/ AcquireMaintenanceLock \/ ReleaseMaintenanceLock
           \/ Advance
           \/ UNCHANGED registryVars
  BY <1>6 DEF InitCoinStats, AcquireInitLock, ReleaseInitLock,
     AcquireMaintenanceLock, ReleaseMaintenanceLock, Advance, Tick,
     registryVars, reservationVars
<1> QED
  BY <1>1, <1>2, <1>3, <1>4, <1>5, <1>6 DEF RegistryNext

(* The reservation a grant makes has an id that none had before. *)
LEMMA GrantedIsNew ==
  ASSUME IInv, NEW b \in Budgets, NEW d \in Durations, ReserveGranted(b, d)
  PROVE  /\ nextReservationId + 1 \notin DOMAIN reservations
         /\ DOMAIN reservations' =
              DOMAIN reservations \cup {nextReservationId + 1}
         /\ nextReservationId + 1 \notin 1 .. nextReservationId
BY DEF IInv, RegistryTypeOK, ReservationsCanExpire, ReserveGranted,
       NewReservationId

(* An id that is not live any more stays so, until the ids start again. *)
THEOREM ReservationsEndForGood == RegistrySpec => ReservationsEndOnce
<1> DEFINE Stays ==
      \A r \in 1 .. nextReservationId :
        r \notin DOMAIN reservations => r \notin DOMAIN reservations'
<1>1. ASSUME IInv, [RegistryNext]_registryVars PROVE [Stays]_registryVars
  <2>1. CASE DOMAIN reservations' \subseteq DOMAIN reservations
    BY <2>1
  <2>2. CASE \E b \in Budgets, d \in Durations : ReserveGranted(b, d)
    BY <1>1, <2>2, GrantedIsNew
  <2> QED
    BY <1>1, <2>1, <2>2, OnlyGrantsReserve
<1> QED
  BY <1>1, IInvHolds, PTL DEF RegistrySpec, ReservationsEndOnce

(* A reservation never takes a coin too many or too few. *)
THEOREM ReservationsStayFrugal == RegistrySpec => ReservationsAreFrugal
<1> DEFINE Frugal ==
      \A r \in DOMAIN reservations' \ DOMAIN reservations :
        LET n == Len(reservations'[r])
            paid == PrefixBalance(available)
        IN  /\ n \in 1 .. MaxCoinsPerQuery
            /\ \E b \in Budgets : paid[n] >= b /\ paid[n - 1] < b
<1>1. ASSUME IInv, [RegistryNext]_registryVars PROVE [Frugal]_registryVars
  <2>1. CASE DOMAIN reservations' \subseteq DOMAIN reservations
    BY <2>1
  <2>2. ASSUME NEW b \in Budgets, NEW d \in Durations, ReserveGranted(b, d)
        PROVE  Frugal
    <3> DEFINE q == nextReservationId + 1
    <3>1. DOMAIN reservations' \ DOMAIN reservations = {q}
      BY <1>1, <2>2, GrantedIsNew
    <3>2. PICK n \in 1 .. MaxCoinsPerQuery, taken \in Seq(Coin) :
            /\ Len(taken) = n
            /\ reservations' =
                 [x \in DOMAIN reservations \cup {q} |->
                    IF x = q THEN IdsOf(taken) ELSE reservations[x]]
            /\ PrefixBalance(available)[n] >= b
            /\ PrefixBalance(available)[n - 1] < b
      BY <1>1, <2>2, GrantedTakesTheFront DEF IInv
    <3>3. Len(reservations'[q]) = n
      BY <3>2, IdsOfProperties
    <3> QED
      BY <3>1, <3>2, <3>3
  <2> QED
    BY <1>1, <2>1, <2>2, OnlyGrantsReserve
<1> QED
  BY <1>1, IInvHolds, PTL DEF RegistrySpec, ReservationsAreFrugal

(* While the statistics exist, whatever leaves the list is in a reservation. *)
THEOREM TakenCoinsStayRecorded == RegistrySpec => TakenCoinsAreRecorded
<1> DEFINE Recorded ==
      availableTotal # Absent /\ availableTotal' # Absent =>
        \/ IsPrefix(available, available')
        \/ \E r \in DOMAIN reservations' \ DOMAIN reservations :
             reservations'[r] \o IdsOf(available') = IdsOf(available)
<1>1. ASSUME IInv, [RegistryNext]_registryVars PROVE [Recorded]_registryVars
  <2> SUFFICES ASSUME availableTotal # Absent, availableTotal' # Absent
               PROVE  \/ IsPrefix(available, available')
                      \/ \E r \in DOMAIN reservations' \ DOMAIN reservations :
                           reservations'[r] \o IdsOf(available')
                             = IdsOf(available)
    OBVIOUS
  <2>1. available \in Seq(Coin)
    BY <1>1 DEF IInv, RegistryTypeOK
  <2>2. CASE available' = available
    BY <2>1, <2>2, SameIsPrefix
  <2>3. ASSUME NEW b \in Budgets, NEW d \in Durations, ReserveGranted(b, d)
        PROVE  \E r \in DOMAIN reservations' \ DOMAIN reservations :
                 reservations'[r] \o IdsOf(available') = IdsOf(available)
    <3> DEFINE q == nextReservationId + 1
    <3>1. q \in DOMAIN reservations' \ DOMAIN reservations
      BY <1>1, <2>3, GrantedIsNew
    <3>2. PICK n \in 1 .. MaxCoinsPerQuery, taken \in Seq(Coin) :
            /\ available = taken \o available'
            /\ available' \in Seq(Coin)
            /\ reservations' =
                 [x \in DOMAIN reservations \cup {q} |->
                    IF x = q THEN IdsOf(taken) ELSE reservations[x]]
      BY <1>1, <2>3, GrantedTakesTheFront DEF IInv
    <3>3. reservations'[q] = IdsOf(taken)
      BY <3>2
    <3>4. IdsOf(available) = IdsOf(taken) \o IdsOf(available')
      BY <3>2, IdsOfConcat
    <3> QED
      BY <3>1, <3>3, <3>4
  <2>4. CASE Reserve
    BY <2>2, <2>3, <2>4
       DEF Reserve, ReserveRefused, ReserveFailed, registryVars, poolVars
  <2>5. CASE Add
    <3>1. PICK coins \in Batches : PushCoins(coins)
      BY <2>5 DEF Add, AddNewCoins, AddNewCoinsFailed
    <3>2. available' = available \o coins /\ coins \in Seq(Coin)
      BY <3>1, BatchesAreCoins DEF PushCoins
    <3> QED
      BY <2>1, <3>2, ConcatIsLonger
  <2>6. ~ CleanUpCoinRegistry
    BY DEF CleanUpCoinRegistry
  <2>7. CASE \/ Ready \/ ExpireCoins \/ InitCoinStats
             \/ AcquireInitLock \/ ReleaseInitLock
             \/ AcquireMaintenanceLock \/ ReleaseMaintenanceLock
             \/ Advance
             \/ UNCHANGED registryVars
    BY <2>2, <2>7 DEF Ready, ReadyForExecution, ReadyRefused, ExpireCoins,
       InitCoinStats, AcquireInitLock, ReleaseInitLock, AcquireMaintenanceLock,
       ReleaseMaintenanceLock, Advance, Tick, registryVars, poolVars
  <2> QED
    BY <1>1, <2>4, <2>5, <2>6, <2>7 DEF RegistryNext
<1> QED
  BY <1>1, IInvHolds, PTL DEF RegistrySpec, TakenCoinsAreRecorded

=============================================================================
