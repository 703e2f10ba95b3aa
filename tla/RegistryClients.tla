-------------------------- MODULE RegistryClients --------------------------
(***************************************************************************)
(* The coin registry under its most general clients: any number of gas     *)
(* stations sharing the database, which may run any script at any moment,  *)
(* with any coins.  What is shown here holds however the gas stations      *)
(* behave; module GasStation has the clients that exist.                   *)
(***************************************************************************)
EXTENDS CoinRegistry

CONSTANTS
  Budgets,          \* budgets a client may ask for
  Durations,        \* durations a client may reserve for
  Balances,         \* balances of the coins that are added
  MaxBatch,         \* bound: coins one add_new_coins call adds
  MaxPool,          \* bound: coins in the list
  MaxReservations,  \* bound: reservation ids given out
  MaxTime           \* bound: the clock

ASSUME ClientsAssumption ==
  /\ Budgets \subseteq Nat \ {0}
  /\ Durations \subseteq Nat \ {0}
  /\ Balances \subseteq Nat
  /\ MaxBatch \in Nat
  /\ MaxReservations \in Nat

Batches ==
  LET Fresh == [id : CoinIds, balance : Balances, version : {1}]
  IN  UNION {[1 .. n -> Fresh] : n \in 0 .. MaxBatch}

Reserve ==
  \E b \in Budgets :
    \/ ReserveRefused(b)
    \/ /\ nextReservationId < MaxReservations
       /\ \E d \in Durations : ReserveGranted(b, d)
    \/ ReserveFailed(b)

Add ==
  \E coins \in Batches :
    /\ Len(available) + Len(coins) <= MaxPool
    /\ AddNewCoins(coins) \/ AddNewCoinsFailed(coins)

Ready ==
  \E r \in 1 .. MaxReservations : ReadyForExecution(r) \/ ReadyRefused(r)

Advance == now < MaxTime /\ Tick

RegistryNext ==
  \/ Reserve
  \/ Add
  \/ Ready
  \/ ExpireCoins
  \/ InitCoinStats
  \/ CleanUpCoinRegistry
  \/ AcquireInitLock
  \/ ReleaseInitLock
  \/ AcquireMaintenanceLock
  \/ ReleaseMaintenanceLock
  \/ Advance

RegistrySpec == RegistryInit /\ [][RegistryNext]_registryVars

-----------------------------------------------------------------------------
RegistryTypeOK ==
  /\ now \in Nat \ {0}
  /\ available \in Seq(Coin)
  /\ availableCount \in Nat \cup {Absent}
  /\ availableTotal \in Nat \cup {Absent}
  /\ nextReservationId \in Nat
  /\ DOMAIN reservations \subseteq Nat
  /\ \A r \in DOMAIN reservations : reservations[r] \in Seq(CoinIds)
  /\ DOMAIN expirationQueue \subseteq Nat
  /\ \A r \in DOMAIN expirationQueue : expirationQueue[r] \in Nat
  /\ initialized \in BOOLEAN
  /\ schemaVersion \in {1, Absent}
  /\ initLock \in Nat
  /\ maintenanceLock \in Nat

(* The two statistics, which are updated apart from the list, tell its
   length and the sum of its balances; and they exist or are missing
   together (storage/mod.rs:75-91, reserve_gas_coins.lua:62-71,
   add_new_coins.lua:42-51, init_coin_stats_at_startup.lua:14-33). *)
StatisticsAgree ==
  \/ availableCount = Absent /\ availableTotal = Absent
  \/ availableCount = Len(available) /\ availableTotal = BalanceOf(available)

(* A live reservation always has an entry in the expiration queue under an id
   that INCR has already passed: it can neither live for ever nor be
   overwritten by a later reservation (reserve_gas_coins.lua:73-78). *)
ReservationsCanExpire ==
  /\ DOMAIN reservations \subseteq DOMAIN expirationQueue
  /\ DOMAIN expirationQueue \subseteq 1 .. nextReservationId

(* A pool that holds coins is marked initialized and versioned, so no gas
   station that starts on it splits coins again as on a first start
   (add_new_coins.lua:31-40). *)
PooledCoinsAreInitialized ==
  available # << >> => initialized /\ schemaVersion # Absent

(* While the statistics exist, the list only grows at its end, or loses coins
   at its front that one new reservation records in their order: "It keeps a
   record of the reserved coins" (storage/mod.rs:25-29). *)
TakenCoinsAreRecorded ==
  [][ availableTotal # Absent /\ availableTotal' # Absent =>
        \/ IsPrefix(available, available')
        \/ \E r \in DOMAIN reservations' \ DOMAIN reservations :
             reservations'[r] \o IdsOf(available') = IdsOf(available)
    ]_registryVars

(* A reservation takes no more coins than a transaction may have, enough of
   them to pay for a budget, and none that it could have left in the pool
   (reserve_gas_coins.lua:39-60). *)
ReservationsAreFrugal ==
  [][ \A r \in DOMAIN reservations' \ DOMAIN reservations :
        LET n == Len(reservations'[r])
            paid == PrefixBalance(available)
        IN  /\ n \in 1 .. MaxCoinsPerQuery
            /\ \E b \in Budgets : paid[n] >= b /\ paid[n - 1] < b
    ]_registryVars

(* A reservation that was executed or has expired is over: until the registry
   is cleaned up its id is never live again, so its coins are given to the
   payer or to the unlock task, never to both or twice
   (ready_for_execution.lua:11-20, expire_coins.lua:17-26). *)
ReservationsEndOnce ==
  [][ \A r \in 1 .. nextReservationId :
        r \notin DOMAIN reservations => r \notin DOMAIN reservations'
    ]_registryVars
=============================================================================
