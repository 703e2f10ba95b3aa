--------------------------- MODULE CoinRegistry ---------------------------
(***************************************************************************)
(* The coin registry: the keys that the Redis scripts of                   *)
(* src/src/storage/redis/lua_scripts keep for one sponsor address and the  *)
(* scripts themselves.  Redis runs a script atomically, so a script is one *)
(* action.  A script that raises an error keeps the writes it made before  *)
(* the error.                                                              *)
(*                                                                         *)
(* A coin of the list is the record the script parses out of the string    *)
(* "balance,object_id,version,digest"; the digest is determined by the     *)
(* version and is left out.  The numeric width of the keys is not modelled *)
(* (Redis and Lua hold balances in 64-bit integers and doubles).           *)
(***************************************************************************)
EXTENDS Integers, Sequences, FiniteSets, SequencesExt

CONSTANTS
  CoinIds,            \* object ids of the sponsor's gas coins
  MaxCoinsPerQuery,   \* MAX_GAS_PER_QUERY: coins one reservation may take
  LockDuration,       \* how long a lock is held before it expires
  Absent              \* what GET returns for a key that does not exist

ASSUME ConstantsAssumption ==
  /\ MaxCoinsPerQuery \in Nat \ {0}
  /\ LockDuration \in Nat \ {0}
  /\ Absent \notin Int

VARIABLES
  now,                \* the clock of the gas stations, one unit for s and ms
  available,          \* available_gas_coins, the list of pooled coins
  availableCount,     \* available_coin_count
  availableTotal,     \* available_coin_total_balance
  nextReservationId,  \* next_reservation_id, 0 when the key is missing
  reservations,       \* <ns>:<id> -> object ids of the reservation
  expirationQueue,    \* expiration_queue: id -> expiration time
  initialized,        \* whether the key initialized exists
  schemaVersion,      \* schema_version
  initLock,           \* init_lock: expiration time, 0 when missing or released
  maintenanceLock     \* maintenance_lock, as initLock

poolVars == <<available, availableCount, availableTotal>>
reservationVars == <<nextReservationId, reservations, expirationQueue>>
lockVars == <<initLock, maintenanceLock>>
registryVars ==
  <<now, poolVars, reservationVars, initialized, schemaVersion, lockVars>>

Coin == [id : CoinIds, balance : Nat, version : Nat]

(* Sum of the balances of the first n coins of s, for every n <= Len(s). *)
PrefixBalance(s) ==
  LET f[n \in 0 .. Len(s)] == IF n = 0 THEN 0 ELSE f[n - 1] + s[n].balance
  IN  f

BalanceOf(s) == PrefixBalance(s)[Len(s)]

IdsOf(s) == [i \in DOMAIN s |-> s[i].id]

-----------------------------------------------------------------------------
RegistryInit ==
  /\ now = 1
  /\ available = << >>
  /\ availableCount = Absent
  /\ availableTotal = Absent
  /\ nextReservationId = 0
  /\ reservations = << >>
  /\ expirationQueue = << >>
  /\ initialized = FALSE
  /\ schemaVersion = Absent
  /\ initLock = 0
  /\ maintenanceLock = 0

(* A lock, and with it maintenance mode, is active until its time is past. *)
Active(lock) == lock >= now

(* Mutated forms, here and below: named for the slip they stand for, never
   used by the specification itself. *)
PoppedCoinsStopsLate(budget) ==
  LET paid == PrefixBalance(available)
      Stops(n) == paid[n] > budget \/ n = Len(available)
  IN  CHOOSE n \in 0 .. Len(available) :
        Stops(n) /\ \A m \in 0 .. n - 1 : ~Stops(m)

(***************************************************************************)
(* reserve_gas_coins.lua.  The loop pops coins until the target is reached *)
(* or MaxCoinsPerQuery coins are out or the list is empty.                 *)
(***************************************************************************)
PoppedCoins(budget) ==
  LET paid == PrefixBalance(available)
      Stops(n) == \/ paid[n] >= budget
                  \/ n = MaxCoinsPerQuery
                  \/ n = Len(available)
  IN  CHOOSE n \in 0 .. Len(available) :
        Stops(n) /\ \A m \in 0 .. n - 1 : ~Stops(m)

EnoughCoins(budget) ==
  PrefixBalance(available)[PoppedCoins(budget)] >= budget

NewReservationIdReused == Cardinality(DOMAIN reservations) + 1

(* The id the script's INCR yields. *)
NewReservationId == nextReservationId + 1

ReserveRefusedReverses(budget) ==
  /\ ~EnoughCoins(budget)
  /\ available' = Reverse(available)
  /\ UNCHANGED <<now, availableCount, availableTotal, reservationVars,
                 initialized, schemaVersion, lockVars>>

(* The script answers -1 in maintenance mode, and 0 after it has pushed the
   popped coins back in their order: neither changes a key. *)
ReserveRefused(budget) ==
  /\ Active(maintenanceLock) \/ ~EnoughCoins(budget)
  /\ UNCHANGED registryVars

ReserveGranted(budget, duration) ==
  LET n == PoppedCoins(budget)
      taken == SubSeq(available, 1, n)
      r == NewReservationId
  IN  /\ ~Active(maintenanceLock)
      /\ EnoughCoins(budget)
      /\ availableTotal # Absent
      /\ available' = SubSeq(available, n + 1, Len(available))
      /\ availableTotal' = availableTotal - BalanceOf(taken)
      /\ availableCount' = availableCount - n
      /\ nextReservationId' = r
      /\ reservations' = [x \in DOMAIN reservations \cup {r} |->
                            IF x = r THEN IdsOf(taken) ELSE reservations[x]]
      /\ expirationQueue' = [x \in DOMAIN expirationQueue \cup {r} |->
                               IF x = r THEN now + duration
                                        ELSE expirationQueue[x]]
      /\ UNCHANGED <<now, initialized, schemaVersion, lockVars>>

ReserveFailedDecrBy(budget) ==
  LET n == PoppedCoins(budget)
  IN  /\ ~Active(maintenanceLock)
      /\ EnoughCoins(budget)
      /\ availableTotal = Absent
      /\ available' = SubSeq(available, n + 1, Len(available))
      /\ availableTotal' = 0 - PrefixBalance(available)[n]
      /\ UNCHANGED <<now, availableCount, reservationVars, initialized,
                     schemaVersion, lockVars>>

(* Without the total the subtraction fails after the coins were popped. *)
ReserveFailed(budget) ==
  /\ ~Active(maintenanceLock)
  /\ EnoughCoins(budget)
  /\ availableTotal = Absent
  /\ available' =
       SubSeq(available, PoppedCoins(budget) + 1, Len(available))
  /\ UNCHANGED <<now, availableCount, availableTotal, reservationVars,
                 initialized, schemaVersion, lockVars>>

-----------------------------------------------------------------------------
PushCoinsForgetsFlag(coins) ==
  /\ available' = available \o coins
  /\ initialized' = (initialized \/ Len(coins) > 1)
  /\ schemaVersion' = schemaVersion
  /\ UNCHANGED <<now, reservationVars, lockVars>>

(* add_new_coins.lua: the pushes and the flags come before the statistics,
   and stay when the addition to a missing total raises an error. *)
PushCoins(coins) ==
  /\ available' = available \o coins
  /\ initialized' = (initialized \/ coins # << >>)
  /\ schemaVersion' =
       IF coins # << >> /\ schemaVersion = Absent THEN 1 ELSE schemaVersion
  /\ UNCHANGED <<now, reservationVars, lockVars>>

AddNewCoins(coins) ==
  /\ availableTotal # Absent
  /\ PushCoins(coins)
  /\ availableTotal' = availableTotal + BalanceOf(coins)
  /\ availableCount' = availableCount + Len(coins)

AddNewCoinsFailed(coins) ==
  /\ availableTotal = Absent
  /\ PushCoins(coins)
  /\ UNCHANGED <<availableTotal, availableCount>>

-----------------------------------------------------------------------------
ReadyForExecutionKeepsKey(r) ==
  r \in DOMAIN reservations /\ UNCHANGED registryVars

(* ready_for_execution.lua: the id stays in the expiration queue. *)
ReadyForExecution(r) ==
  /\ r \in DOMAIN reservations
  /\ reservations' = Restrict(reservations, DOMAIN reservations \ {r})
  /\ UNCHANGED <<now, poolVars, nextReservationId, expirationQueue,
                 initialized, schemaVersion, lockVars>>

(* The script raises "Reservation no longer exist" before any write. *)
ReadyRefused(r) ==
  /\ r \notin DOMAIN reservations
  /\ UNCHANGED registryVars

(* expire_coins.lua.  Its result is the coins of ExpiredReservations. *)
DueReservationsInSeconds ==
  {r \in DOMAIN expirationQueue : 1000 * expirationQueue[r] <= now}

DueReservations ==
  {r \in DOMAIN expirationQueue : expirationQueue[r] <= now}

ExpiredReservations == DueReservations \cap DOMAIN reservations

ExpireCoinsEarly ==
  /\ reservations' =
       Restrict(reservations, DOMAIN reservations \ DueReservations)
  /\ expirationQueue' = << >>
  /\ UNCHANGED <<now, poolVars, nextReservationId, initialized,
                 schemaVersion, lockVars>>

ExpireCoinsKeepsKeys ==
  /\ expirationQueue' =
       Restrict(expirationQueue, DOMAIN expirationQueue \ DueReservations)
  /\ UNCHANGED <<now, poolVars, nextReservationId, reservations, initialized,
                 schemaVersion, lockVars>>

ExpireCoins ==
  /\ reservations' =
       Restrict(reservations, DOMAIN reservations \ DueReservations)
  /\ expirationQueue' =
       Restrict(expirationQueue, DOMAIN expirationQueue \ DueReservations)
  /\ UNCHANGED <<now, poolVars, nextReservationId, initialized,
                 schemaVersion, lockVars>>

-----------------------------------------------------------------------------
InitCoinStatsFromZero ==
  /\ availableCount' = IF availableCount = Absent THEN 0 ELSE availableCount
  /\ availableTotal' = IF availableTotal = Absent THEN 0 ELSE availableTotal
  /\ UNCHANGED <<now, available, reservationVars, initialized, schemaVersion,
                 lockVars>>

(* init_coin_stats_at_startup.lua, run by every gas station that starts. *)
InitCoinStats ==
  /\ availableCount' =
       IF availableCount = Absent THEN Len(available) ELSE availableCount
  /\ availableTotal' =
       IF availableTotal = Absent THEN BalanceOf(available)
                                  ELSE availableTotal
  /\ schemaVersion' = IF schemaVersion = Absent THEN 1 ELSE schemaVersion
  /\ UNCHANGED <<now, available, reservationVars, initialized, lockVars>>

(* clean_up_coin_registry.lua: every key of the namespace but the locks. *)
CleanUpCoinRegistry ==
  /\ available' = << >>
  /\ availableCount' = Absent
  /\ availableTotal' = Absent
  /\ nextReservationId' = 0
  /\ reservations' = << >>
  /\ expirationQueue' = << >>
  /\ initialized' = FALSE
  /\ schemaVersion' = Absent
  /\ UNCHANGED <<now, lockVars>>

-----------------------------------------------------------------------------
(* The lock scripts.  A lock names no owner; releasing sets it to 0. *)
Acquired(lock, next) == ~Active(lock) /\ next = now + LockDuration

AcquireInitLock ==
  /\ Acquired(initLock, initLock')
  /\ UNCHANGED <<now, poolVars, reservationVars, initialized, schemaVersion,
                 maintenanceLock>>

ReleaseInitLock ==
  /\ initLock' = 0
  /\ UNCHANGED <<now, poolVars, reservationVars, initialized, schemaVersion,
                 maintenanceLock>>

AcquireMaintenanceLock ==
  /\ Acquired(maintenanceLock, maintenanceLock')
  /\ UNCHANGED <<now, poolVars, reservationVars, initialized, schemaVersion,
                 initLock>>

ReleaseMaintenanceLock ==
  /\ maintenanceLock' = 0
  /\ UNCHANGED <<now, poolVars, reservationVars, initialized, schemaVersion,
                 initLock>>

(* Time passes between the scripts. *)
Tick ==
  /\ now' = now + 1
  /\ UNCHANGED <<poolVars, reservationVars, initialized, schemaVersion,
                 lockVars>>
=============================================================================
