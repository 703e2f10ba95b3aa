---------------------------- MODULE GasStation ----------------------------
(***************************************************************************)
(* The gas stations of one sponsor (gas_station_core.rs): requests that    *)
(* reserve coins, tasks that execute a sponsored transaction and give its  *)
(* coins back, and one coin unlock task per gas station.  They share the   *)
(* coin registry, and everything they know of a coin's state they read     *)
(* from a fullnode that may lag behind the ledger.                         *)
(*                                                                         *)
(* Every await of the code is a boundary between two actions.  The daily   *)
(* usage cap is module GasUsageCap; here a reservation may fail any time,  *)
(* which changes nothing.                                                  *)
(***************************************************************************)
EXTENDS CoinRegistry

CONSTANTS
  Stations,           \* running gas station processes
  Tasks,              \* tokio tasks of execute_tx requests
  StationOf,          \* the process of a task
  InitialBalance,     \* target_init_balance: the coins start with it
  OversizeThreshold,  \* NEW_COIN_BALANCE_FACTOR_THRESHOLD times that target
  RescanBuffer,       \* RESCAN_TRIGGER_CHANNEL_BUFFER_SIZE
  U64,                \* 2^64, the modulus of `as u64`
  Budgets,            \* gas_budget of the requests
  Durations,          \* reserve_duration of the requests
  MaxGasBudget,       \* max_gas_budget
  MaxDuration,        \* RESERVE_GAS_MAX_DURATION_S
  HealthBudget,       \* the NANOS_PER_IOTA / 10 that a health check reserves
  HealthDuration,     \* and the 3 seconds it does so for
  NetGas,             \* net gas usage of a transaction, negative for a rebate
  FullnodeLags,       \* the fullnode may show an earlier state of the ledger
  ResponsesGetLost,   \* a transaction may commit although the station sees Err
  MaxReservations,    \* bound: reservations given out
  MaxTime,            \* bound: the clock
  MaxPool,            \* bound: the list, grown by additions that fail
  MaxCrashes,         \* bound: crashes of gas stations
  MaxLostReplies      \* bound: replies of Redis lost after the script ran

ASSUME GasStationAssumption ==
  /\ IsFiniteSet(CoinIds)
  /\ StationOf \in [Tasks -> Stations]
  /\ InitialBalance \in Nat
  /\ OversizeThreshold \in Nat
  /\ InitialBalance <= OversizeThreshold
  /\ RescanBuffer \in Nat \ {0}
  /\ U64 \in Nat \ {0}
  /\ Budgets \cup Durations \subseteq Nat
  /\ {MaxGasBudget, MaxDuration, HealthBudget, HealthDuration} \subseteq Nat \ {0}
  /\ NetGas \subseteq Int
  /\ MaxReservations \in Nat
  /\ {FullnodeLags, ResponsesGetLost} \subseteq BOOLEAN

VARIABLES
  ledger,       \* the live gas coin objects: a set of Coin, one per id
  fullnode,     \* the ledger as the fullnode shows it
  lagged,       \* history: the fullnode has shown an earlier state of it
  sent,         \* payments of the transactions that may yet commit unanswered
  late,         \* history: the commits that came when nobody was to look again
  granted,      \* what clients were given: reservation ids and object refs
  task,         \* what each execute task is doing
  unlocker,     \* what the coin unlock task of each process is doing
  rescanQueue,  \* messages in the rescan trigger channel of each process
  up,           \* the processes that run
  crashes,      \* crashes so far
  lostReplies   \* replies of Redis lost so far

chainVars == <<ledger, fullnode, lagged, sent, late>>
faultVars == <<up, crashes, lostReplies>>
processVars == <<task, unlocker, rescanQueue, faultVars>>
vars == <<registryVars, chainVars, granted, processVars>>

ObjectRef == [id : CoinIds, version : Nat]
RefOf(c) == [id |-> c.id, version |-> c.version]

TotalBalance(S) == MapThenSumSet(LAMBDA c : c.balance, S)

(* What the fullnode shows of these coins; an object that no longer exists
   there is left out. *)
TryGetIotaCoinBalance(id) == {c \in fullnode : c.id = id}

LatestGasObjects(ids) == UNION {TryGetIotaCoinBalance(id) : id \in ids}

(* The connection to Redis breaks after a script ran and before its reply is
   here: the caller gets an error for a script that has taken effect. *)
ReplyArrives == UNCHANGED lostReplies
ReplyIsLost ==
  /\ lostReplies < MaxLostReplies
  /\ lostReplies' = lostReplies + 1

IdleTask == [pc |-> "idle", payment |-> << >>, before |-> 0, updated |-> << >>]
IdleUnlocker == [pc |-> "idle", batch |-> {}, updated |-> << >>]

Oversized(c) == c.balance > OversizeThreshold

-----------------------------------------------------------------------------
(* The pool after the first start: every coin is in it. *)
Init ==
  \E order \in SetToSeqs(CoinIds) :
    LET coins == [i \in DOMAIN order |->
                    [id |-> order[i], balance |-> InitialBalance,
                     version |-> 1]]
    IN  /\ now = 1
        /\ available = coins
        /\ availableCount = Len(coins)
        /\ availableTotal = BalanceOf(coins)
        /\ nextReservationId = 0
        /\ reservations = << >>
        /\ expirationQueue = << >>
        /\ initialized = TRUE
        /\ schemaVersion = 1
        /\ initLock = 0
        /\ maintenanceLock = 0
        /\ ledger = ToSet(coins)
        /\ fullnode = ledger
        /\ lagged = FALSE
        /\ sent = {}
        /\ late = {}
        /\ granted = {}
        /\ task = [t \in Tasks |-> IdleTask]
        /\ unlocker = [s \in Stations |-> IdleUnlocker]
        /\ rescanQueue = [s \in Stations |-> 0]
        /\ up = Stations
        /\ crashes = 0
        /\ lostReplies = 0

-----------------------------------------------------------------------------
(* check_reserve_gas_request_validity, before the pool is asked. *)
ValidRequest(budget, duration) ==
  budget \in 1 .. MaxGasBudget /\ duration \in 1 .. MaxDuration

Reserve(budget, duration) ==
  /\ up # {}
  /\ nextReservationId < MaxReservations
  /\ now + duration <= MaxTime
  /\ ReserveGranted(budget, duration)
  /\ UNCHANGED <<chainVars, processVars>>

(* reserve_gas: the script, and the object refs handed to the client.  The
   process keeps no state of its own about the reservation. *)
ReserveGas(budget, duration) ==
  /\ ValidRequest(budget, duration)
  /\ Reserve(budget, duration)
  /\ granted' = granted \cup
       {[reservation |-> NewReservationId,
         coins |-> [i \in 1 .. PoppedCoins(budget) |-> RefOf(available[i])]]}

(* debug_check_health signs with coins that it leaves to expire; nobody is
   told of them, and no limit of the requests holds for it. *)
DebugCheckHealth ==
  Reserve(HealthBudget, HealthDuration) /\ UNCHANGED granted

(* execute_transaction up to ready_for_execution.  A client may call it late
   or twice: the script then refuses, and nothing changes.  An error of the
   call ends the request.  The code compares the payment of the transaction
   with nothing: that a client pays with what it was granted is an assumption
   of this module. *)
StartExecution(t, grant) ==
  /\ StationOf[t] \in up
  /\ task[t].pc = "idle"
  /\ grant \in granted
  /\ ReadyForExecution(grant.reservation)
  /\ \/ /\ ReplyArrives
        /\ task' = [task EXCEPT ![t].pc = "query", ![t].payment = grant.coins]
     \/ ReplyIsLost /\ UNCHANGED task
  /\ UNCHANGED <<chainVars, granted, unlocker, rescanQueue, up, crashes>>

(* Mutated forms, here and below: named for the slip they stand for, never
   used by the specification itself. *)
PaymentIdsFirst(t) ==
  {task[t].payment[i].id : i \in DOMAIN task[t].payment \cap {1}}

PaymentIds(t) == {task[t].payment[i].id : i \in DOMAIN task[t].payment}

(* get_total_gas_coin_balance. *)
QueryTotalBalance(t) ==
  /\ StationOf[t] \in up
  /\ task[t].pc = "query"
  /\ task' = [task EXCEPT
       ![t].pc = "execute",
       ![t].before = TotalBalance(LatestGasObjects(PaymentIds(t)))]
  /\ UNCHANGED <<registryVars, chainVars, granted, unlocker, rescanQueue,
                 faultVars>>

(* The ledger executes a transaction whose payment names live versions: the
   first coin receives what is left of all of them, the others are gone. *)
PaidCoins(payment) ==
  {c \in ledger : \E i \in DOMAIN payment : payment[i] = RefOf(c)}

Executable(payment, gas) ==
  /\ Cardinality(PaidCoins(payment)) = Len(payment)
  /\ TotalBalance(PaidCoins(payment)) >= gas

GasCoin(payment, gas) ==
  [id |-> payment[1].id,
   balance |-> TotalBalance(PaidCoins(payment)) - gas,
   version |-> 1 + Max({c.version : c \in PaidCoins(payment)})]

(* The fullnode shows a change at once, or later. *)
FullnodeFollows ==
  /\ \/ fullnode' = ledger'
     \/ FullnodeLags /\ UNCHANGED fullnode
  /\ lagged' = (lagged \/ fullnode' # ledger')

Commit(payment, gas) ==
  /\ Executable(payment, gas)
  /\ ledger' = (ledger \ PaidCoins(payment)) \cup {GasCoin(payment, gas)}
  /\ FullnodeFollows

(* The new balance is derived from the balance read before the execution,
   without reading the coin again. *)
UpdatedCoinUncharged(t, gas) ==
  [GasCoin(task[t].payment, gas) EXCEPT !.balance = task[t].before % U64]

UpdatedCoin(t, gas) ==
  [GasCoin(task[t].payment, gas) EXCEPT
     !.balance = (task[t].before - gas) % U64]

(* execute_transaction_impl returns the effects of the transaction. *)
ExecuteOk(t) ==
  /\ StationOf[t] \in up
  /\ task[t].pc = "execute"
  /\ \E gas \in NetGas :
       /\ Commit(task[t].payment, gas)
       /\ task' = [task EXCEPT
            ![t].pc = "release",
            ![t].updated = <<UpdatedCoin(t, gas)>>]
  /\ UNCHANGED <<registryVars, sent, late, granted, unlocker, rescanQueue,
                 faultVars>>

ExecuteErrReturns(t) ==
  /\ StationOf[t] \in up
  /\ task[t].pc = "execute"
  /\ task' = [task EXCEPT ![t] = IdleTask]
  /\ UNCHANGED <<registryVars, chainVars, granted, unlocker, rescanQueue,
                 faultVars>>

(* It returns Err after its attempts: signing failed, the transaction was
   rejected, or every response was lost.  In the last case nobody knows
   whether it is still on its way. *)
ExecuteErr(t) ==
  /\ StationOf[t] \in up
  /\ task[t].pc = "execute"
  /\ task' = [task EXCEPT ![t].pc = "latest"]
  /\ \/ UNCHANGED sent
     \/ ResponsesGetLost /\ sent' = sent \cup {task[t].payment}
  /\ UNCHANGED <<registryVars, ledger, fullnode, lagged, late, granted,
                 unlocker, rescanQueue, faultVars>>

(* A task holds these coins and has not asked for their latest state since
   its last transaction. *)
WillLook(payment) ==
  \E t \in Tasks : task[t].payment = payment /\ task[t].pc # "release"

(* The transaction is committed after its station has given up, before or
   after the latest state of its coins was read, before or after they were
   given back: the list, reservations and tasks go on with versions that are
   spent. *)
LateCommit(payment, gas) ==
  /\ Commit(payment, gas)
  /\ sent' = sent \ {payment}
  /\ late' = IF WillLook(payment) THEN late
             ELSE late \cup {[paid |-> ToSet(payment),
                              left |-> GasCoin(payment, gas)]}
  /\ UNCHANGED <<registryVars, granted, processVars>>

(* get_latest_gas_objects after the failure; a HashMap gives any order. *)
QueryLatest(t) ==
  /\ StationOf[t] \in up
  /\ task[t].pc = "latest"
  /\ \E coins \in SetToSeqs(LatestGasObjects(PaymentIds(t))) :
       task' = [task EXCEPT ![t].pc = "release", ![t].updated = coins]
  /\ UNCHANGED <<registryVars, chainVars, granted, unlocker, rescanQueue,
                 faultVars>>

TriggerRescanUnbounded(t) ==
  /\ StationOf[t] \in up
  /\ task[t].pc = "release"
  /\ \E i \in DOMAIN task[t].updated : Oversized(task[t].updated[i])
  /\ rescanQueue' = [rescanQueue EXCEPT ![StationOf[t]] = @ + 1]
  /\ task' = [task EXCEPT ![t] = IdleTask]
  /\ UNCHANGED <<registryVars, chainVars, granted, unlocker, faultVars>>

TriggerRescanForgotten(t) ==
  /\ StationOf[t] \in up
  /\ task[t].pc = "release"
  /\ \E i \in DOMAIN task[t].updated : Oversized(task[t].updated[i])
  /\ task' = [task EXCEPT ![t] = IdleTask]
  /\ UNCHANGED <<registryVars, chainVars, granted, unlocker, rescanQueue,
                 faultVars>>

(* An oversized coin: the rescan is asked for, unless its channel is full,
   and none of the coins is released. *)
TriggerRescan(t) ==
  /\ StationOf[t] \in up
  /\ task[t].pc = "release"
  /\ \E i \in DOMAIN task[t].updated : Oversized(task[t].updated[i])
  /\ rescanQueue' = [rescanQueue EXCEPT ![StationOf[t]] =
                       IF @ < RescanBuffer THEN @ + 1 ELSE @]
  /\ task' = [task EXCEPT ![t] = IdleTask]
  /\ UNCHANGED <<registryVars, chainVars, granted, unlocker, faultVars>>

(* release_gas_coins, which retries until the script succeeds. *)
ReleaseCoins(t) ==
  /\ StationOf[t] \in up
  /\ task[t].pc = "release"
  /\ \A i \in DOMAIN task[t].updated : ~Oversized(task[t].updated[i])
  /\ \/ /\ AddNewCoins(task[t].updated)
        /\ ReplyArrives
        /\ task' = [task EXCEPT ![t] = IdleTask]
     \/ /\ AddNewCoins(task[t].updated)
        /\ ReplyIsLost
        /\ UNCHANGED task
     \/ /\ Len(available) < MaxPool
        /\ AddNewCoinsFailed(task[t].updated)
        /\ ReplyArrives
        /\ UNCHANGED task
  /\ UNCHANGED <<chainVars, granted, unlocker, rescanQueue, up, crashes>>

-----------------------------------------------------------------------------
(* start_coin_unlock_task: expire, read the latest state, release.  An error
   of the script counts as nothing expired. *)
UnlockExpire(s) ==
  /\ s \in up
  /\ unlocker[s].pc = "idle"
  /\ ExpireCoins
  /\ LET ids == UNION {ToSet(reservations[r]) : r \in ExpiredReservations}
     IN  \/ /\ ReplyArrives
            /\ unlocker' =
                 IF ids = {} THEN unlocker
                 ELSE [unlocker EXCEPT ![s].pc = "latest", ![s].batch = ids]
         \/ ReplyIsLost /\ UNCHANGED unlocker
  /\ UNCHANGED <<chainVars, granted, task, rescanQueue, up, crashes>>

UnlockQuery(s) ==
  /\ s \in up
  /\ unlocker[s].pc = "latest"
  /\ \E coins \in SetToSeqs(LatestGasObjects(unlocker[s].batch)) :
       unlocker' = [unlocker EXCEPT ![s].pc = "release", ![s].updated = coins]
  /\ UNCHANGED <<registryVars, chainVars, granted, task, rescanQueue,
                 faultVars>>

UnlockRelease(s) ==
  /\ s \in up
  /\ unlocker[s].pc = "release"
  /\ \/ /\ AddNewCoins(unlocker[s].updated)
        /\ ReplyArrives
        /\ unlocker' = [unlocker EXCEPT ![s] = IdleUnlocker]
     \/ /\ AddNewCoins(unlocker[s].updated)
        /\ ReplyIsLost
        /\ UNCHANGED unlocker
     \/ /\ Len(available) < MaxPool
        /\ AddNewCoinsFailed(unlocker[s].updated)
        /\ ReplyArrives
        /\ UNCHANGED unlocker
  /\ UNCHANGED <<chainVars, granted, task, rescanQueue, up, crashes>>

-----------------------------------------------------------------------------
(* The fullnode catches up with the ledger. *)
FullnodeSyncs ==
  /\ fullnode # ledger
  /\ fullnode' = ledger
  /\ UNCHANGED <<registryVars, ledger, lagged, sent, late, granted,
                 processVars>>

(* A process stops anywhere: its tasks and its channel are gone, the registry
   stays, and what it was executing may still commit.  A start runs
   init_coin_stats_at_startup (connect_storage). *)
Executing(s) ==
  {task[t].payment : t \in {u \in Tasks : StationOf[u] = s /\ task[u].pc = "execute"}}

Crash(s) ==
  /\ s \in up
  /\ crashes < MaxCrashes
  /\ crashes' = crashes + 1
  /\ up' = up \ {s}
  /\ task' = [t \in Tasks |-> IF StationOf[t] = s THEN IdleTask ELSE task[t]]
  /\ unlocker' = [unlocker EXCEPT ![s] = IdleUnlocker]
  /\ rescanQueue' = [rescanQueue EXCEPT ![s] = 0]
  /\ \/ UNCHANGED sent
     \/ ResponsesGetLost /\ sent' = sent \cup Executing(s)
  /\ UNCHANGED <<registryVars, ledger, fullnode, lagged, late, granted,
                 lostReplies>>

Restart(s) ==
  /\ s \notin up
  /\ InitCoinStats
  /\ up' = up \cup {s}
  /\ UNCHANGED <<chainVars, granted, task, unlocker, rescanQueue, crashes,
                 lostReplies>>

TimePasses ==
  /\ now < MaxTime
  /\ Tick
  /\ UNCHANGED <<chainVars, granted, processVars>>

-----------------------------------------------------------------------------
TaskStep(t) ==
  \/ QueryTotalBalance(t)
  \/ ExecuteOk(t)
  \/ ExecuteErr(t)
  \/ QueryLatest(t)
  \/ TriggerRescan(t)
  \/ ReleaseCoins(t)

UnlockStep(s) == UnlockExpire(s) \/ UnlockQuery(s) \/ UnlockRelease(s)

Next ==
  \/ \E b \in Budgets, d \in Durations : ReserveGas(b, d)
  \/ DebugCheckHealth
  \/ \E t \in Tasks, grant \in granted : StartExecution(t, grant)
  \/ \E t \in Tasks : TaskStep(t)
  \/ \E s \in Stations : UnlockStep(s) \/ Crash(s) \/ Restart(s)
  \/ \E payment \in sent, gas \in NetGas : LateCommit(payment, gas)
  \/ FullnodeSyncs
  \/ TimePasses

Spec == Init /\ [][Next]_vars

(* Tasks and unlock tasks are tokio tasks whose awaits return (the calls to
   the fullnode and the storage are retried for ever), time passes, a fullnode
   catches up, and a stopped process is started again.  A reply may be lost,
   but that is never owed, nor is a late commit.  Clients owe nothing: ReserveGas, StartExecution and
   DebugCheckHealth have no fairness. *)
Fairness ==
  /\ \A t \in Tasks : WF_vars(TaskStep(t) /\ ReplyArrives)
  /\ \A s \in Stations : WF_vars(UnlockStep(s) /\ ReplyArrives) /\ WF_vars(Restart(s))
  /\ WF_vars(FullnodeSyncs)
  /\ WF_vars(TimePasses)

FairSpec == Spec /\ Fairness
-----------------------------------------------------------------------------
TaskPCs == {"idle", "query", "execute", "latest", "release"}
UnlockerPCs == {"idle", "latest", "release"}

TypeOK ==
  /\ available \in Seq(Coin)
  /\ \A r \in DOMAIN reservations : reservations[r] \in Seq(CoinIds)
  /\ ledger \subseteq Coin
  /\ fullnode \subseteq Coin
  /\ sent \subseteq Seq(ObjectRef)
  /\ late \subseteq [paid : SUBSET ObjectRef, left : Coin]
  /\ granted \subseteq [reservation : Nat, coins : Seq(ObjectRef)]
  /\ task \in [Tasks -> [pc : TaskPCs, payment : Seq(ObjectRef),
                         before : Nat, updated : Seq(Coin)]]
  /\ unlocker \in [Stations -> [pc : UnlockerPCs, batch : SUBSET CoinIds,
                                updated : Seq(Coin)]]
  /\ rescanQueue \in [Stations -> 0 .. RescanBuffer]
  /\ up \subseteq Stations
  /\ crashes \in Nat
  /\ lostReplies \in Nat

(* Who may hold a coin, and the coins each one holds. *)
Holders ==
  {<<"pool">>}
    \cup {<<"reservation", r>> : r \in DOMAIN reservations}
    \cup {<<"task", t>> : t \in Tasks}
    \cup {<<"unlocker", s>> : s \in Stations}

CoinsOf(h) ==
  CASE h[1] = "pool"        -> ToSet(IdsOf(available))
    [] h[1] = "reservation" -> ToSet(reservations[h[2]])
    [] h[1] = "task"        -> PaymentIds(h[2])
    [] h[1] = "unlocker"    -> unlocker[h[2]].batch

(* "It never returns the same coin to multiple callers" (storage/mod.rs:26):
   a coin is at any time in one place of the list, or of one reservation, or
   with one task or one unlock task.  Violating it takes a script, an
   interleaving or a retry that lets two of them give the coin back. *)
SingleCustody ==
  /\ IsInjective(IdsOf(available))
  /\ \A r \in DOMAIN reservations : IsInjective(reservations[r])
  /\ \A g, h \in Holders : g # h => CoinsOf(g) \cap CoinsOf(h) = {}

(* What the list says of a coin is what the ledger says: the next client gets
   a version it can spend, and the statistics count money that exists.  Two
   things break it, and nothing else: a fullnode that lags, as coins are put
   back as it shows them, and a transaction that is committed after its
   station has given up and read its coins, which spends a version that is
   then put back. *)
SpentLate == UNION {commit.paid : commit \in late}

PoolIsSpendable ==
  ~lagged => \A i \in DOMAIN available :
    available[i] \in ledger \/ RefOf(available[i]) \in SpentLate

(* "Otherwise, we lose track of them" (gas_station_core.rs:200-202): a live
   coin is held by someone, or it is oversized and a rescan has been asked
   for in a channel that still holds the request.  A crash does lose what the
   process had in its hands (see FullRescanRecoversAll of CoinInitializer).
   A task that finds an oversized coin next to a small one releases neither,
   and no refresh will find the small one.  Two things let it find such a
   pair: a fullnode that lags, and a late commit with a rebate, after which
   the list has a coin that is oversized by now. *)
RebatedLate == \E commit \in late : Oversized(commit.left)

NoCoinIsLost ==
  crashes = 0 /\ ~lagged /\ ~RebatedLate => \A c \in ledger :
    \/ \E h \in Holders : c.id \in CoinsOf(h)
    \/ Oversized(c) /\ \E s \in Stations : rescanQueue[s] > 0

(* A coin that is reserved or held by a task comes back to the list, unless
   its transaction spent it or left it oversized: no reservation and no
   execution keeps a coin, whether or not its client ever answers, as long as
   no process crashes, no reply of Redis is lost and no late commit makes a
   coin oversized (NoCoinIsLost). *)
CoinsComeBack ==
  \A id \in CoinIds :
    (id \notin CoinsOf(<<"pool">>)) ~>
      \/ id \in CoinsOf(<<"pool">>)
      \/ crashes + lostReplies > 0 \/ RebatedLate
      \/ \A c \in ledger : c.id = id => Oversized(c)

(* The same for reserved coins alone, which lie in Redis: some running gas
   station takes them out of a reservation, whatever crashes. *)
ReservationsEnd ==
  \A r \in 1 .. MaxReservations :
    (r \in DOMAIN reservations) ~> (r \notin DOMAIN reservations)

(* The gas stations implement the abstract pool: coins move between owners
   only in the ways CoinPool allows, each reservation ends whole and once, and
   a coin that was given up never reappears. *)
OwnerOf(id) ==
  IF \E h \in Holders : id \in CoinsOf(h)
  THEN CHOOSE h \in Holders : id \in CoinsOf(h)
  ELSE <<"nobody">>

Abstract == INSTANCE CoinPool WITH
  Coins <- CoinIds,
  Reservations <- {<<"reservation", r>> : r \in 1 .. MaxReservations},
  Agents <- {<<"task", t>> : t \in Tasks}
              \cup {<<"unlocker", s>> : s \in Stations},
  Pool <- <<"pool">>,
  Nobody <- <<"nobody">>,
  owner <- [id \in CoinIds |-> OwnerOf(id)]

ImplementsCoinPool == Abstract!Spec
=============================================================================
