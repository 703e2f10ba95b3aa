-------------------------- MODULE CoinInitializer --------------------------
(***************************************************************************)
(* The start of a gas station (command.rs) and its coin initializer        *)
(* (gas_station_initializer.rs): the first start splits the sponsor's      *)
(* coins into the pool, a full rescan rebuilds the registry under the      *)
(* maintenance lock, and a background task splits new or oversized coins   *)
(* when the rescan trigger or its ticker wakes it.  All of it runs against *)
(* the gas stations of module GasStation, which serve meanwhile.           *)
(***************************************************************************)
EXTENDS GasStation

CONSTANTS
  GasPerObject,     \* gas_cost_per_object: what a split may cost per piece
  SplitGas,         \* what it does cost: the calibration doubles the estimate
  MaxSplit,         \* the 2000 coins one transaction may create
  ChunkSize,        \* the 5000 coins one add_new_coins call adds
  InitialLedger,    \* the sponsor's coins before the first start
  DepositBalance,   \* balance of a coin somebody sends to the sponsor
  FullRescans,      \* a start may be one that rebuilds the registry
  IgnoreLocks,      \* --ignore-locks
  MaxStarts,        \* bound: starts of gas stations
  MaxDeposits       \* bound: deposits

INSTANCE CoinSplits WITH TargetInitBalance <- InitialBalance

(* run_once refuses to split when a coin that is kept could still count as new
   (TargetPaysForSplits), and with it a target of 0; here, for a threshold that
   is less than 200 times the target. *)
ASSUME InitializerAssumption ==
  /\ GasPerObject \in Nat
  /\ InitialBalance > 0
  /\ PieceCost * 2 < OversizeThreshold
  /\ SplitGas \subseteq 0 .. GasPerObject
  /\ MaxSplit \in Nat \ {0}
  /\ ChunkSize \in Nat \ {0}
  /\ InitialLedger \subseteq Coin
  /\ \A c, d \in InitialLedger : c.id = d.id => c = d
  /\ DepositBalance \in Nat
  /\ {FullRescans, IgnoreLocks} \subseteq BOOLEAN

VARIABLES
  initializer,  \* what the start or the background task of a station does
  created,      \* object ids that have existed
  starts,       \* starts so far
  deposits      \* deposits so far

initializerVars == <<initializer, created, starts, deposits>>
allVars == <<vars, initializerVars>>

(* One coin to split: the count and with it the gas budget are computed when
   its task begins and kept when the task tries again with a later version. *)
Work == [coin : Coin, count : Nat \ {0}]

RunMode == {"Init", "Refresh"}

Down == [pc |-> "down", mode |-> "Init", force |-> FALSE,
         work |-> {}, result |-> << >>]

InitializerInit ==
  /\ RegistryInit
  /\ ledger = InitialLedger
  /\ fullnode = ledger
  /\ lagged = FALSE
  /\ sent = {}
  /\ late = {}
  /\ granted = {}
  /\ task = [t \in Tasks |-> IdleTask]
  /\ unlocker = [s \in Stations |-> IdleUnlocker]
  /\ rescanQueue = [s \in Stations |-> 0]
  /\ up = {}
  /\ crashes = 0
  /\ lostReplies = 0
  /\ initializer = [s \in Stations |-> Down]
  /\ created = {c.id : c \in ledger}
  /\ starts = 0
  /\ deposits = 0

At(s, pc) == initializer[s].pc = pc
Moves(s, pc) == initializer' = [initializer EXCEPT ![s].pc = pc]

(* The variables a step that only runs a script leaves alone. *)
ScriptOnly ==
  UNCHANGED <<chainVars, granted, processVars, created, starts, deposits>>

-----------------------------------------------------------------------------
(* Mutated forms, here and below: named for the slip they stand for, never
   used by the specification itself. *)
StartServesAtOnce(s) ==
  /\ At(s, "down")
  /\ starts < MaxStarts
  /\ starts' = starts + 1
  /\ InitCoinStats
  /\ \E force \in {FALSE, FullRescans} :
       initializer' = [initializer EXCEPT
         ![s] = [Down EXCEPT !.pc = "boot", !.force = force]]
  /\ up' = up \cup {s}
  /\ UNCHANGED <<chainVars, granted, task, unlocker, rescanQueue, crashes,
                 lostReplies, created, deposits>>

(* The start.  connect_storage fills in missing statistics; requests are not
   served and coins are not unlocked before the initializer has returned. *)
Start(s) ==
  /\ At(s, "down")
  /\ starts < MaxStarts
  /\ starts' = starts + 1
  /\ InitCoinStats
  /\ \E force \in {FALSE, FullRescans} :
       initializer' = [initializer EXCEPT
         ![s] = [Down EXCEPT !.pc = "boot", !.force = force]]
  /\ UNCHANGED <<chainVars, granted, processVars, created, deposits>>

(* The background task runs from now on, and the server takes requests. *)
Serve(s) ==
  /\ initializer' = [initializer EXCEPT ![s] = [Down EXCEPT !.pc = "wait"]]
  /\ up' = up \cup {s}
  /\ UNCHANGED <<task, unlocker, rescanQueue, crashes, lostReplies>>

(* The process exits; it never served, so it holds nothing else. *)
Panic(s) ==
  /\ initializer' = [initializer EXCEPT ![s] = Down]
  /\ UNCHANGED processVars

CheckInitialized(s) ==
  /\ At(s, "boot")
  /\ ~initializer[s].force
  /\ IF initialized
     THEN Serve(s)
     ELSE Moves(s, "lock") /\ UNCHANGED processVars
  /\ UNCHANGED <<registryVars, chainVars, granted, created, starts, deposits>>

BeginMaintenance(s) ==
  /\ At(s, "boot")
  /\ initializer[s].force
  /\ \/ AcquireMaintenanceLock /\ Moves(s, "clean") /\ UNCHANGED processVars
     \/ /\ Active(maintenanceLock)
        /\ UNCHANGED registryVars
        /\ IF IgnoreLocks THEN Moves(s, "clean") /\ UNCHANGED processVars
                          ELSE Panic(s)
  /\ UNCHANGED <<chainVars, granted, created, starts, deposits>>

CleanUp(s) ==
  /\ At(s, "clean")
  /\ CleanUpCoinRegistry
  /\ Moves(s, "stats")
  /\ ScriptOnly

ResetStats(s) ==
  /\ At(s, "stats")
  /\ InitCoinStats
  /\ Moves(s, "lock")
  /\ ScriptOnly

-----------------------------------------------------------------------------
LockRefusedReleases(s) ==
  IF initializer[s].mode = "Refresh" THEN Moves(s, "wait") ELSE Moves(s, "unlock")

(* run_once: lock, scan, split, add, release.  A refused lock fails it: the
   first start panics, a full rescan still releases its maintenance lock
   before it does, a refresh is over. *)
LockRefused(s) ==
  IF initializer[s].mode = "Refresh" THEN Moves(s, "wait")
  ELSE IF initializer[s].force THEN Moves(s, "fail")
  ELSE initializer' = [initializer EXCEPT ![s] = Down]

AcquireLock(s) ==
  /\ At(s, "lock")
  /\ \/ AcquireInitLock /\ Moves(s, "scan")
     \/ /\ Active(initLock)
        /\ UNCHANGED registryVars
        /\ IF IgnoreLocks /\ initializer[s].mode = "Init"
           THEN Moves(s, "scan")
           ELSE LockRefused(s)
  /\ ScriptOnly

ThresholdZero(s) == 0
ThresholdAlways(s) == OversizeThreshold
ThresholdExclusive(s) ==
  IF initializer[s].mode = "Init" THEN 0 ELSE OversizeThreshold + 1

(* Init takes every coin, Refresh those of at least the threshold. *)
Threshold(s) ==
  IF initializer[s].mode = "Init" THEN 0 ELSE OversizeThreshold

(* The pieces a split of w yields when it costs gas per piece: their balances
   are computed, not read.  Fresh ids name the created objects. *)
Pieces(w, ids, gas) ==
  {[id |-> w.coin.id, version |-> w.coin.version + 1,
    balance |-> RestBalance(w.coin.balance, w.count, gas * w.count)]}
    \cup {[id |-> i, version |-> 1,
           balance |-> PieceBalance(w.coin.balance, w.count)] : i \in ids}

(* enqueue_task for some coins: the small ones are results, each of the others
   becomes a task.  The order of the results is immaterial. *)
Enqueue(s, coins) ==
  [initializer[s] EXCEPT
     !.result = @ \o SetToSeq({c \in coins : TooSmall(c.balance)}),
     !.work = @ \cup {[coin |-> c, count |-> SplitCount(c.balance)] :
                        c \in {d \in coins : ~TooSmall(d.balance)}}]

Scan(s) ==
  /\ At(s, "scan")
  /\ LET found == {c \in fullnode : c.balance >= Threshold(s)}
     IN  initializer' = [initializer EXCEPT
           ![s] = [Enqueue(s, found) EXCEPT
                     !.pc = IF found = {} THEN "unlock" ELSE "split"]]
  /\ ScriptOnly
  /\ UNCHANGED registryVars

FreshIds(n) ==
  CHOOSE S \in SUBSET (CoinIds \ created) : Cardinality(S) = n

CommitSplit(w, gas) ==
  /\ w.coin \in ledger
  /\ w.coin.balance >= Budget(w.count)
  /\ Cardinality(CoinIds \ created) >= w.count - 1
  /\ ledger' = (ledger \ {w.coin}) \cup Pieces(w, FreshIds(w.count - 1), gas)
  /\ FullnodeFollows
  /\ created' = created \cup FreshIds(w.count - 1)
  /\ UNCHANGED <<sent, late>>

SplitOk(s, w) ==
  \E gas \in SplitGas :
    /\ CommitSplit(w, gas)
    /\ LET rest == Enqueue(s, Pieces(w, FreshIds(w.count - 1), gas))
       IN  initializer' = [initializer EXCEPT
             ![s] = [rest EXCEPT !.work = @ \ {w}]]

(* After an Err the latest state of the coin is read and the same split is
   tried again; a coin that no longer exists makes the task panic, and with
   it the initializer.  A split that is committed only after the coin was read
   makes the next attempt fail, and is taken to commit with that attempt. *)
SplitErr(s, w) ==
  /\ \/ UNCHANGED <<chainVars, created>>
     \/ ResponsesGetLost /\ \E gas \in SplitGas : CommitSplit(w, gas)
  /\ LET latest == {c \in fullnode' : c.id = w.coin.id}
     IN  IF latest = {}
         THEN initializer' = [initializer EXCEPT
                ![s] = IF s \in up THEN [Down EXCEPT !.pc = "dead"] ELSE Down]
         ELSE initializer' = [initializer EXCEPT
                ![s].work = (@ \ {w}) \cup {[w EXCEPT !.coin = c] : c \in latest}]

Split(s) ==
  /\ At(s, "split")
  /\ \/ \E w \in initializer[s].work : SplitOk(s, w) \/ SplitErr(s, w)
     \/ /\ initializer[s].work = {}
        /\ Moves(s, "add")
        /\ UNCHANGED <<chainVars, created>>
  /\ UNCHANGED <<registryVars, granted, processVars, starts, deposits>>

AddChunkSkips(s) ==
  LET result == initializer[s].result
      n == IF Len(result) < ChunkSize THEN Len(result) ELSE ChunkSize
  IN  /\ At(s, "add")
      /\ \/ /\ result # << >>
            /\ AddNewCoins(SubSeq(result, 1, n))
            /\ initializer' = [initializer EXCEPT
                 ![s].result = SubSeq(@, n + 2, Len(@))]
         \/ /\ result = << >>
            /\ Moves(s, "unlock")
            /\ UNCHANGED registryVars
      /\ ScriptOnly

(* The pool grows chunk by chunk, while clients already take coins.  An error
   of the script is a panic that leaves the lock behind. *)
AddChunk(s) ==
  LET result == initializer[s].result
      n == IF Len(result) < ChunkSize THEN Len(result) ELSE ChunkSize
      chunk == SubSeq(result, 1, n)
  IN  /\ At(s, "add")
      /\ \/ /\ result # << >>
            /\ AddNewCoins(chunk)
            /\ initializer' = [initializer EXCEPT
                 ![s].result = SubSeq(@, n + 1, Len(@))]
         \/ /\ result # << >>
            /\ AddNewCoinsFailed(chunk)
            /\ initializer' = [initializer EXCEPT
                 ![s] = IF s \in up THEN [Down EXCEPT !.pc = "dead"] ELSE Down]
         \/ /\ result = << >>
            /\ Moves(s, "unlock")
            /\ UNCHANGED registryVars
      /\ ScriptOnly

ReleaseLock(s) ==
  /\ At(s, "unlock")
  /\ ReleaseInitLock
  /\ IF initializer[s].force
     THEN Moves(s, "end") /\ UNCHANGED processVars
     ELSE IF s \in up THEN Moves(s, "wait") /\ UNCHANGED processVars
     ELSE Serve(s)
  /\ UNCHANGED <<chainVars, granted, created, starts, deposits>>

EndMaintenance(s) ==
  /\ initializer[s].pc \in {"end", "fail"}
  /\ ReleaseMaintenanceLock
  /\ IF At(s, "end") THEN Serve(s) ELSE Panic(s)
  /\ UNCHANGED <<chainVars, granted, created, starts, deposits>>

-----------------------------------------------------------------------------
(* The background task: a message of the trigger, or the ticker. *)
Wake(s) ==
  /\ At(s, "wait")
  /\ initializer' = [initializer EXCEPT
       ![s] = [Down EXCEPT !.pc = "lock", !.mode = "Refresh"]]
  /\ UNCHANGED <<registryVars, chainVars, granted, task, unlocker, faultVars,
                 created, starts, deposits>>

WakeByTrigger(s) ==
  /\ rescanQueue[s] > 0
  /\ rescanQueue' = [rescanQueue EXCEPT ![s] = @ - 1]
  /\ Wake(s)

WakeByTicker(s) == UNCHANGED rescanQueue /\ Wake(s)

(* A crash at any point of the start or of the service. *)
CrashAnywhere(s) ==
  /\ ~At(s, "down")
  /\ IF s \in up
     THEN Crash(s)
     ELSE /\ crashes < MaxCrashes
          /\ crashes' = crashes + 1
          /\ UNCHANGED <<registryVars, chainVars, granted, task, unlocker,
                         rescanQueue, up, lostReplies>>
  /\ initializer' = [initializer EXCEPT ![s] = Down]
  /\ UNCHANGED <<created, starts, deposits>>

(* Somebody sends the sponsor a coin. *)
Deposit ==
  /\ deposits < MaxDeposits
  /\ CoinIds \ created # {}
  /\ LET coin == [id |-> CHOOSE i \in CoinIds \ created : TRUE,
                  balance |-> DepositBalance, version |-> 1]
     IN  /\ ledger' = ledger \cup {coin}
         /\ FullnodeFollows
         /\ created' = created \cup {coin.id}
         /\ UNCHANGED <<sent, late>>
  /\ deposits' = deposits + 1
  /\ UNCHANGED <<registryVars, granted, processVars, initializer, starts>>

-----------------------------------------------------------------------------
InitializerStep(s) ==
  \/ CheckInitialized(s)
  \/ BeginMaintenance(s)
  \/ CleanUp(s)
  \/ ResetStats(s)
  \/ AcquireLock(s)
  \/ Scan(s)
  \/ Split(s)
  \/ AddChunk(s)
  \/ ReleaseLock(s)
  \/ EndMaintenance(s)
  \/ WakeByTrigger(s)

(* What the serving gas stations do, as in GasStation!Next; a crash and a
   restart are the ones of this module. *)
Serving ==
  /\ \/ \E b \in Budgets, d \in Durations : ReserveGas(b, d)
     \/ DebugCheckHealth
     \/ \E t \in Tasks, grant \in granted : StartExecution(t, grant)
     \/ \E t \in Tasks : TaskStep(t)
     \/ \E s \in Stations : UnlockStep(s)
     \/ \E payment \in sent, gas \in NetGas : LateCommit(payment, gas)
     \/ FullnodeSyncs
     \/ TimePasses
  /\ UNCHANGED initializerVars

InitializerNext ==
  \/ Serving
  \/ \E s \in Stations :
       Start(s) \/ InitializerStep(s) \/ WakeByTicker(s) \/ CrashAnywhere(s)
  \/ Deposit

InitializerSpec == InitializerInit /\ [][InitializerNext]_allVars

-----------------------------------------------------------------------------
InitializerPCs == {"down", "boot", "clean", "stats", "lock", "scan", "split",
                   "add", "unlock", "end", "fail", "wait", "dead"}

InitializerTypeOK ==
  /\ initializer \in [Stations ->
       [pc : InitializerPCs, mode : RunMode, force : BOOLEAN,
        work : SUBSET Work, result : Seq(Coin)]]
  /\ created \subseteq CoinIds
  /\ {c.id : c \in ledger} \subseteq created
  /\ \A s \in up : initializer[s].pc \notin {"down", "boot", "clean", "stats"}

(* The coins an initializer has read and not yet added. *)
InitializerCoins(s) ==
  {w.coin.id : w \in initializer[s].work}
    \cup ToSet(IdsOf(initializer[s].result))

(* "It never returns the same coin to multiple callers" (storage/mod.rs:26),
   as far as it can be told from the list: no coin is in it twice. *)
PoolHasNoDuplicates == IsInjective(IdsOf(available))

(* SingleCustody over everybody who may add coins to the list, initializers
   included.  A task that has found its coin oversized gives nothing back, so
   a refresh may have found the coin already. *)
Custodians == Holders \cup {<<"initializer", s>> : s \in Stations}

CustodyOf(h) ==
  CASE h[1] = "initializer" -> InitializerCoins(h[2])
    [] h[1] = "task" /\ task[h[2]].pc = "release" ->
         LET coins == task[h[2]].updated
         IN  IF \E i \in DOMAIN coins : Oversized(coins[i])
             THEN {} ELSE ToSet(IdsOf(coins))
    [] OTHER -> CoinsOf(h)

SoleCustody ==
  /\ PoolHasNoDuplicates
  /\ \A s \in Stations : IsInjective(IdsOf(initializer[s].result))
  /\ \A g, h \in Custodians : g # h => CustodyOf(g) \cap CustodyOf(h) = {}

(* Once the registry is initialized, a live coin is held by somebody or large
   enough for the next refresh to find it. *)
NoCoinIsForgotten ==
  initialized =>
    \A c \in ledger :
      \/ \E h \in Holders : c.id \in CoinsOf(h)
      \/ \E s \in Stations : c.id \in InitializerCoins(s)
      \/ c.balance >= OversizeThreshold

(* While a station serves, a coin that must be split gets split, whether a
   task has found it oversized or somebody has sent it: no trigger is needed
   and none is waited for in vain (rescan_trigger.rs:45-58, gas_station_initializer.rs:299-346). *)
OversizedCoinsAreSplit ==
  \A id \in CoinIds :
    (up # {} /\ \E c \in ledger : c.id = id /\ c.balance >= OversizeThreshold)
      ~> (\A c \in ledger : c.id = id => c.balance < OversizeThreshold)

(* A full rescan finds every coin again, those lost in crashes included: when
   it has released the init lock all live coins are in the list. *)
FullRescanRecoversAll ==
  \A s \in Stations :
    initializer[s].pc = "end" =>
      \A c \in ledger : \E i \in DOMAIN available : available[i] = c

(* "This cannot be done concurrently on multiple gas stations"
   (acquire_init_lock.lua:5-6), while locks outlive what they protect. *)
Splitting(s) == initializer[s].pc \in {"scan", "split", "add", "unlock"}
Rescanning(s) ==
  initializer[s].force /\ initializer[s].pc \notin {"down", "boot"}

LocksExclude ==
  \A r, s \in Stations :
    r # s => /\ ~(Splitting(r) /\ Splitting(s))
             /\ ~(Rescanning(r) /\ Rescanning(s))

(* The background task keeps running while its station serves. *)
FairInitializerSpec ==
  /\ InitializerSpec
  /\ \A t \in Tasks : WF_allVars(TaskStep(t) /\ UNCHANGED initializerVars)
  /\ \A s \in Stations :
       /\ WF_allVars(UnlockStep(s) /\ UNCHANGED initializerVars)
       /\ WF_allVars(InitializerStep(s))
       /\ WF_allVars(WakeByTicker(s))
  /\ WF_allVars(FullnodeSyncs /\ UNCHANGED initializerVars)
  /\ WF_allVars(TimePasses /\ UNCHANGED initializerVars)
=============================================================================
