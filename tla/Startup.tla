------------------------------ MODULE Startup ------------------------------
(***************************************************************************)
(* The start of a gas station (command.rs): the move of the registry from  *)
(* the namespace of an earlier version (storage/redis/migration.rs), the   *)
(* parameters that force a full rescan when they change                    *)
(* (config/cold_params.rs), the consistency check, and the first           *)
(* initialization or full rescan (gas_station_initializer.rs), up to the   *)
(* server.  CoinInitializer has the initializer in detail, with splitting  *)
(* and time; here a coin is added whole, tagged with the target it was cut *)
(* for, and a lock is held until it is released or expires.  One count     *)
(* stands for both statistics, which the scripts treat alike.              *)
(***************************************************************************)
EXTENDS Integers, Sequences, FiniteSets, SequencesExt

CONSTANTS
  Processes,        \* gas stations of this version
  Coins,            \* the sponsor's coins on the chain
  Targets,          \* target_init_balance of a configuration
  NoTarget,         \* a configuration without coin_init_config
  TooSmall,         \* targets whose pieces would not pay for their split
  Flags,            \* sets of command line flags a start may be given
  Missing,          \* a Redis key that does not exist
  MaxStarts,        \* bound: starts
  MaxOverlapping,   \* bound: starts that may find another one running
  MaxErrors,        \* bound: calls of the migration that fail
  MaxReservations   \* bound: reservations given out

ASSUME StartupAssumption ==
  /\ IsFiniteSet(Coins) /\ Coins # {}
  /\ NoTarget \notin Targets
  /\ Missing \notin Targets \cup {NoTarget}
  /\ Missing \notin {"free", "held"} /\ Missing \notin Int
  /\ TooSmall \subseteq Targets
  /\ Flags \subseteq
       SUBSET {"allow-reinit", "delete-coin-registry", "ignore-locks"}
  /\ {MaxStarts, MaxOverlapping, MaxErrors} \subseteq Nat
  /\ MaxReservations \in Nat \ {0}

VARIABLES
  old,       \* the keys of the earlier version's namespace
  new,       \* the keys of this version's namespace
  saved,     \* the cold parameters, outside the registry's namespace
  process,   \* what each gas station does
  starts,    \* starts so far
  errors,    \* failed calls of the migration so far
  mishaps    \* history: what has gone wrong, or may have

vars == <<old, new, saved, process, starts, errors, mishaps>>

(* A namespace without keys.  A lock that was released is a key as well. *)
Nothing ==
  [list |-> << >>, count |-> Missing, initialized |-> FALSE,
   nextReservationId |-> 0, reservations |-> << >>, expirationQueue |-> {},
   initLock |-> Missing, maintenanceLock |-> Missing, schema |-> FALSE]

(* An entry of the list: a coin, the target it was cut for, and whether the
   earlier version has added it. *)
Entry == [coin : Coins, target : Targets, inherited : BOOLEAN]

Down == [pc |-> "down", target |-> NoTarget, flags |-> {}, force |-> FALSE,
         result |-> {}, added |-> FALSE]

(* The earlier version has stopped: there is nothing of it, or its pool, where
   coins may be reserved and a killed initializer may have left its lock. *)
OldRegistry(target, coins, reservations, lock) ==
  [Nothing EXCEPT
     !.list = [i \in DOMAIN coins |->
                 [coin |-> coins[i], target |-> target, inherited |-> TRUE]],
     !.count = Len(coins), !.initialized = TRUE, !.initLock = lock,
     !.nextReservationId = Len(reservations), !.reservations = reservations,
     !.expirationQueue = DOMAIN reservations]

OldRegistries ==
  {Nothing} \cup
    UNION {{OldRegistry(t, coins, IF reserved = {} THEN << >>
                                       ELSE <<reserved>>, lock) :
              t \in Targets \ TooSmall, lock \in {"free", "held"},
              coins \in SetToSeqs(Coins \ reserved)} :
             reserved \in SUBSET Coins}

Init ==
  /\ old \in OldRegistries
  /\ new = Nothing
  /\ saved = Missing
  /\ process = [p \in Processes |-> Down]
  /\ starts = 0
  /\ errors = 0
  /\ mishaps = {}

At(p, pc) == process[p].pc = pc
Goes(p, pc) == process' = [process EXCEPT ![p].pc = pc]
Has(p, flag) == flag \in process[p].flags
RegistryOnly == UNCHANGED <<old, saved, starts, errors, mishaps>>

(* The process is gone.  It may leave coins for which no parameters have been
   saved. *)
Dies(p) ==
  /\ process' = [process EXCEPT ![p] = Down]
  /\ mishaps' = mishaps \cup (IF process[p].added THEN {"unsaved"} ELSE {})

-----------------------------------------------------------------------------
Launch(p) ==
  /\ At(p, "down")
  /\ starts < MaxStarts
  /\ starts < MaxOverlapping \/ \A q \in Processes : At(q, "down")
  /\ starts' = starts + 1
  /\ \E target \in Targets \cup {NoTarget}, flags \in Flags :
       process' = [process EXCEPT ![p] =
         [Down EXCEPT !.pc = "schema", !.target = target, !.flags = flags]]
  /\ mishaps' = mishaps \cup
       (IF \A q \in Processes : At(q, "down") THEN {} ELSE {"overlap"})
  /\ UNCHANGED <<old, new, saved, errors>>

(* "Migration check failed... Continuing without migration": the script has
   run or has not. *)
MigrationFails ==
  /\ errors < MaxErrors
  /\ errors' = errors + 1
  /\ mishaps' = mishaps \cup {"migration"}

(* get_schema_version: data of the earlier version and no version yet. *)
IsOldFormat ==
  ~new.schema /\ (old.initialized \/ old.list # << >>)

CheckSchema(p) ==
  /\ At(p, "schema")
  /\ \/ /\ Goes(p, IF IsOldFormat THEN "migrate" ELSE "stats")
        /\ UNCHANGED <<errors, mishaps>>
     \/ MigrationFails /\ Goes(p, "stats")
  /\ UNCHANGED <<old, new, saved, starts>>

(* migrate_keys: a key is renamed unless the new name is taken; reservations
   are keys of their own. *)
KeySuffixesWithoutQueue == {"list", "count", "nextReservationId", "initialized",
                            "initLock", "maintenanceLock"}

KeySuffixes == {"list", "count", "expirationQueue", "nextReservationId",
                "initialized", "initLock", "maintenanceLock"}

Renamed(k) == k \in KeySuffixes /\ old[k] # Nothing[k] /\ new[k] = Nothing[k]

Restricted(f, S) == [x \in DOMAIN f \cap S |-> f[x]]

MigrateKeysOnly ==
  /\ new' = [k \in DOMAIN new |-> IF Renamed(k) THEN old[k]
                                ELSE IF k = "schema" THEN TRUE ELSE new[k]]
  /\ old' = [k \in DOMAIN old |-> IF Renamed(k) THEN Nothing[k] ELSE old[k]]

MigrateKeys ==
  LET kept == DOMAIN new.reservations
      moved == DOMAIN old.reservations \ kept
  IN  /\ new' = [k \in DOMAIN new |->
                   CASE Renamed(k) -> old[k]
                     [] k = "reservations" ->
                          [r \in kept \cup moved |->
                             IF r \in kept THEN new[k][r] ELSE old[k][r]]
                     [] k = "schema" -> TRUE
                     [] OTHER -> new[k]]
      /\ old' = [k \in DOMAIN old |->
                   CASE Renamed(k) -> Nothing[k]
                     [] k = "reservations" -> Restricted(old[k], kept)
                     [] OTHER -> old[k]]

Migrate(p) ==
  /\ At(p, "migrate")
  /\ \/ MigrateKeys /\ UNCHANGED <<errors, mishaps>>
     \/ MigrationFails /\ (MigrateKeys \/ UNCHANGED <<old, new>>)
  /\ Goes(p, "stats")
  /\ UNCHANGED <<saved, starts>>

(* init_coin_stats_at_startup, which also sets the schema version. *)
InitCoinStatsOnly ==
  new' = [new EXCEPT !.count = IF @ = Missing THEN Len(new.list) ELSE @]

InitCoinStats ==
  new' = [new EXCEPT
    !.count = IF @ = Missing THEN Len(new.list) ELSE @,
    !.schema = TRUE]

ConnectStorage(p) ==
  /\ At(p, "stats")
  /\ InitCoinStats
  /\ Goes(p, "params")
  /\ RegistryOnly

-----------------------------------------------------------------------------
(* check_if_changed, and what a change means.  Parameters that were never
   saved count as unchanged. *)
ParamsChanged(p) == saved # Missing /\ saved # process[p].target

ForcesRescan(p) ==
  \/ ParamsChanged(p)
  \/ Has(p, "delete-coin-registry") /\ Has(p, "allow-reinit")

CheckColdParamsSaves(p) ==
  /\ At(p, "params")
  /\ IF ParamsChanged(p) /\ ~Has(p, "allow-reinit")
     THEN Dies(p) /\ UNCHANGED saved
     ELSE /\ process' = [process EXCEPT
               ![p].force = ForcesRescan(p),
               ![p].pc = IF process[p].target = NoTarget THEN "save" ELSE "count"]
          /\ saved' = process[p].target
          /\ UNCHANGED mishaps
  /\ UNCHANGED <<old, new, starts, errors>>

CheckColdParamsAlwaysInits(p) ==
  /\ At(p, "params")
  /\ IF ParamsChanged(p) /\ ~Has(p, "allow-reinit")
     THEN Dies(p)
     ELSE /\ process' = [process EXCEPT ![p].force = ForcesRescan(p),
                                       ![p].pc = "count"]
          /\ UNCHANGED mishaps
  /\ UNCHANGED <<old, new, saved, starts, errors>>

CheckColdParams(p) ==
  /\ At(p, "params")
  /\ IF ParamsChanged(p) /\ ~Has(p, "allow-reinit")
     THEN Dies(p)
     ELSE /\ process' = [process EXCEPT
               ![p].force = ForcesRescan(p),
               ![p].pc = IF process[p].target = NoTarget THEN "save" ELSE "count"]
          /\ UNCHANGED mishaps
  /\ UNCHANGED <<old, new, saved, starts, errors>>

(* perform_consistency_check reads two keys, one after the other: without the
   count it gives up, without the total the process panics. *)
GetAvailableCoinCount == new.count

GetAvailableCoinTotalBalance == new.count

CheckCount(p) ==
  /\ At(p, "count")
  /\ Goes(p, IF GetAvailableCoinCount = Missing THEN "boot" ELSE "total")
  /\ RegistryOnly
  /\ UNCHANGED new

CheckTotal(p) ==
  /\ At(p, "total")
  /\ IF GetAvailableCoinTotalBalance = Missing
     THEN Dies(p)
     ELSE Goes(p, "boot") /\ UNCHANGED mishaps
  /\ UNCHANGED <<old, new, saved, starts, errors>>

-----------------------------------------------------------------------------
(* GasStationInitializer::start. *)
IsInitialized == new.initialized

CheckInitialized(p) ==
  /\ At(p, "boot")
  /\ ~process[p].force
  /\ Goes(p, IF IsInitialized THEN "save" ELSE "lock")
  /\ RegistryOnly
  /\ UNCHANGED new

BeginMaintenance(p) ==
  /\ At(p, "boot")
  /\ process[p].force
  /\ \/ /\ new.maintenanceLock # "held"
        /\ new' = [new EXCEPT !.maintenanceLock = "held"]
        /\ Goes(p, "clean")
        /\ UNCHANGED mishaps
     \/ /\ new.maintenanceLock = "held"
        /\ IF Has(p, "ignore-locks")
           THEN Goes(p, "clean") /\ UNCHANGED mishaps
           ELSE Dies(p)
        /\ UNCHANGED new
  /\ UNCHANGED <<old, saved, starts, errors>>

(* Every key but the locks. *)
CleanUpCoinRegistry ==
  new' = [Nothing EXCEPT !.initLock = new.initLock,
                         !.maintenanceLock = new.maintenanceLock]

CleanUp(p) ==
  /\ At(p, "clean")
  /\ CleanUpCoinRegistry
  /\ Goes(p, "reset")
  /\ RegistryOnly

ResetStats(p) ==
  /\ At(p, "reset")
  /\ InitCoinStats
  /\ Goes(p, "lock")
  /\ RegistryOnly

AcquireInitLock(p) ==
  /\ At(p, "lock")
  /\ \/ /\ new.initLock # "held"
        /\ new' = [new EXCEPT !.initLock = "held"]
        /\ Goes(p, "build")
        /\ UNCHANGED mishaps
     \/ /\ new.initLock = "held"
        /\ IF Has(p, "ignore-locks") THEN Goes(p, "build") /\ UNCHANGED mishaps
           ELSE IF process[p].force THEN Goes(p, "fail") /\ UNCHANGED mishaps
           ELSE Dies(p)
        /\ UNCHANGED new
  /\ UNCHANGED <<old, saved, starts, errors>>

(* The scan; a target that is too small is an error of run_once, found when
   the registry has been deleted already. *)
Scan(p) ==
  /\ At(p, "build")
  /\ IF process[p].target \in TooSmall
     THEN /\ new' = [new EXCEPT !.initLock = "free"]
          /\ IF process[p].force THEN Goes(p, "fail") /\ UNCHANGED mishaps
                                 ELSE Dies(p)
     ELSE /\ process' = [process EXCEPT ![p].pc = "add", ![p].result = Coins]
          /\ UNCHANGED <<new, mishaps>>
  /\ UNCHANGED <<old, saved, starts, errors>>

(* add_new_coins for one chunk, here one coin.  Without statistics it fails
   after the push: a panic, which leaves the init lock. *)
Pushed(p, c) ==
  [new EXCEPT
     !.list = Append(@, [coin |-> c, target |-> process[p].target,
                         inherited |-> FALSE]),
     !.initialized = TRUE, !.schema = TRUE,
     !.count = IF @ = Missing THEN Missing ELSE @ + 1]

AddChunk(p) ==
  /\ At(p, "add")
  /\ \/ /\ process[p].result = {}
        /\ new' = [new EXCEPT !.initLock = "free"]
        /\ Goes(p, IF process[p].force THEN "end" ELSE "save")
        /\ UNCHANGED mishaps
     \/ \E c \in process[p].result :
          /\ new' = Pushed(p, c)
          /\ IF new.count = Missing
             THEN /\ process' = [process EXCEPT ![p] = Down]
                  /\ mishaps' = mishaps \cup {"unsaved", "killed"}
             ELSE /\ process' = [process EXCEPT
                       ![p].result = @ \ {c}, ![p].added = TRUE]
                  /\ UNCHANGED mishaps
  /\ UNCHANGED <<old, saved, starts, errors>>

EndMaintenanceOnSuccess(p) ==
  /\ process[p].pc \in {"end", "fail"}
  /\ IF At(p, "end")
     THEN /\ new' = [new EXCEPT !.maintenanceLock = "free"]
          /\ Goes(p, "save") /\ UNCHANGED mishaps
     ELSE Dies(p) /\ UNCHANGED new
  /\ UNCHANGED <<old, saved, starts, errors>>

EndMaintenance(p) ==
  /\ process[p].pc \in {"end", "fail"}
  /\ new' = [new EXCEPT !.maintenanceLock = "free"]
  /\ IF At(p, "end") THEN Goes(p, "save") /\ UNCHANGED mishaps ELSE Dies(p)
  /\ UNCHANGED <<old, saved, starts, errors>>

(* save_to_storage, when the initializer has returned. *)
SaveColdParams(p) ==
  /\ At(p, "save")
  /\ saved' = process[p].target
  /\ process' = [process EXCEPT
       ![p] = [Down EXCEPT !.pc = "access", !.target = process[p].target]]
  /\ UNCHANGED <<old, new, starts, errors, mishaps>>

(* The access controller is initialized last; its failure is a panic. *)
Serve(p) ==
  /\ At(p, "access")
  /\ \/ Goes(p, "serve") /\ UNCHANGED mishaps
     \/ Dies(p)
  /\ UNCHANGED <<old, new, saved, starts, errors>>

-----------------------------------------------------------------------------
(* What the server and the unlock task do, in one step each: GasStation has
   them in detail. *)
Reserve(p) ==
  /\ At(p, "serve")
  /\ new.maintenanceLock # "held"
  /\ new.count # Missing
  /\ new.list # << >>
  /\ new.nextReservationId < MaxReservations
  /\ LET id == new.nextReservationId + 1
     IN  new' = [new EXCEPT
           !.list = Tail(@), !.count = @ - 1, !.nextReservationId = id,
           !.reservations = [r \in DOMAIN @ \cup {id} |->
             IF r = id THEN {Head(new.list).coin} ELSE @[r]],
           !.expirationQueue = @ \cup {id}]
  /\ RegistryOnly
  /\ UNCHANGED process

(* Somebody kills a process. *)
Crash(p) ==
  /\ ~At(p, "down")
  /\ process' = [process EXCEPT ![p] = Down]
  /\ mishaps' = mishaps \cup {"killed"} \cup
       (IF process[p].added THEN {"unsaved"} ELSE {}) \cup
       (IF At(p, "reset") THEN {"cleanup"} ELSE {})
  /\ UNCHANGED <<old, new, saved, starts, errors>>

InInitSection(p) == process[p].pc \in {"build", "add"}
InMaintenance(p) ==
  process[p].force /\ process[p].pc \in
    {"clean", "reset", "lock", "build", "add", "end", "fail"}

(* A lock outlives the section it protects, and expires some time after a
   process that held it has died. *)
LockExpires ==
  /\ \/ /\ new.initLock = "held"
        /\ \A p \in Processes : ~InInitSection(p)
        /\ new' = [new EXCEPT !.initLock = "free"]
     \/ /\ new.maintenanceLock = "held"
        /\ \A p \in Processes : ~InMaintenance(p)
        /\ new' = [new EXCEPT !.maintenanceLock = "free"]
  /\ RegistryOnly
  /\ UNCHANGED process

StartStep(p) ==
  \/ CheckSchema(p) \/ Migrate(p) \/ ConnectStorage(p)
  \/ CheckColdParams(p) \/ CheckCount(p) \/ CheckTotal(p)
  \/ CheckInitialized(p) \/ BeginMaintenance(p) \/ CleanUp(p) \/ ResetStats(p)
  \/ AcquireInitLock(p) \/ Scan(p) \/ AddChunk(p) \/ EndMaintenance(p)
  \/ SaveColdParams(p) \/ Serve(p)

Next ==
  \/ \E p \in Processes : Launch(p) \/ StartStep(p) \/ Reserve(p) \/ Crash(p)
  \/ LockExpires

Spec == Init /\ [][Next]_vars
-----------------------------------------------------------------------------
PCs == {"down", "schema", "migrate", "stats", "params", "count", "total",
        "boot", "clean", "reset", "lock", "build", "add", "end", "fail", "save",
        "access", "serve"}

Namespace(ns) ==
  /\ DOMAIN ns = DOMAIN Nothing
  /\ ns.list \in Seq(Entry)
  /\ ns.count \in Int \cup {Missing}
  /\ \A r \in DOMAIN ns.reservations :
       r \in 1 .. MaxReservations /\ ns.reservations[r] \subseteq Coins
  /\ {ns.initLock, ns.maintenanceLock} \subseteq {Missing, "free", "held"}

TypeOK ==
  /\ Namespace(old) /\ Namespace(new)
  /\ saved \in Targets \cup {NoTarget, Missing}
  /\ \A p \in Processes :
       /\ process[p].pc \in PCs
       /\ process[p].target \in Targets \cup {NoTarget}
       /\ process[p].result \subseteq Coins
  /\ mishaps \subseteq {"overlap", "migration", "unsaved", "killed", "cleanup"}

Unharmed(S) == mishaps \cap S = {}

(* A start went on without a migration while another one was about to migrate. *)
Raced == {"overlap", "migration"} \subseteq mishaps

(* "Cold params ... require full re-initialization of the gas station coin
   registry" (config/cold_params.rs:5): a station only serves with a target
   for which the coins of the registry were cut, however targets and flags
   change between starts, starts are refused, fail half-way or are killed.
   Parameters are compared with what was saved, so coins of the earlier
   version, which saved none, and of a start that died before it saved its own
   are taken over whatever their target is; and nothing keeps another start
   from rebuilding the registry meanwhile. *)
ServesWithItsTarget(p) ==
  At(p, "serve") /\ process[p].target # NoTarget =>
    \A i \in DOMAIN new.list :
      ~new.list[i].inherited => new.list[i].target = process[p].target

PoolFitsTarget ==
  Unharmed({"overlap", "unsaved"}) => \A p \in Processes : ServesWithItsTarget(p)

(* The same whatever has died: "The cold params requires full rescan of the
   coins registry" (config/cold_params.rs:16).  A start that is killed between
   the last add_new_coins and save_to_storage breaks it: the next one finds an
   initialized registry and nothing saved that would differ. *)
ParamChangesAreNoticed == \A p \in Processes : ServesWithItsTarget(p)

(* A station that serves has all coins of the sponsor in its own namespace,
   each of them once, in the list or in a reservation: an upgrade leaves none
   behind, whether its migration succeeds, fails or is repeated, and a start
   does not take a half-built registry for a whole one, unless the one that
   was building it was killed. *)
Registered(c) ==
  Cardinality({i \in DOMAIN new.list : new.list[i].coin = c})
    + Cardinality({r \in DOMAIN new.reservations : c \in new.reservations[r]})

AllCoinsAreRegistered ==
  Unharmed({"overlap", "unsaved"}) =>
    \A p \in Processes :
      At(p, "serve") /\ process[p].target # NoTarget =>
        \A c \in Coins : Registered(c) = 1

(* The statistics follow the list through migration, rebuild and failure, and
   a migrated reservation can still expire.  A start whose migration has failed
   beside one that migrates breaks it: it creates the count and the total, and
   the list is then renamed without them. *)
RegistryIsSound ==
  ~Raced =>
    /\ new.count \in {Missing, Len(new.list)} \/ "unsaved" \in mishaps
    /\ DOMAIN new.reservations \subseteq new.expirationQueue
    /\ \A r \in new.expirationQueue : r <= new.nextReservationId

(* Keys of the earlier version come in before anybody serves, or not at all:
   when a migration has failed, a registry in use never takes up the stale list
   later.  clean_up_coin_registry deletes the schema version that says so: a
   full rescan that is killed before it sets it again lets the stale keys in. *)
MigrationIsOver ==
  [][ (\E k \in KeySuffixes : Renamed(k) /\ old'[k] # old[k])
        => saved = Missing \/ Raced \/ "cleanup" \in mishaps ]_vars

(* "always release maintenance lock, regardless of success or failure"
   (gas_station_initializer.rs:237): a lock is held by a start that is in its
   section, or was left by one that was killed there, this version's or the
   earlier one's: no refused or failed start blocks the next. *)
LocksAreReleased ==
  "killed" \in mishaps \/
    /\ new.initLock = "held" =>
         \/ \E p \in Processes : InInitSection(p)
         \/ \A i \in DOMAIN new.list : new.list[i].inherited
    /\ new.maintenanceLock = "held" =>
         \E p \in Processes : InMaintenance(p)
=============================================================================
