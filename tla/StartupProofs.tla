--------------------------- MODULE StartupProofs ---------------------------
(***************************************************************************)
(* Proofs for module Startup: what the run checks of three starts holds of *)
(* any number of them, with any coins, targets and flags; and what a start *)
(* that does not warn has shown of the registry (ConsistencyCheck), and    *)
(* which keys a cleanup takes (Namespaces).                                *)
(*                                                                         *)
(* The inductive invariant IInv says what each start has seen to at the    *)
(* place it has come to: what is in the namespaces before and after the    *)
(* migration (MigrationInv, SchemaInv), which locks are keys (LockInv),    *)
(* and how much of the pool is built, for which target (PoolInv).          *)
(***************************************************************************)
EXTENDS Startup, ConsistencyCheck, Namespaces, FiniteSetTheorems, TLAPS

Holdings == UNION {[R -> SUBSET Coins] : R \in SUBSET (1 .. MaxReservations)}

Keys == [list : Seq(Entry), count : Int \cup {Missing}, initialized : BOOLEAN,
         nextReservationId : Nat,
         reservations : Holdings,
         expirationQueue : SUBSET Nat,
         initLock : {Missing, "free", "held"},
         maintenanceLock : {Missing, "free", "held"}, schema : BOOLEAN]

Starting == [pc : PCs, target : Targets \cup {NoTarget},
             flags : SUBSET {"allow-reinit", "delete-coin-registry", "ignore-locks"},
             force : BOOLEAN, result : SUBSET Coins, added : BOOLEAN]

TypedInv ==
  /\ old \in Keys /\ new \in Keys
  /\ saved \in Targets \cup {NoTarget, Missing}
  /\ process \in [Processes -> Starting]
  /\ \A p \in Processes :
       process[p].pc \in {"count", "total", "boot", "clean", "reset", "lock",
                         "build", "fail", "add", "end"}
         => process[p].target # NoTarget
  /\ mishaps \subseteq {"overlap", "migration", "unsaved", "killed", "cleanup"}

(* Only locks survive in a namespace without a schema version. *)
Bare(ns) ==
  /\ ns.list = << >> /\ ns.count = Missing /\ ~ns.initialized
  /\ ns.nextReservationId = 0
  /\ ns.reservations = << >> /\ ns.expirationQueue = {}

AllInherited(list) == \A i \in DOMAIN list : list[i].inherited

LockInv ==
  /\ AllInherited(old.list) /\ old.maintenanceLock = Missing /\ ~old.schema
  /\ ~new.schema => Bare(new)
  /\ new.initLock = Missing =>
       AllInherited(new.list) /\ \A p \in Processes : ~InInitSection(p)
  /\ LocksAreReleased

Early(p) == process[p].pc \in {"down", "schema", "migrate"}

OneAtATime == \A p, q \in Processes : p # q => At(p, "down") \/ At(q, "down")

Drained == Bare(old) /\ (old.initLock # Missing => new.initLock # Missing)

MigrationInv ==
  ~Raced =>
    \/ Drained
    \/ /\ old \in OldRegistries
       /\ \A p \in Processes : At(p, "migrate") => ~new.schema
       /\ "migration" \notin mishaps =>
            /\ ~new.schema
            /\ \A p \in Processes : Early(p)
       /\ "overlap" \notin mishaps => OneAtATime

SchemaInv ==
  "cleanup" \notin mishaps
  /\ (saved # Missing \/ \E p \in Processes : ~Early(p) /\ ~At(p, "stats"))
    => new.schema \/ \E p \in Processes : At(p, "reset")

Listed(list, c) == \E i \in DOMAIN list : list[i].coin = c

EachOnce(list) == \A i, j \in DOMAIN list : list[i].coin = list[j].coin => i = j

(* Each coin of the sponsor is in the list or in a reservation, once. *)
WholePool(ns) ==
  /\ EachOnce(ns.list)
  /\ \A r, q \in DOMAIN ns.reservations :
       r # q => ns.reservations[r] \cap ns.reservations[q] = {}
  /\ \A i \in DOMAIN ns.list, r \in DOMAIN ns.reservations :
       ns.list[i].coin \notin ns.reservations[r]
  /\ \A c \in Coins :
       Listed(ns.list, c) \/ \E r \in DOMAIN ns.reservations : c \in ns.reservations[r]

CutFor(list, target) ==
  \A i \in DOMAIN list : ~list[i].inherited => list[i].target = target

SettledPool(ns) ==
  IF ns.initialized THEN WholePool(ns) ELSE ns.list = << >> /\ ns.reservations = << >>

Settled == (saved = NoTarget \/ CutFor(new.list, saved)) /\ SettledPool(new)

Building(p) ==
  /\ CutFor(new.list, process[p].target) /\ EachOnce(new.list)
  /\ new.reservations = << >>
  /\ \A c \in Coins : Listed(new.list, c) <=> c \notin process[p].result
  /\ new.list # << >> => new.initialized

(* How far the start of p has come, and what it has seen to. *)
Stage(p) ==
  /\ process[p].added =>
       process[p].pc \in {"add", "end", "save"} /\ process[p].target # NoTarget
  /\ process[p].pc \in {"count", "total", "boot"} =>
       process[p].force \/ saved \in {Missing, process[p].target}
  /\ process[p].pc \in {"reset", "lock", "build", "fail"} => ~new.initialized
  /\ process[p].pc = "add" => Building(p)
  /\ process[p].pc \in {"end", "save", "access", "serve"} /\ process[p].target # NoTarget =>
       new.initialized /\ WholePool(new) /\ CutFor(new.list, process[p].target)
  /\ process[p].pc \in {"access", "serve"} => saved = process[p].target

PoolInv ==
  Unharmed({"overlap", "unsaved"}) =>
    /\ OneAtATime
    /\ (\A p \in Processes : ~process[p].added) => Settled
    /\ \A p \in Processes : Stage(p)

LEMMA Distinct ==
  /\ Missing \notin Targets /\ Missing # NoTarget /\ NoTarget \notin Targets
  /\ Missing # "free" /\ Missing # "held" /\ Missing \notin Int
  /\ MaxReservations \in Nat /\ 1 \in 1 .. MaxReservations
BY StartupAssumption

KeyNames == {"list", "count", "initialized", "nextReservationId", "reservations",
             "expirationQueue", "initLock", "maintenanceLock", "schema"}

LEMMA HoldingsAreFunctions ==
  ASSUME NEW f
  PROVE  f \in Holdings <=>
           /\ f = [r \in DOMAIN f |-> f[r]]
           /\ DOMAIN f \subseteq 1 .. MaxReservations
           /\ \A r \in DOMAIN f : f[r] \subseteq Coins
<1>1. ASSUME f \in Holdings
      PROVE  /\ f = [r \in DOMAIN f |-> f[r]]
             /\ DOMAIN f \subseteq 1 .. MaxReservations
             /\ \A r \in DOMAIN f : f[r] \subseteq Coins
  BY <1>1 DEF Holdings
<1>2. ASSUME f = [r \in DOMAIN f |-> f[r]], DOMAIN f \subseteq 1 .. MaxReservations,
             \A r \in DOMAIN f : f[r] \subseteq Coins
      PROVE  f \in Holdings
  <2>1. f \in [DOMAIN f -> SUBSET Coins]
    BY <1>2
  <2> QED
    BY <1>2, <2>1 DEF Holdings
<1> QED
  BY <1>1, <1>2

LEMMA NoHoldings == << >> \in Holdings /\ DOMAIN << >> = {}
<1>1. << >> = [r \in {} |-> {}] /\ DOMAIN << >> = {}
  OBVIOUS
<1> QED
  BY <1>1, HoldingsAreFunctions

LEMMA NothingIsEmpty ==
  /\ DOMAIN Nothing = KeyNames
  /\ Nothing \in Keys
BY Distinct, NoHoldings DEF Nothing, Keys, KeyNames

(* What MigrateKeys leaves, key by key. *)
LEMMA Migrated ==
  ASSUME old \in Keys, new \in Keys, MigrateKeys
  PROVE  LET kept == DOMAIN new.reservations
             all == kept \cup DOMAIN old.reservations
             New(k) == IF Renamed(k) THEN old[k] ELSE new[k]
             Old(k) == IF Renamed(k) THEN Nothing[k] ELSE old[k]
         IN  /\ new' = [list |-> New("list"), count |-> New("count"),
                        initialized |-> New("initialized"),
                        nextReservationId |-> New("nextReservationId"),
                        reservations |->
                          [r \in all |-> IF r \in kept THEN new.reservations[r]
                                                      ELSE old.reservations[r]],
                        expirationQueue |-> New("expirationQueue"),
                        initLock |-> New("initLock"),
                        maintenanceLock |-> New("maintenanceLock"),
                        schema |-> TRUE]
             /\ old' = [list |-> Old("list"), count |-> Old("count"),
                        initialized |-> Old("initialized"),
                        nextReservationId |-> Old("nextReservationId"),
                        reservations |-> Restricted(old.reservations, kept),
                        expirationQueue |-> Old("expirationQueue"),
                        initLock |-> Old("initLock"),
                        maintenanceLock |-> Old("maintenanceLock"),
                        schema |-> old.schema]
<1>1. DOMAIN old = KeyNames /\ DOMAIN new = KeyNames
  BY DEF Keys, KeyNames
<1>2. ~Renamed("reservations") /\ ~Renamed("schema")
  BY DEF Renamed, KeySuffixes
<1> HIDE DEF Renamed
<1> QED
  BY <1>1, <1>2 DEF MigrateKeys, KeyNames

LEMMA MigratedKeys ==
  ASSUME old \in Keys, new \in Keys, MigrateKeys
  PROVE
         /\ /\ new'.list = IF Renamed("list") THEN old.list ELSE new.list
            /\ old'.list = IF Renamed("list") THEN Nothing.list ELSE old.list
            /\ Renamed("list") <=> old.list # Nothing.list /\ new.list = Nothing.list
         /\ /\ new'.count = IF Renamed("count") THEN old.count ELSE new.count
            /\ old'.count = IF Renamed("count") THEN Nothing.count ELSE old.count
            /\ Renamed("count") <=> old.count # Nothing.count /\ new.count = Nothing.count
         /\ /\ new'.initialized = IF Renamed("initialized") THEN old.initialized ELSE new.initialized
            /\ old'.initialized = IF Renamed("initialized") THEN Nothing.initialized ELSE old.initialized
            /\ Renamed("initialized") <=> old.initialized # Nothing.initialized /\ new.initialized = Nothing.initialized
         /\ /\ new'.nextReservationId = IF Renamed("nextReservationId") THEN old.nextReservationId ELSE new.nextReservationId
            /\ old'.nextReservationId = IF Renamed("nextReservationId") THEN Nothing.nextReservationId ELSE old.nextReservationId
            /\ Renamed("nextReservationId") <=> old.nextReservationId # Nothing.nextReservationId /\ new.nextReservationId = Nothing.nextReservationId
         /\ /\ new'.expirationQueue = IF Renamed("expirationQueue") THEN old.expirationQueue ELSE new.expirationQueue
            /\ old'.expirationQueue = IF Renamed("expirationQueue") THEN Nothing.expirationQueue ELSE old.expirationQueue
            /\ Renamed("expirationQueue") <=> old.expirationQueue # Nothing.expirationQueue /\ new.expirationQueue = Nothing.expirationQueue
         /\ /\ new'.initLock = IF Renamed("initLock") THEN old.initLock ELSE new.initLock
            /\ old'.initLock = IF Renamed("initLock") THEN Nothing.initLock ELSE old.initLock
            /\ Renamed("initLock") <=> old.initLock # Nothing.initLock /\ new.initLock = Nothing.initLock
         /\ /\ new'.maintenanceLock = IF Renamed("maintenanceLock") THEN old.maintenanceLock ELSE new.maintenanceLock
            /\ old'.maintenanceLock = IF Renamed("maintenanceLock") THEN Nothing.maintenanceLock ELSE old.maintenanceLock
            /\ Renamed("maintenanceLock") <=> old.maintenanceLock # Nothing.maintenanceLock /\ new.maintenanceLock = Nothing.maintenanceLock
BY Migrated DEF Renamed, KeySuffixes

LEMMA MigrationTypes ==
  ASSUME old \in Keys, new \in Keys, MigrateKeys
  PROVE  old' \in Keys /\ new' \in Keys
<1> DEFINE kept == DOMAIN new.reservations
           all == kept \cup DOMAIN old.reservations
           joined == [r \in all |-> IF r \in kept THEN new.reservations[r]
                                                ELSE old.reservations[r]]
           rest == Restricted(old.reservations, kept)
<1>1. old.reservations \in Holdings /\ new.reservations \in Holdings
  BY DEF Keys
<1>2. joined \in Holdings
  <2> HIDE DEF Holdings
  <2>1. /\ kept \subseteq 1 .. MaxReservations
        /\ DOMAIN old.reservations \subseteq 1 .. MaxReservations
        /\ \A r \in kept : new.reservations[r] \subseteq Coins
        /\ \A r \in DOMAIN old.reservations : old.reservations[r] \subseteq Coins
    BY <1>1, HoldingsAreFunctions
  <2>2. DOMAIN joined = all /\ joined = [r \in DOMAIN joined |-> joined[r]]
    OBVIOUS
  <2>3. \A r \in all : joined[r] \subseteq Coins
    BY <2>1
  <2> HIDE DEF joined
  <2> QED
    BY <2>1, <2>2, <2>3, HoldingsAreFunctions
<1>3. rest \in Holdings
  <2>1. /\ DOMAIN old.reservations \subseteq 1 .. MaxReservations
        /\ \A r \in DOMAIN old.reservations : old.reservations[r] \subseteq Coins
    BY <1>1, HoldingsAreFunctions
  <2>2. /\ DOMAIN rest = DOMAIN old.reservations \cap kept
        /\ rest = [r \in DOMAIN rest |-> rest[r]]
        /\ \A r \in DOMAIN rest : rest[r] = old.reservations[r]
    BY DEF Restricted
  <2> HIDE DEF rest, kept
  <2> QED
    BY <2>1, <2>2, HoldingsAreFunctions
<1> HIDE DEF joined, rest, kept, all
<1>4. ASSUME NEW ns \in Keys
      PROVE
             /\ ns.list \in Seq(Entry)
             /\ ns.count \in Int \cup {Missing}
             /\ ns.initialized \in BOOLEAN
             /\ ns.nextReservationId \in Nat
             /\ ns.expirationQueue \in SUBSET Nat
             /\ ns.initLock \in {Missing, "free", "held"}
             /\ ns.maintenanceLock \in {Missing, "free", "held"}
             /\ ns.schema \in BOOLEAN
  BY DEF Keys
<1>5. Nothing \in Keys
  BY NothingIsEmpty
<1> HIDE DEF Nothing, Renamed, Entry
<1>6. new' \in Keys
  <2> DEFINE New(k) == IF Renamed(k) THEN old[k] ELSE new[k]
  <2>1. new' = [list |-> New("list"), count |-> New("count"),
                initialized |-> New("initialized"),
                nextReservationId |-> New("nextReservationId"),
                reservations |-> joined,
                expirationQueue |-> New("expirationQueue"),
                initLock |-> New("initLock"),
                maintenanceLock |-> New("maintenanceLock"), schema |-> TRUE]
    BY Migrated, Zenon DEF joined, kept, all
  <2> QED
    BY <1>2, <1>4, <2>1 DEF Keys
<1>7. old' \in Keys
  BY <1>3, <1>4, <1>5, Migrated DEF Keys, rest, kept
<1> QED
  BY <1>6, <1>7

(* The registries of the earlier version: a whole pool, in the list or
   reserved, each coin once. *)
LEMMA OldRegistriesAreWhole ==
  ASSUME NEW ns \in OldRegistries
  PROVE  \/ ns = Nothing
         \/ \E target \in Targets, reserved \in SUBSET Coins, lock \in {"free", "held"} :
              \E coins \in SetToSeqs(Coins \ reserved) :
                ns = OldRegistry(target, coins,
                        IF reserved = {} THEN << >> ELSE <<reserved>>, lock)
<1> DEFINE F(r) == IF r = {} THEN << >> ELSE <<r>>
           Some(r) == {OldRegistry(t, coins, F(r), lock) :
              t \in Targets \ TooSmall, lock \in {"free", "held"},
              coins \in SetToSeqs(Coins \ r)}
<1>1. OldRegistries = {Nothing} \cup UNION {Some(r) : r \in SUBSET Coins}
  BY DEF OldRegistries
<1> HIDE DEF Some
<1>2. CASE ns = Nothing
  BY <1>2
<1>3. CASE ns # Nothing
  <2>1. PICK r \in SUBSET Coins : ns \in Some(r)
    BY <1>1, <1>3
  <2>2. PICK t \in Targets \ TooSmall, lock \in {"free", "held"},
             coins \in SetToSeqs(Coins \ r) : ns = OldRegistry(t, coins, F(r), lock)
    <3> HIDE DEF F
    <3> QED
      BY <2>1, SMT DEF Some
  <2> QED
    BY <2>2
<1> QED
  BY <1>2, <1>3

LEMMA PoolSequences ==
  ASSUME NEW S \in SUBSET Coins, NEW coins \in SetToSeqs(S)
  PROVE  /\ coins \in Seq(S)
         /\ DOMAIN coins = 1 .. Len(coins)
         /\ \A i, j \in DOMAIN coins : coins[i] = coins[j] => i = j
         /\ \A c \in S : \E i \in DOMAIN coins : coins[i] = c
<1>1. IsFiniteSet(S) /\ Cardinality(S) \in Nat
  BY StartupAssumption, FS_Subset, FS_CardinalityType
<1>2. /\ coins \in [1 .. Cardinality(S) -> S]
      /\ \A i, j \in 1 .. Cardinality(S) : i # j => coins[i] # coins[j]
  BY DEF SetToSeqs
<1>3. coins \in Seq(S) /\ DOMAIN coins = 1 .. Cardinality(S) /\ Len(coins) = Cardinality(S)
  BY <1>1, <1>2
<1>4. \A c \in S : \E i \in DOMAIN coins : coins[i] = c
  <2>1. coins \in Injection(1 .. Cardinality(S), S)
    BY <1>2 DEF Injection, IsInjective
  <2>2. coins \in Surjection(1 .. Cardinality(S), S)
    <3>1. Cardinality(1 .. Cardinality(S)) = Cardinality(S)
      BY <1>1, FS_Interval
    <3> QED
      BY <1>1, <2>1, <3>1, FS_Injection
  <2> QED
    BY <1>3, <2>2 DEF Surjection
<1> QED
  BY <1>2, <1>3, <1>4

LEMMA OldRegistriesAreInitialized ==
  ASSUME NEW ns \in OldRegistries, ns # Nothing
  PROVE  ns.initialized
<1>1. \A t, coins, held, lock : OldRegistry(t, coins, held, lock).initialized = TRUE
  BY DEF OldRegistry, Nothing
<1>2. PICK target \in Targets, reserved \in SUBSET Coins, lock \in {"free", "held"} :
           \E coins \in SetToSeqs(Coins \ reserved) :
             ns = OldRegistry(target, coins,
                    IF reserved = {} THEN << >> ELSE <<reserved>>, lock)
  BY OldRegistriesAreWhole
<1>3. PICK coins \in SetToSeqs(Coins \ reserved) :
           ns = OldRegistry(target, coins,
                  IF reserved = {} THEN << >> ELSE <<reserved>>, lock)
  BY <1>2
<1> QED
  BY <1>1, <1>3

LEMMA OldRegistriesAreKeys ==
  ASSUME NEW ns \in OldRegistries
  PROVE  /\ ns \in Keys /\ AllInherited(ns.list)
         /\ ns.maintenanceLock = Missing /\ ~ns.schema
<1>1. CASE ns = Nothing
  BY <1>1, NothingIsEmpty DEF Nothing, AllInherited
<1>2. CASE \E target \in Targets, reserved \in SUBSET Coins, lock \in {"free", "held"} :
             \E coins \in SetToSeqs(Coins \ reserved) :
               ns = OldRegistry(target, coins,
                      IF reserved = {} THEN << >> ELSE <<reserved>>, lock)
  <2>1. PICK target \in Targets, reserved \in SUBSET Coins, lock \in {"free", "held"} :
             \E coins \in SetToSeqs(Coins \ reserved) :
               ns = OldRegistry(target, coins,
                      IF reserved = {} THEN << >> ELSE <<reserved>>, lock)
    BY <1>2
  <2>2. PICK coins \in SetToSeqs(Coins \ reserved) :
               ns = OldRegistry(target, coins,
                      IF reserved = {} THEN << >> ELSE <<reserved>>, lock)
    BY <2>1
  <2> DEFINE list == [i \in DOMAIN coins |->
                       [coin |-> coins[i], target |-> target, inherited |-> TRUE]]
             held == IF reserved = {} THEN << >> ELSE <<reserved>>
  <2>3. coins \in Seq(Coins \ reserved) /\ DOMAIN coins = 1 .. Len(coins)
    BY PoolSequences
  <2>4. list \in Seq(Entry)
    BY <2>3 DEF Entry
  <2>5. held \in Holdings /\ DOMAIN held \in SUBSET Nat /\ Len(held) \in Nat
    <3>1. CASE reserved = {}
      BY <3>1, NoHoldings
    <3>2. CASE reserved # {}
      <4>1. DOMAIN <<reserved>> = {1} /\ <<reserved>>[1] = reserved
            /\ <<reserved>> = [r \in {1} |-> reserved]
        OBVIOUS
      <4>2. <<reserved>> \in Holdings
        BY <4>1, Distinct, HoldingsAreFunctions
      <4> QED
        BY <3>2, <4>1, <4>2
    <3> QED
      BY <3>1, <3>2
  <2>6. AllInherited(list)
    BY DEF AllInherited
  <2> HIDE DEF list, held
  <2>7. ns = [list |-> list, count |-> Len(coins), initialized |-> TRUE,
              nextReservationId |-> Len(held), reservations |-> held,
              expirationQueue |-> DOMAIN held, initLock |-> lock,
              maintenanceLock |-> Missing, schema |-> FALSE]
    BY <2>2 DEF OldRegistry, Nothing, list, held
  <2>8. Len(coins) \in Nat
    BY <2>3
  <2> QED
    BY <2>4, <2>5, <2>6, <2>7, <2>8 DEF Keys
<1> QED
  BY <1>1, <1>2, OldRegistriesAreWhole

LEMMA TypedAtFirst == Init => TypedInv
<1>1. Down \in Starting
  BY DEF Down, Starting, PCs
<1> QED
  BY <1>1, OldRegistriesAreKeys, NothingIsEmpty DEF Init, TypedInv, Down

LEMMA DownIsStarting == Down \in Starting
BY DEF Down, Starting, PCs

NeedsTarget(s) ==
  s.pc \in {"count", "total", "boot", "clean", "reset", "lock", "build", "fail",
            "add", "end"} => s.target # NoTarget

LEMMA DiesIsTyped ==
  ASSUME TypedInv, NEW p \in Processes, Dies(p)
  PROVE  /\ process' \in [Processes -> Starting]
         /\ \A q \in Processes : NeedsTarget(process'[q])
         /\ mishaps' \subseteq {"overlap", "migration", "unsaved", "killed", "cleanup"}
BY DownIsStarting DEF TypedInv, Dies, NeedsTarget, Down

LEMMA GoesIsTyped ==
  ASSUME TypedInv, NEW p \in Processes, NEW pc \in PCs, Goes(p, pc),
         NeedsTarget([process[p] EXCEPT !.pc = pc])
  PROVE  /\ process' \in [Processes -> Starting]
         /\ \A q \in Processes : NeedsTarget(process'[q])
<1>1. [process[p] EXCEPT !.pc = pc] \in Starting
  BY DEF TypedInv, Starting
<1> QED
  BY <1>1 DEF TypedInv, Goes, NeedsTarget

(* A pool of which the first coin is reserved. *)
LEMMA TailOfPool ==
  ASSUME NEW list \in Seq(Entry), list # << >>
  PROVE  /\ Tail(list) \in Seq(Entry) /\ Len(Tail(list)) = Len(list) - 1
         /\ Len(list) \in Nat \ {0}
         /\ DOMAIN list = 1 .. Len(list) /\ DOMAIN Tail(list) = 1 .. Len(list) - 1
         /\ Head(list) = list[1] /\ list[1] \in Entry
         /\ \A i \in DOMAIN Tail(list) : Tail(list)[i] = list[i + 1]
OBVIOUS

LEMMA AppendToPool ==
  ASSUME NEW list \in Seq(Entry), NEW e \in Entry
  PROVE  /\ Append(list, e) \in Seq(Entry) /\ Len(Append(list, e)) = Len(list) + 1
         /\ Len(list) \in Nat
         /\ DOMAIN list = 1 .. Len(list) /\ DOMAIN Append(list, e) = 1 .. Len(list) + 1
         /\ \A i \in DOMAIN list : Append(list, e)[i] = list[i]
         /\ Append(list, e)[Len(list) + 1] = e
OBVIOUS

(* What a reservation does to the registry. *)
LEMMA ReserveHeld ==
  ASSUME TypedInv, NEW p \in Processes, Reserve(p)
  PROVE  LET id == new.nextReservationId + 1
             held == [r \in DOMAIN new.reservations \cup {id} |->
                        IF r = id THEN {new.list[1].coin} ELSE new.reservations[r]]
         IN  /\ new' = [new EXCEPT !.list = Tail(new.list), !.count = new.count - 1,
                          !.nextReservationId = id, !.reservations = held,
                          !.expirationQueue = new.expirationQueue \cup {id}]
             /\ held \in Holdings
             /\ id \in 1 .. MaxReservations
<1> DEFINE id == new.nextReservationId + 1
           held == [r \in DOMAIN new.reservations \cup {id} |->
                      IF r = id THEN {new.list[1].coin} ELSE new.reservations[r]]
<1>1. /\ new.list \in Seq(Entry) /\ new.list # << >>
      /\ new.nextReservationId \in Nat /\ new.nextReservationId < MaxReservations
      /\ new.reservations \in Holdings
  BY DEF TypedInv, Keys, Reserve
<1>2. new.list[1].coin \in Coins /\ Head(new.list) = new.list[1]
  BY <1>1, TailOfPool DEF Entry
<1>3. id \in 1 .. MaxReservations
  BY <1>1, Distinct
<1>4. held \in Holdings
  <2>1. /\ DOMAIN new.reservations \subseteq 1 .. MaxReservations
        /\ \A r \in DOMAIN new.reservations : new.reservations[r] \subseteq Coins
    BY <1>1, HoldingsAreFunctions
  <2>2. /\ DOMAIN held = DOMAIN new.reservations \cup {id}
        /\ held = [r \in DOMAIN held |-> held[r]]
        /\ \A r \in DOMAIN held : held[r] \subseteq Coins
    BY <1>2, <2>1
  <2> HIDE DEF held, id
  <2> QED
    BY <1>3, <2>1, <2>2, HoldingsAreFunctions
<1>5. new' = [new EXCEPT !.list = Tail(new.list), !.count = new.count - 1,
                !.nextReservationId = id, !.reservations = held,
                !.expirationQueue = new.expirationQueue \cup {id}]
  BY <1>2 DEF Reserve
<1> QED
  BY <1>3, <1>4, <1>5

Added(p, c) == [coin |-> c, target |-> process[p].target, inherited |-> FALSE]

LEMMA PushedIsTyped ==
  ASSUME TypedInv, NEW p \in Processes, NEW c \in Coins, At(p, "add")
  PROVE  /\ Pushed(p, c) \in Keys
         /\ Added(p, c) \in Entry
         /\ Pushed(p, c) = [new EXCEPT
               !.list = Append(new.list, Added(p, c)),
               !.initialized = TRUE, !.schema = TRUE,
               !.count = IF new.count = Missing THEN Missing ELSE new.count + 1]
<1>1. Added(p, c) \in Entry /\ new.list \in Seq(Entry)
  BY DEF Added, Entry, TypedInv, Keys, Starting, At
<1>2. Append(new.list, Added(p, c)) \in Seq(Entry)
  BY <1>1, AppendToPool
<1>3. Pushed(p, c) = [new EXCEPT
               !.list = Append(new.list, Added(p, c)),
               !.initialized = TRUE, !.schema = TRUE,
               !.count = IF new.count = Missing THEN Missing ELSE new.count + 1]
  BY Zenon DEF Pushed, Added
<1>4. (IF new.count = Missing THEN Missing ELSE new.count + 1) \in Int \cup {Missing}
  BY DEF TypedInv, Keys
<1> HIDE DEF Added
<1>5. Pushed(p, c) \in Keys
  BY <1>2, <1>3, <1>4 DEF TypedInv, Keys
<1> QED
  BY <1>1, <1>3, <1>5

LEMMA LocksAreKeys ==
  ASSUME new \in Keys, NEW lock \in {"held", "free"}
  PROVE  /\ [new EXCEPT !.initLock = lock] \in Keys
         /\ [new EXCEPT !.maintenanceLock = lock] \in Keys
BY DEF Keys

LEMMA StatsAreKeys ==
  ASSUME new \in Keys, InitCoinStats
  PROVE  /\ new' = [new EXCEPT !.count = IF new.count = Missing THEN Len(new.list)
                                                               ELSE new.count,
                              !.schema = TRUE]
         /\ new' \in Keys /\ Len(new.list) \in Nat
<1>1. Len(new.list) \in Nat
  BY DEF Keys
<1>2. new' = [new EXCEPT !.count = IF new.count = Missing THEN Len(new.list)
                                                         ELSE new.count,
                         !.schema = TRUE]
  BY Zenon DEF InitCoinStats
<1>3. (IF new.count = Missing THEN Len(new.list) ELSE new.count) \in Int \cup {Missing}
  BY <1>1 DEF Keys
<1>4. new' \in Keys
  BY <1>2, <1>3 DEF Keys
<1> QED
  BY <1>1, <1>2, <1>4

LEMMA TypedStep ==
  ASSUME TypedInv, [Next]_vars
  PROVE  TypedInv'
<1> DEFINE Procs(f) == f \in [Processes -> Starting] /\ \A q \in Processes : NeedsTarget(f[q])
           Harm(m) == m \subseteq {"overlap", "migration", "unsaved", "killed", "cleanup"}
<1>0. TypedInv <=> /\ old \in Keys /\ new \in Keys
                   /\ saved \in Targets \cup {NoTarget, Missing}
                   /\ Procs(process) /\ Harm(mishaps)
  BY DEF TypedInv, NeedsTarget
<1>00. /\ old' \in Keys /\ new' \in Keys
       /\ saved' \in Targets \cup {NoTarget, Missing}
       /\ Procs(process') /\ Harm(mishaps')
       => TypedInv'
  BY DEF TypedInv, NeedsTarget
<1> SUFFICES /\ old' \in Keys /\ new' \in Keys
             /\ saved' \in Targets \cup {NoTarget, Missing}
             /\ Procs(process') /\ Harm(mishaps')
  BY <1>00
<1>1. CASE UNCHANGED vars
  BY <1>0, <1>1 DEF vars
<1>2. CASE LockExpires
  BY <1>0, <1>2, LocksAreKeys DEF LockExpires, RegistryOnly
<1>3. ASSUME NEW p \in Processes, Launch(p)
      PROVE  /\ old' \in Keys /\ new' \in Keys
             /\ saved' \in Targets \cup {NoTarget, Missing}
             /\ Procs(process') /\ Harm(mishaps')
  <2>1. PICK target \in Targets \cup {NoTarget}, flags \in Flags :
          process' = [process EXCEPT ![p] =
            [Down EXCEPT !.pc = "schema", !.target = target, !.flags = flags]]
    BY <1>3 DEF Launch
  <2>2. [Down EXCEPT !.pc = "schema", !.target = target, !.flags = flags] \in Starting
    BY StartupAssumption DEF Down, Starting, PCs
  <2>3. Procs(process')
    BY <1>0, <2>1, <2>2 DEF NeedsTarget, Down
  <2> QED
    BY <1>0, <1>3, <2>3 DEF Launch
<1>4. ASSUME NEW p \in Processes, CheckSchema(p)
      PROVE  /\ old' \in Keys /\ new' \in Keys
             /\ saved' \in Targets \cup {NoTarget, Missing}
             /\ Procs(process') /\ Harm(mishaps')
  <2>1. Goes(p, "migrate") \/ Goes(p, "stats")
    BY <1>4 DEF CheckSchema
  <2>2. Procs(process')
    BY <2>1, GoesIsTyped DEF NeedsTarget, PCs
  <2> QED
    BY <1>0, <1>4, <2>2 DEF CheckSchema, MigrationFails
<1>5. ASSUME NEW p \in Processes, Migrate(p)
      PROVE  /\ old' \in Keys /\ new' \in Keys
             /\ saved' \in Targets \cup {NoTarget, Missing}
             /\ Procs(process') /\ Harm(mishaps')
  <2>1. Procs(process')
    BY <1>5, GoesIsTyped DEF Migrate, NeedsTarget, PCs
  <2>2. old' \in Keys /\ new' \in Keys
    BY <1>0, <1>5, MigrationTypes DEF Migrate
  <2> QED
    BY <1>0, <1>5, <2>1, <2>2 DEF Migrate, MigrationFails
<1>6. ASSUME NEW p \in Processes, ConnectStorage(p) \/ ResetStats(p)
      PROVE  /\ old' \in Keys /\ new' \in Keys
             /\ saved' \in Targets \cup {NoTarget, Missing}
             /\ Procs(process') /\ Harm(mishaps')
  <2>1. Procs(process')
    BY <1>6, GoesIsTyped DEF ConnectStorage, ResetStats, NeedsTarget, PCs, TypedInv, At
  <2> QED
    BY <1>0, <1>6, <2>1, StatsAreKeys DEF ConnectStorage, ResetStats, RegistryOnly
<1>7. ASSUME NEW p \in Processes, CheckColdParams(p)
      PROVE  /\ old' \in Keys /\ new' \in Keys
             /\ saved' \in Targets \cup {NoTarget, Missing}
             /\ Procs(process') /\ Harm(mishaps')
  <2>1. CASE Dies(p)
    BY <1>0, <1>7, <2>1, DiesIsTyped DEF CheckColdParams
  <2>2. CASE ~Dies(p)
    <3>1. /\ process' = [process EXCEPT
               ![p].force = ForcesRescan(p),
               ![p].pc = IF process[p].target = NoTarget THEN "save" ELSE "count"]
          /\ UNCHANGED <<old, new, saved, mishaps>>
      BY <1>7, <2>2 DEF CheckColdParams
    <3>2. ForcesRescan(p) \in BOOLEAN
      BY DEF ForcesRescan, ParamsChanged, Has
    <3>3. Procs(process')
      <4> DEFINE pc == IF process[p].target = NoTarget THEN "save" ELSE "count"
                 s == [process[p] EXCEPT !.force = ForcesRescan(p), !.pc = pc]
      <4>1. pc \in PCs
        BY DEF PCs
      <4>2. process' = [process EXCEPT ![p] = s]
        BY <1>0, <3>1
      <4>3. process[p] \in Starting
        BY <1>0
      <4>4. s.pc = pc /\ s.target = process[p].target
        BY <4>3 DEF Starting
      <4>5. NeedsTarget(s)
        BY <4>4 DEF NeedsTarget
      <4> HIDE DEF pc
      <4>6. s \in Starting
        BY <3>2, <4>1, <4>3 DEF Starting
      <4> HIDE DEF s
      <4> QED
        BY <1>0, <4>2, <4>5, <4>6
    <3> QED
      BY <1>0, <3>1, <3>3
  <2> QED
    BY <2>1, <2>2
<1>8. ASSUME NEW p \in Processes,
             CheckCount(p) \/ CheckTotal(p) \/ CheckInitialized(p) \/ BeginMaintenance(p)
               \/ AcquireInitLock(p) \/ EndMaintenance(p) \/ Serve(p) \/ CleanUp(p)
      PROVE  /\ old' \in Keys /\ new' \in Keys
             /\ saved' \in Targets \cup {NoTarget, Missing}
             /\ Procs(process') /\ Harm(mishaps')
  <2>1. /\ UNCHANGED <<old, saved>>
        /\ \/ Dies(p)
           \/ /\ UNCHANGED mishaps
              /\ \E pc \in {"boot", "total", "save", "lock", "clean", "build", "fail",
                            "serve", "reset"} :
                   Goes(p, pc)
              /\ process[p].pc \notin {"access"} => process[p].target # NoTarget
              /\ process[p].pc = "access" => Goes(p, "serve")
    BY <1>8 DEF CheckCount, CheckTotal, CheckInitialized, BeginMaintenance, TypedInv,
                AcquireInitLock, EndMaintenance, Serve, CleanUp, RegistryOnly, At
  <2>2. Procs(process') /\ Harm(mishaps')
    <3>1. CASE Dies(p)
      BY <3>1, DiesIsTyped
    <3>2. CASE ~Dies(p)
      <4>1. PICK pc \in {"boot", "total", "save", "lock", "clean", "build", "fail",
                         "serve", "reset"} :
              Goes(p, pc) /\ (process[p].target # NoTarget \/ pc = "serve")
        BY <2>1, <3>2
      <4>2. pc \in PCs /\ NeedsTarget([process[p] EXCEPT !.pc = pc])
        BY <1>0, <4>1 DEF PCs, NeedsTarget, Starting
      <4> QED
        BY <1>0, <2>1, <3>2, <4>1, <4>2, GoesIsTyped
    <3> QED
      BY <3>1, <3>2
  <2>3. new' \in Keys
    <3>1. CleanUp(p) => new' \in Keys
      BY <1>0, NothingIsEmpty DEF CleanUp, CleanUpCoinRegistry, Keys
    <3>2. CASE ~CleanUp(p)
      <4>1. \/ UNCHANGED new
            \/ new' = [new EXCEPT !.maintenanceLock = "held"]
            \/ new' = [new EXCEPT !.maintenanceLock = "free"]
            \/ new' = [new EXCEPT !.initLock = "held"]
        BY <1>8, <3>2 DEF CheckCount, CheckTotal, CheckInitialized, BeginMaintenance,
                AcquireInitLock, EndMaintenance, Serve
      <4> QED
        BY <1>0, <4>1, LocksAreKeys
    <3> QED
      BY <3>1, <3>2
  <2> QED
    BY <1>0, <2>1, <2>2, <2>3
<1>9. ASSUME NEW p \in Processes, Scan(p)
      PROVE  /\ old' \in Keys /\ new' \in Keys
             /\ saved' \in Targets \cup {NoTarget, Missing}
             /\ Procs(process') /\ Harm(mishaps')
  <2>1. CASE process[p].target \in TooSmall
    <3>1. Procs(process') /\ Harm(mishaps')
      <4>1. CASE Dies(p)
        BY <4>1, DiesIsTyped
      <4>2. CASE ~Dies(p)
        <5>1. Goes(p, "fail") /\ UNCHANGED mishaps
          BY <1>9, <2>1, <4>2 DEF Scan
        <5> QED
          BY <1>0, <1>9, <5>1, GoesIsTyped DEF Scan, NeedsTarget, PCs, At
      <4> QED
        BY <4>1, <4>2
    <3>2. UNCHANGED <<old, saved>> /\ new' = [new EXCEPT !.initLock = "free"]
      BY <1>9, <2>1 DEF Scan
    <3> QED
      BY <1>0, <3>1, <3>2, LocksAreKeys
  <2>2. CASE process[p].target \notin TooSmall
    <3>1. /\ process' = [process EXCEPT ![p].pc = "add", ![p].result = Coins]
          /\ UNCHANGED <<old, new, saved, mishaps>>
      BY <1>9, <2>2 DEF Scan
    <3>2. Procs(process')
      <4> DEFINE s == [process[p] EXCEPT !.pc = "add", !.result = Coins]
      <4>1. process' = [process EXCEPT ![p] = s]
        BY <1>0, <3>1
      <4>2. process[p] \in Starting /\ process[p].target # NoTarget
        BY <1>0, <1>9 DEF Scan, At, NeedsTarget
      <4>3. s \in Starting /\ NeedsTarget(s)
        BY <4>2 DEF Starting, NeedsTarget, PCs
      <4> HIDE DEF s
      <4> QED
        BY <1>0, <4>1, <4>3
    <3> QED
      BY <1>0, <3>1, <3>2
  <2> QED
    BY <2>1, <2>2
<1>10. ASSUME NEW p \in Processes, AddChunk(p)
      PROVE  /\ old' \in Keys /\ new' \in Keys
             /\ saved' \in Targets \cup {NoTarget, Missing}
             /\ Procs(process') /\ Harm(mishaps')
  <2>1. CASE /\ new' = [new EXCEPT !.initLock = "free"]
             /\ Goes(p, IF process[p].force THEN "end" ELSE "save")
             /\ UNCHANGED mishaps
    <3>1. Procs(process')
      BY <1>0, <1>10, <2>1, GoesIsTyped DEF AddChunk, NeedsTarget, PCs, At
    <3> QED
      BY <1>0, <1>10, <2>1, <3>1, LocksAreKeys DEF AddChunk
  <2>2. CASE \E c \in process[p].result :
          /\ new' = Pushed(p, c)
          /\ IF new.count = Missing
             THEN /\ process' = [process EXCEPT ![p] = Down]
                  /\ mishaps' = mishaps \cup {"unsaved", "killed"}
             ELSE /\ process' = [process EXCEPT
                       ![p].result = @ \ {c}, ![p].added = TRUE]
                  /\ UNCHANGED mishaps
    <3>1. PICK c \in process[p].result :
          /\ new' = Pushed(p, c)
          /\ IF new.count = Missing
             THEN /\ process' = [process EXCEPT ![p] = Down]
                  /\ mishaps' = mishaps \cup {"unsaved", "killed"}
             ELSE /\ process' = [process EXCEPT
                       ![p].result = @ \ {c}, ![p].added = TRUE]
                  /\ UNCHANGED mishaps
      BY <2>2
    <3>2. c \in Coins
      BY <1>0 DEF Starting
    <3>3. new' \in Keys
      BY <1>10, <3>1, <3>2, PushedIsTyped DEF AddChunk
    <3>4. Procs(process') /\ Harm(mishaps')
      <4>1. CASE new.count = Missing
        <5>1. process' = [process EXCEPT ![p] = Down]
              /\ mishaps' = mishaps \cup {"unsaved", "killed"}
          BY <3>1, <4>1
        <5>2. NeedsTarget(Down)
          BY DEF NeedsTarget, Down
        <5>3. Procs(process')
          BY <1>0, <5>1, <5>2, DownIsStarting
        <5> QED
          BY <1>0, <5>1, <5>3
      <4>2. CASE new.count # Missing
        <5>1. process' = [process EXCEPT
                ![p].result = process[p].result \ {c}, ![p].added = TRUE]
              /\ UNCHANGED mishaps
          BY <3>1, <4>2
        <5> DEFINE s == [process[p] EXCEPT !.result = process[p].result \ {c},
                                           !.added = TRUE]
        <5>2. process' = [process EXCEPT ![p] = s]
          BY <1>0, <5>1
        <5>3. process[p] \in Starting /\ process[p].target # NoTarget
          BY <1>0, <1>10 DEF AddChunk, At, NeedsTarget
        <5>4. s \in Starting /\ NeedsTarget(s)
          BY <5>3 DEF Starting, NeedsTarget
        <5> HIDE DEF s
        <5> QED
          BY <1>0, <5>1, <5>2, <5>4
      <4> QED
        BY <4>1, <4>2
    <3> QED
      BY <1>0, <1>10, <3>3, <3>4 DEF AddChunk
  <2> QED
    BY <1>10, <2>1, <2>2 DEF AddChunk
<1>11. ASSUME NEW p \in Processes, SaveColdParams(p)
      PROVE  /\ old' \in Keys /\ new' \in Keys
             /\ saved' \in Targets \cup {NoTarget, Missing}
             /\ Procs(process') /\ Harm(mishaps')
  <2>1. [Down EXCEPT !.pc = "access", !.target = process[p].target] \in Starting
    BY <1>0 DEF Down, Starting, PCs
  <2>2. Procs(process')
    BY <1>0, <1>11, <2>1 DEF SaveColdParams, NeedsTarget, Down
  <2> QED
    BY <1>0, <1>11, <2>2 DEF SaveColdParams, Starting
<1>12. ASSUME NEW p \in Processes, Reserve(p)
      PROVE  /\ old' \in Keys /\ new' \in Keys
             /\ saved' \in Targets \cup {NoTarget, Missing}
             /\ Procs(process') /\ Harm(mishaps')
  <2>1. new.list \in Seq(Entry) /\ new.list # << >> /\ new.count \in Int
    BY <1>0, <1>12 DEF Keys, Reserve
  <2>2. new' \in Keys
    <3> DEFINE id == new.nextReservationId + 1
               held == [r \in DOMAIN new.reservations \cup {id} |->
                          IF r = id THEN {new.list[1].coin} ELSE new.reservations[r]]
               list == Tail(new.list)
               queue == new.expirationQueue \cup {id}
               count == new.count - 1
    <3>1. /\ new' = [new EXCEPT !.list = list, !.count = count,
                       !.nextReservationId = id, !.reservations = held,
                       !.expirationQueue = queue]
          /\ held \in Holdings /\ id \in 1 .. MaxReservations
      BY <1>12, ReserveHeld
    <3>2. list \in Seq(Entry) /\ count \in Int
      BY <2>1, TailOfPool
    <3>3. id \in Nat
      BY <1>0 DEF Keys
    <3>4. queue \in SUBSET Nat
      BY <1>0, <3>3 DEF Keys
    <3> HIDE DEF id, held, list, queue, count
    <3> QED
      BY <1>0, <3>1, <3>2, <3>3, <3>4 DEF Keys
  <2> QED
    BY <1>0, <1>12, <2>2 DEF Reserve, RegistryOnly
<1>13. ASSUME NEW p \in Processes, Crash(p)
      PROVE  /\ old' \in Keys /\ new' \in Keys
             /\ saved' \in Targets \cup {NoTarget, Missing}
             /\ Procs(process') /\ Harm(mishaps')
  BY <1>0, <1>13, DownIsStarting DEF Crash, NeedsTarget, Down
<1> HIDE DEF Procs, Harm
<1> QED
  BY <1>1, <1>2, <1>3, <1>4, <1>5, <1>6, <1>7, <1>8, <1>9, <1>10, <1>11, <1>12, <1>13
     DEF Next, StartStep

(* Types. *)
LEMMA TypedInvIsTypeOK == TypedInv => TypeOK
<1>1. ASSUME NEW ns \in Keys
      PROVE  Namespace(ns)
  <2>1. ns.reservations \in Holdings /\ DOMAIN ns = KeyNames
    BY DEF Keys, KeyNames
  <2>2. \A r \in DOMAIN ns.reservations :
          r \in 1 .. MaxReservations /\ ns.reservations[r] \subseteq Coins
    BY <2>1, HoldingsAreFunctions
  <2> QED
    BY <2>1, <2>2, NothingIsEmpty DEF Namespace, Keys
<1> QED
  BY <1>1 DEF TypedInv, TypeOK, Starting

-----------------------------------------------------------------------------
(* Locks. *)
LEMMA LockInvAtFirst == Init => LockInv
<1> SUFFICES ASSUME Init PROVE LockInv
  OBVIOUS
<1>1. new = Nothing /\ old \in OldRegistries
      /\ \A p \in Processes : process[p] = Down
  BY DEF Init
<1>2. Bare(new) /\ AllInherited(new.list) /\ new.initLock = Missing
      /\ new.maintenanceLock = Missing
  BY <1>1 DEF Bare, Nothing, AllInherited
<1>3. \A p \in Processes : ~InInitSection(p)
  BY <1>1 DEF InInitSection, Down
<1> QED
  BY <1>1, <1>2, <1>3, OldRegistriesAreKeys, Distinct DEF LockInv, LocksAreReleased

(* One step of a process: what the others do is not touched. *)
LEMMA OthersStay ==
  ASSUME TypedInv, NEW p \in Processes, StartStep(p) \/ Crash(p) \/ Launch(p) \/ Reserve(p)
  PROVE  /\ DOMAIN process' = Processes
         /\ \A q \in Processes : q # p => process'[q] = process[q]
BY DEF TypedInv, StartStep, Crash, Launch, Reserve, CheckSchema, Migrate, ConnectStorage,
       CheckColdParams, CheckCount, CheckTotal, CheckInitialized, BeginMaintenance, CleanUp,
       ResetStats, AcquireInitLock, Scan, AddChunk, EndMaintenance, SaveColdParams, Serve,
       Goes, Dies

(* Where a process is after its step, and with what. *)
LEMMA GoesTo ==
  ASSUME TypedInv, NEW p \in Processes, NEW pc, Goes(p, pc)
  PROVE  /\ process'[p].pc = pc
         /\ process'[p].target = process[p].target /\ process'[p].flags = process[p].flags
         /\ process'[p].force = process[p].force /\ process'[p].result = process[p].result
         /\ process'[p].added = process[p].added
         /\ \A q \in Processes : q # p => process'[q] = process[q]
BY DEF TypedInv, Goes, Starting

LEMMA DiesTo ==
  ASSUME TypedInv, NEW p \in Processes, Dies(p)
  PROVE  /\ process'[p] = Down
         /\ \A q \in Processes : q # p => process'[q] = process[q]
         /\ mishaps \subseteq mishaps'
         /\ process[p].added => "unsaved" \in mishaps'
         /\ ~process[p].added => UNCHANGED mishaps
BY DEF TypedInv, Dies

LEMMA ParamsTo ==
  ASSUME TypedInv, NEW p \in Processes, CheckColdParams(p)
  PROVE  \/ Dies(p) /\ ParamsChanged(p)
         \/ /\ process'[p].force = ForcesRescan(p)
            /\ process'[p].pc = IF process[p].target = NoTarget THEN "save" ELSE "count"
            /\ process'[p].target = process[p].target
            /\ process'[p].flags = process[p].flags
            /\ process'[p].result = process[p].result
            /\ process'[p].added = process[p].added
            /\ UNCHANGED mishaps
<1>1. CASE ParamsChanged(p) /\ ~Has(p, "allow-reinit")
  BY <1>1 DEF CheckColdParams
<1>2. CASE ~(ParamsChanged(p) /\ ~Has(p, "allow-reinit"))
  <2> DEFINE pc == IF process[p].target = NoTarget THEN "save" ELSE "count"
             force == ForcesRescan(p)
  <2>1. /\ process' = [process EXCEPT ![p].force = force, ![p].pc = pc]
        /\ UNCHANGED mishaps
    BY <1>2 DEF CheckColdParams
  <2> HIDE DEF pc, force
  <2>2. /\ process'[p].force = force /\ process'[p].pc = pc
        /\ process'[p].target = process[p].target
        /\ process'[p].flags = process[p].flags
        /\ process'[p].result = process[p].result
        /\ process'[p].added = process[p].added
    BY <2>1 DEF TypedInv, Starting
  <2> QED
    BY <2>1, <2>2 DEF pc, force
<1> QED
  BY <1>1, <1>2

LEMMA SavedTo ==
  ASSUME TypedInv, NEW p \in Processes, SaveColdParams(p)
  PROVE  process'[p] = [Down EXCEPT !.pc = "access", !.target = process[p].target]
         /\ process'[p].pc = "access" /\ process'[p].target = process[p].target
         /\ process'[p].added = FALSE
BY DEF TypedInv, SaveColdParams, Down

LEMMA PushedTo ==
  ASSUME TypedInv, NEW p \in Processes, NEW c \in Coins, At(p, "add")
  PROVE  /\ Pushed(p, c).list = Append(new.list, Added(p, c))
         /\ Pushed(p, c).initialized = TRUE /\ Pushed(p, c).schema = TRUE
         /\ Pushed(p, c).count = IF new.count = Missing THEN Missing ELSE new.count + 1
         /\ Pushed(p, c).nextReservationId = new.nextReservationId
         /\ Pushed(p, c).reservations = new.reservations
         /\ Pushed(p, c).expirationQueue = new.expirationQueue
         /\ Pushed(p, c).initLock = new.initLock
         /\ Pushed(p, c).maintenanceLock = new.maintenanceLock
<1> DEFINE list == Append(new.list, Added(p, c))
           count == IF new.count = Missing THEN Missing ELSE new.count + 1
<1>1. Pushed(p, c) = [new EXCEPT !.list = list, !.initialized = TRUE, !.schema = TRUE,
                                 !.count = count]
  BY PushedIsTyped
<1>2. new \in Keys
  BY DEF TypedInv
<1> HIDE DEF list, count
<1>3. /\ Pushed(p, c).list = list
      /\ Pushed(p, c).initialized = TRUE /\ Pushed(p, c).schema = TRUE
      /\ Pushed(p, c).count = count
      /\ Pushed(p, c).nextReservationId = new.nextReservationId
      /\ Pushed(p, c).reservations = new.reservations
      /\ Pushed(p, c).expirationQueue = new.expirationQueue
      /\ Pushed(p, c).initLock = new.initLock
      /\ Pushed(p, c).maintenanceLock = new.maintenanceLock
  BY <1>1, <1>2 DEF Keys
<1> QED
  BY <1>3 DEF list, count

(* The pool, the count and everything else but the locks. *)
PoolStays ==
  /\ new'.list = new.list /\ new'.count = new.count
  /\ new'.initialized = new.initialized /\ new'.schema = new.schema
  /\ new'.nextReservationId = new.nextReservationId
  /\ new'.reservations = new.reservations
  /\ new'.expirationQueue = new.expirationQueue

LEMMA LockChanges ==
  ASSUME new \in Keys, NEW lock
  PROVE  /\ new' = [new EXCEPT !.initLock = lock] =>
              /\ PoolStays /\ new'.initLock = lock
              /\ new'.maintenanceLock = new.maintenanceLock
         /\ new' = [new EXCEPT !.maintenanceLock = lock] =>
              /\ PoolStays /\ new'.maintenanceLock = lock
              /\ new'.initLock = new.initLock
BY DEF Keys, PoolStays

LEMMA LockInvStep ==
  ASSUME TypedInv, LockInv, [Next]_vars
  PROVE  LockInv'
<1> DEFINE Held == "killed" \in mishaps \/
             /\ new.initLock = "held" =>
                  (\E p \in Processes : InInitSection(p)) \/ AllInherited(new.list)
             /\ new.maintenanceLock = "held" => \E p \in Processes : InMaintenance(p)
           First == new.initLock = Missing =>
                      AllInherited(new.list) /\ \A p \in Processes : ~InInitSection(p)
           Old == AllInherited(old.list) /\ old.maintenanceLock = Missing /\ ~old.schema
           Empty == ~new.schema => Bare(new)
<1>0. /\ LockInv <=> Old /\ Empty /\ First /\ Held
      /\ LockInv' <=> Old' /\ Empty' /\ First' /\ Held'
  BY DEF LockInv, LocksAreReleased, AllInherited
<1>00. Old /\ Empty /\ First /\ Held
  BY <1>0
<1> SUFFICES Old' /\ Empty' /\ First' /\ Held'
  BY <1>0
<1>k. old \in Keys /\ new \in Keys
  BY DEF TypedInv
<1>p. PoolStays => (AllInherited(new.list) <=> AllInherited(new'.list))
                   /\ (Bare(new) <=> Bare(new'))
  BY DEF PoolStays, Bare
<1>1. CASE UNCHANGED vars
  BY <1>1, <1>00 DEF vars, InInitSection, InMaintenance
<1>2. CASE LockExpires
  <2>1. UNCHANGED <<old, process, mishaps>>
    BY <1>2 DEF LockExpires, RegistryOnly
  <2>2. PoolStays
        /\ \/ /\ new'.initLock = "free" /\ new'.maintenanceLock = new.maintenanceLock
              /\ \A p \in Processes : ~InInitSection(p)
           \/ new'.maintenanceLock = "free" /\ new'.initLock = new.initLock
    BY <1>2, <1>k, LockChanges DEF LockExpires
  <2> QED
    BY <1>00, <1>p, <2>1, <2>2, Distinct DEF PoolStays, InInitSection, InMaintenance
<1>3. ASSUME NEW p \in Processes, Launch(p)
      PROVE  Old' /\ Empty' /\ First' /\ Held'
  <2>1. process[p].pc = "down" /\ process'[p].pc = "schema"
    BY <1>3 DEF Launch, At, TypedInv, Down
  <2>2. UNCHANGED <<old, new>> /\ mishaps \subseteq mishaps'
    BY <1>3 DEF Launch
  <2> QED
    BY <1>00, <1>3, <2>1, <2>2, OthersStay DEF InInitSection, InMaintenance
<1>4. ASSUME NEW p \in Processes, CheckSchema(p)
      PROVE  Old' /\ Empty' /\ First' /\ Held'
  <2>1. process[p].pc = "schema" /\ process'[p].pc \in {"migrate", "stats"}
    BY <1>4, GoesTo DEF CheckSchema, At
  <2>2. UNCHANGED <<old, new>> /\ mishaps \subseteq mishaps'
    BY <1>4 DEF CheckSchema, MigrationFails
  <2> QED
    BY <1>00, <1>4, <2>1, <2>2, OthersStay DEF InInitSection, InMaintenance, StartStep
<1>5. ASSUME NEW p \in Processes, Migrate(p)
      PROVE  Old' /\ Empty' /\ First' /\ Held'
  <2>1. process[p].pc = "migrate" /\ process'[p].pc = "stats"
    BY <1>5, GoesTo DEF Migrate, At
  <2>2. mishaps \subseteq mishaps' /\ (MigrateKeys \/ UNCHANGED <<old, new>>)
    BY <1>5 DEF Migrate, MigrationFails
  <2>3. CASE UNCHANGED <<old, new>>
    BY <1>00, <1>5, <2>1, <2>2, <2>3, OthersStay DEF InInitSection, InMaintenance, StartStep
  <2>4. CASE MigrateKeys
    <3>1. /\ new'.schema = TRUE /\ old'.schema = old.schema
          /\ \/ new'.list = new.list /\ old'.list = old.list
             \/ new'.list = old.list /\ old'.list = << >>
          /\ new'.maintenanceLock = new.maintenanceLock /\ old'.maintenanceLock = Missing
          /\ \/ new'.initLock = new.initLock
             \/ new.initLock = Missing
      BY <1>00, <1>k, <2>4, Migrated DEF Renamed, Nothing, KeySuffixes
    <3>2. AllInherited(new.list) => AllInherited(new'.list)
      BY <1>00, <3>1
    <3>3. ~AllInherited(new.list) => new'.list = new.list
      <4>1. CASE new.list = << >>
        BY <4>1 DEF AllInherited
      <4>2. CASE new.list # << >>
        BY <1>k, <2>4, <4>2, Migrated DEF Renamed, Nothing
      <4> QED
        BY <4>1, <4>2
    <3>4. Old'
      BY <1>00, <3>1 DEF AllInherited
    <3>5. \A q \in Processes : /\ InInitSection(q)' <=> InInitSection(q)
                               /\ InMaintenance(q)' <=> InMaintenance(q)
      BY <1>5, <2>1, OthersStay DEF InInitSection, InMaintenance, StartStep
    <3> HIDE DEF Old
    <3> QED
      BY <1>00, <2>2, <3>1, <3>2, <3>3, <3>4, <3>5
  <2> QED
    BY <2>2, <2>3, <2>4
<1>6. ASSUME NEW p \in Processes, ConnectStorage(p) \/ ResetStats(p)
      PROVE  Old' /\ Empty' /\ First' /\ Held'
  <2>1. \/ process[p].pc = "stats" /\ process'[p].pc = "params"
        \/ /\ process[p].pc = "reset" /\ process'[p].pc = "lock"
           /\ process'[p].force = process[p].force
    BY <1>6, GoesTo DEF ConnectStorage, ResetStats, At
  <2>2. UNCHANGED <<old, mishaps>> /\ InitCoinStats
    BY <1>6 DEF ConnectStorage, ResetStats, RegistryOnly
  <2>3. /\ new'.schema = TRUE /\ new'.list = new.list
        /\ new'.initLock = new.initLock /\ new'.maintenanceLock = new.maintenanceLock
    <3>1. PICK n : new' = [new EXCEPT !.count = n, !.schema = TRUE]
      BY <1>k, <2>2, StatsAreKeys
    <3> QED
      BY <1>k, <3>1 DEF Keys
  <2>4. \A q \in Processes : /\ InInitSection(q)' <=> InInitSection(q)
                             /\ InMaintenance(q)' <=> InMaintenance(q)
    BY <1>6, <2>1, OthersStay DEF InInitSection, InMaintenance, StartStep
  <2> QED
    BY <1>00, <2>2, <2>3, <2>4
<1>7. ASSUME NEW p \in Processes,
             CheckColdParams(p) \/ CheckCount(p) \/ CheckTotal(p) \/ CheckInitialized(p)
               \/ SaveColdParams(p) \/ Serve(p)
      PROVE  Old' /\ Empty' /\ First' /\ Held'
  <2>1. /\ process[p].pc \in {"params", "count", "total", "boot", "save", "access"}
        /\ process'[p].pc \notin {"build", "add"}
        /\ process[p].pc = "boot" => ~process[p].force
    <3>1. CASE CheckColdParams(p) \/ SaveColdParams(p)
      <4>1. Down.pc = "down"
        BY DEF Down
      <4>2. CASE CheckColdParams(p)
        <5>1. process[p].pc = "params"
          BY <4>2 DEF CheckColdParams, At
        <5>2. process'[p].pc \in {"down", "save", "count"}
          BY <4>1, <4>2, ParamsTo, DiesTo
        <5> QED
          BY <5>1, <5>2
      <4>3. CASE SaveColdParams(p)
        <5>1. process[p].pc = "save" /\ process'[p].pc = "access"
          BY <4>3, SavedTo DEF SaveColdParams, At
        <5> QED
          BY <5>1
      <4> QED
        BY <3>1, <4>2, <4>3
    <3>2. CASE CheckCount(p) \/ CheckTotal(p) \/ CheckInitialized(p) \/ Serve(p)
      BY <3>2, GoesTo, DiesTo DEF CheckCount, CheckTotal, CheckInitialized, Serve, At, Down
    <3> QED
      BY <1>7, <3>1, <3>2
  <2>2. UNCHANGED <<old, new>> /\ mishaps \subseteq mishaps'
    BY <1>7, DiesTo DEF CheckColdParams, CheckCount, CheckTotal, CheckInitialized,
          SaveColdParams, Serve, RegistryOnly
  <2>3. \A q \in Processes : InInitSection(q)' <=> InInitSection(q)
    BY <1>7, <2>1, OthersStay DEF InInitSection, StartStep
  <2>4. \A q \in Processes : InMaintenance(q) => InMaintenance(q)'
    BY <1>7, <2>1, OthersStay DEF InMaintenance, StartStep
  <2> QED
    BY <1>00, <2>2, <2>3, <2>4
<1>8. ASSUME NEW p \in Processes, BeginMaintenance(p)
      PROVE  Old' /\ Empty' /\ First' /\ Held'
  <2>1. process[p].pc = "boot" /\ process[p].force
        /\ process'[p].pc \in {"clean", "down"}
    BY <1>8, GoesTo, DiesTo DEF BeginMaintenance, At, Down
  <2>2. UNCHANGED old /\ mishaps \subseteq mishaps'
    BY <1>8, DiesTo DEF BeginMaintenance
  <2>3. PoolStays /\ new'.initLock = new.initLock
        /\ \/ new'.maintenanceLock = new.maintenanceLock
           \/ process'[p].pc = "clean" /\ process'[p].force
    BY <1>8, <1>k, LockChanges, GoesTo DEF BeginMaintenance, PoolStays
  <2>4. /\ \A q \in Processes : InInitSection(q)' <=> InInitSection(q)
        /\ \A q \in Processes : InMaintenance(q) => InMaintenance(q)'
    BY <1>8, <2>1, OthersStay DEF InInitSection, InMaintenance, StartStep
  <2>5. process'[p].pc = "clean" /\ process'[p].force => InMaintenance(p)'
    BY DEF InMaintenance
  <2> QED
    BY <1>00, <1>p, <2>2, <2>3, <2>4, <2>5 DEF PoolStays
<1>9. ASSUME NEW p \in Processes, CleanUp(p)
      PROVE  Old' /\ Empty' /\ First' /\ Held'
  <2>1. process[p].pc = "clean" /\ process'[p].pc = "reset"
        /\ process'[p].force = process[p].force
    BY <1>9, GoesTo DEF CleanUp, At
  <2>2. UNCHANGED <<old, mishaps>>
    BY <1>9 DEF CleanUp, RegistryOnly
  <2>3. Bare(new') /\ new'.initLock = new.initLock
        /\ new'.maintenanceLock = new.maintenanceLock
    BY <1>9 DEF CleanUp, CleanUpCoinRegistry, Nothing, Bare
  <2>4. AllInherited(new'.list)
    BY <2>3 DEF Bare, AllInherited
  <2>5. \A q \in Processes : /\ InInitSection(q)' <=> InInitSection(q)
                             /\ InMaintenance(q)' <=> InMaintenance(q)
    BY <1>9, <2>1, OthersStay DEF InInitSection, InMaintenance, StartStep
  <2> QED
    BY <1>00, <2>2, <2>3, <2>4, <2>5
<1>10. ASSUME NEW p \in Processes, AcquireInitLock(p)
      PROVE  Old' /\ Empty' /\ First' /\ Held'
  <2>1. process[p].pc = "lock"
        /\ \/ process'[p].pc \in {"build", "fail"} /\ process'[p].force = process[p].force
           \/ process'[p].pc = "down" /\ ~process[p].force
    BY <1>10, GoesTo, DiesTo DEF AcquireInitLock, At, Down
  <2>2. UNCHANGED old /\ mishaps \subseteq mishaps'
    BY <1>10, DiesTo DEF AcquireInitLock
  <2>3. PoolStays /\ new'.maintenanceLock = new.maintenanceLock /\ new'.initLock = "held"
        /\ (new.initLock = "held" \/ process'[p].pc = "build")
    BY <1>10, <1>k, LockChanges, GoesTo DEF AcquireInitLock, PoolStays
  <2>4. /\ \A q \in Processes : InInitSection(q) => InInitSection(q)'
        /\ \A q \in Processes : InMaintenance(q) => InMaintenance(q)'
        /\ process'[p].pc = "build" => InInitSection(p)'
    BY <1>10, <2>1, OthersStay DEF InInitSection, InMaintenance, StartStep
  <2> QED
    BY <1>00, <1>p, <2>2, <2>3, <2>4, Distinct DEF PoolStays
<1>11. ASSUME NEW p \in Processes, Scan(p)
      PROVE  Old' /\ Empty' /\ First' /\ Held'
  <2>1. /\ process[p].pc = "build"
        /\ \/ /\ process'[p].pc = "add" /\ process'[p].force = process[p].force
              /\ UNCHANGED <<new, mishaps>>
           \/ /\ process'[p].pc = "fail" /\ process'[p].force = process[p].force
              /\ new' = [new EXCEPT !.initLock = "free"] /\ UNCHANGED mishaps
           \/ /\ process'[p].pc = "down" /\ ~process[p].force
              /\ new' = [new EXCEPT !.initLock = "free"] /\ mishaps \subseteq mishaps'
    BY <1>11, GoesTo, DiesTo DEF Scan, At, Down, TypedInv, Starting
  <2>2. UNCHANGED old
    BY <1>11 DEF Scan
  <2>3. PoolStays /\ new'.maintenanceLock = new.maintenanceLock
        /\ \/ UNCHANGED new /\ process'[p].pc = "add"
           \/ new'.initLock = "free"
    BY <1>k, <2>1, LockChanges DEF PoolStays
  <2>4. /\ \A q \in Processes : InMaintenance(q) => InMaintenance(q)'
        /\ process'[p].pc = "add" =>
             \A q \in Processes : InInitSection(q)' <=> InInitSection(q)
    BY <1>11, <2>1, OthersStay DEF InInitSection, InMaintenance, StartStep
  <2> QED
    BY <1>00, <1>p, <2>1, <2>2, <2>3, <2>4, Distinct DEF PoolStays
<1>12. ASSUME NEW p \in Processes, AddChunk(p)
      PROVE  Old' /\ Empty' /\ First' /\ Held'
  <2>1. CASE /\ new' = [new EXCEPT !.initLock = "free"]
             /\ Goes(p, IF process[p].force THEN "end" ELSE "save")
             /\ UNCHANGED mishaps
    <3>1. PoolStays /\ new'.maintenanceLock = new.maintenanceLock /\ new'.initLock = "free"
      BY <1>k, <2>1, LockChanges
    <3>2. /\ process'[p].pc = IF process[p].force THEN "end" ELSE "save"
          /\ process'[p].force = process[p].force
      BY <2>1, GoesTo
    <3>3. \A q \in Processes : InMaintenance(q) => InMaintenance(q)'
      BY <1>12, <3>2, OthersStay DEF InMaintenance, StartStep
    <3> QED
      BY <1>00, <1>12, <1>p, <2>1, <3>1, <3>3, Distinct DEF PoolStays, AddChunk
  <2>2. CASE \E c \in process[p].result :
          /\ new' = Pushed(p, c)
          /\ IF new.count = Missing
             THEN /\ process' = [process EXCEPT ![p] = Down]
                  /\ mishaps' = mishaps \cup {"unsaved", "killed"}
             ELSE /\ process' = [process EXCEPT
                       ![p].result = @ \ {c}, ![p].added = TRUE]
                  /\ UNCHANGED mishaps
    <3>1. PICK c \in process[p].result :
          /\ new' = Pushed(p, c)
          /\ IF new.count = Missing
             THEN /\ process' = [process EXCEPT ![p] = Down]
                  /\ mishaps' = mishaps \cup {"unsaved", "killed"}
             ELSE /\ process' = [process EXCEPT
                       ![p].result = @ \ {c}, ![p].added = TRUE]
                  /\ UNCHANGED mishaps
      BY <2>2
    <3>2. c \in Coins
      BY DEF TypedInv, Starting
    <3>3. /\ new'.schema = TRUE /\ new'.initLock = new.initLock
          /\ new'.maintenanceLock = new.maintenanceLock
      BY <1>12, <3>1, <3>2, PushedTo DEF AddChunk
    <3>4. InInitSection(p)
      BY <1>12 DEF AddChunk, At, InInitSection
    <3>5. "killed" \in mishaps'
          \/ /\ UNCHANGED mishaps
             /\ \A q \in Processes : /\ InInitSection(q)' <=> InInitSection(q)
                                     /\ InMaintenance(q)' <=> InMaintenance(q)
      BY <1>12, <3>1, OthersStay DEF InInitSection, InMaintenance, StartStep, TypedInv, Starting
    <3> QED
      BY <1>00, <1>12, <3>3, <3>4, <3>5 DEF AddChunk
  <2> QED
    BY <1>12, <2>1, <2>2 DEF AddChunk
<1>13. ASSUME NEW p \in Processes, EndMaintenance(p)
      PROVE  Old' /\ Empty' /\ First' /\ Held'
  <2>1. process[p].pc \in {"end", "fail"} /\ process'[p].pc \in {"save", "down"}
    BY <1>13, GoesTo, DiesTo DEF EndMaintenance, At, Down
  <2>2. UNCHANGED old /\ mishaps \subseteq mishaps'
    BY <1>13, DiesTo DEF EndMaintenance
  <2>3. PoolStays /\ new'.initLock = new.initLock /\ new'.maintenanceLock = "free"
    BY <1>13, <1>k, LockChanges DEF EndMaintenance
  <2>4. \A q \in Processes : InInitSection(q)' <=> InInitSection(q)
    BY <1>13, <2>1, OthersStay DEF InInitSection, StartStep
  <2> QED
    BY <1>00, <1>p, <2>2, <2>3, <2>4 DEF PoolStays
<1>14. ASSUME NEW p \in Processes, Reserve(p)
      PROVE  Old' /\ Empty' /\ First' /\ Held'
  <2>1. UNCHANGED <<old, process, mishaps>>
    BY <1>14 DEF Reserve, RegistryOnly
  <2>2. /\ new'.list = Tail(new.list) /\ new'.schema = new.schema
        /\ new'.initLock = new.initLock /\ new'.maintenanceLock = new.maintenanceLock
    BY <1>14, <1>k DEF Reserve, Keys
  <2>3. new.list \in Seq(Entry) /\ new.list # << >>
    BY <1>14, <1>k DEF Reserve, Keys
  <2>4. AllInherited(new.list) => AllInherited(new'.list)
    BY <2>2, <2>3, TailOfPool DEF AllInherited
  <2>5. new.schema
    BY <1>00, <2>3 DEF Bare
  <2> QED
    BY <1>00, <2>1, <2>2, <2>4, <2>5 DEF InInitSection, InMaintenance
<1>15. ASSUME NEW p \in Processes, Crash(p)
      PROVE  Old' /\ Empty' /\ First' /\ Held'
  <2>1. UNCHANGED <<old, new>> /\ "killed" \in mishaps' /\ process'[p] = Down
    BY <1>15 DEF Crash, TypedInv
  <2> QED
    BY <1>00, <1>15, <2>1, OthersStay DEF InInitSection, Down
<1> HIDE DEF Old, Empty, First, Held
<1> QED
  BY <1>1, <1>2, <1>3, <1>4, <1>5, <1>6, <1>7, <1>8, <1>9, <1>10, <1>11, <1>12, <1>13, <1>14,
     <1>15 DEF Next, StartStep

(* From where to where a step of a start leads. *)
LEMMA PcMoves ==
  ASSUME TypedInv, NEW p \in Processes
  PROVE  /\ Launch(p) => process[p].pc = "down" /\ process'[p].pc = "schema"
         /\ CheckSchema(p) => /\ process[p].pc = "schema"
                              /\ process'[p].pc \in {"migrate", "stats"}
         /\ Migrate(p) => process[p].pc = "migrate" /\ process'[p].pc = "stats"
         /\ ConnectStorage(p) => process[p].pc = "stats" /\ process'[p].pc = "params"
         /\ CheckColdParams(p) => /\ process[p].pc = "params"
                                  /\ process'[p].pc \in {"down", "save", "count"}
         /\ CheckCount(p) => process[p].pc = "count" /\ process'[p].pc \in {"boot", "total"}
         /\ CheckTotal(p) => process[p].pc = "total" /\ process'[p].pc \in {"boot", "down"}
         /\ CheckInitialized(p) => /\ process[p].pc = "boot"
                                   /\ process'[p].pc \in {"save", "lock"}
         /\ BeginMaintenance(p) => /\ process[p].pc = "boot"
                                   /\ process'[p].pc \in {"clean", "down"}
         /\ CleanUp(p) => process[p].pc = "clean" /\ process'[p].pc = "reset"
         /\ ResetStats(p) => process[p].pc = "reset" /\ process'[p].pc = "lock"
         /\ AcquireInitLock(p) => /\ process[p].pc = "lock"
                                  /\ process'[p].pc \in {"build", "fail", "down"}
         /\ Scan(p) => /\ process[p].pc = "build"
                       /\ process'[p].pc \in {"add", "fail", "down"}
         /\ AddChunk(p) => /\ process[p].pc = "add"
                           /\ process'[p].pc \in {"add", "end", "save", "down"}
         /\ EndMaintenance(p) => /\ process[p].pc \in {"end", "fail"}
                                 /\ process'[p].pc \in {"save", "down"}
         /\ SaveColdParams(p) => process[p].pc = "save" /\ process'[p].pc = "access"
         /\ Serve(p) => process[p].pc = "access" /\ process'[p].pc \in {"serve", "down"}
         /\ Crash(p) => process[p].pc # "down" /\ process'[p].pc = "down"
<1>0. Down.pc = "down"
  BY DEF Down
<1>1. Launch(p) => process[p].pc = "down" /\ process'[p].pc = "schema"
  BY DEF Launch, At, TypedInv, Down
<1>2. CheckSchema(p) => process[p].pc = "schema" /\ process'[p].pc \in {"migrate", "stats"}
  BY GoesTo DEF CheckSchema, At
<1>3. Migrate(p) => process[p].pc = "migrate" /\ process'[p].pc = "stats"
  BY GoesTo DEF Migrate, At
<1>4. /\ ConnectStorage(p) => process[p].pc = "stats" /\ process'[p].pc = "params"
      /\ CleanUp(p) => process[p].pc = "clean" /\ process'[p].pc = "reset"
      /\ ResetStats(p) => process[p].pc = "reset" /\ process'[p].pc = "lock"
  BY GoesTo DEF ConnectStorage, CleanUp, ResetStats, At
<1>5. CheckColdParams(p) => /\ process[p].pc = "params"
                            /\ process'[p].pc \in {"down", "save", "count"}
  BY <1>0, ParamsTo, DiesTo DEF CheckColdParams, At
<1>6. /\ CheckCount(p) => process[p].pc = "count" /\ process'[p].pc \in {"boot", "total"}
      /\ CheckTotal(p) => process[p].pc = "total" /\ process'[p].pc \in {"boot", "down"}
      /\ CheckInitialized(p) => process[p].pc = "boot" /\ process'[p].pc \in {"save", "lock"}
  BY <1>0, GoesTo, DiesTo DEF CheckCount, CheckTotal, CheckInitialized, At
<1>7. /\ BeginMaintenance(p) => /\ process[p].pc = "boot"
                                /\ process'[p].pc \in {"clean", "down"}
      /\ AcquireInitLock(p) => /\ process[p].pc = "lock"
                               /\ process'[p].pc \in {"build", "fail", "down"}
  BY <1>0, GoesTo, DiesTo DEF BeginMaintenance, AcquireInitLock, At
<1>8. Scan(p) => process[p].pc = "build" /\ process'[p].pc \in {"add", "fail", "down"}
  <2>1. CASE /\ Scan(p) /\ process[p].target \in TooSmall
    BY <1>0, <2>1, GoesTo, DiesTo DEF Scan, At
  <2>2. CASE /\ Scan(p) /\ process[p].target \notin TooSmall
    BY <2>2 DEF Scan, At, TypedInv, Starting
  <2> QED
    BY <2>1, <2>2
<1>9. AddChunk(p) => process[p].pc = "add"
                     /\ process'[p].pc \in {"add", "end", "save", "down"}
  <2> SUFFICES ASSUME AddChunk(p)
               PROVE  process'[p].pc \in {"add", "end", "save", "down"}
    BY DEF AddChunk, At
  <2>1. CASE Goes(p, IF process[p].force THEN "end" ELSE "save")
    <3>1. process'[p].pc = IF process[p].force THEN "end" ELSE "save"
      BY <2>1, GoesTo
    <3> QED
      BY <3>1
  <2>2. CASE \E c \in process[p].result :
               process' = [process EXCEPT ![p].result = @ \ {c}, ![p].added = TRUE]
    <3>1. PICK c \in process[p].result :
            process' = [process EXCEPT ![p].result = process[p].result \ {c}, ![p].added = TRUE]
      BY <2>2
    <3>2. process'[p].pc = process[p].pc
      BY <3>1 DEF TypedInv, Starting
    <3> QED
      BY <3>2 DEF AddChunk, At
  <2>3. CASE process' = [process EXCEPT ![p] = Down]
    BY <1>0, <2>3 DEF TypedInv
  <2> QED
    BY <2>1, <2>2, <2>3 DEF AddChunk
<1>10. EndMaintenance(p) => /\ process[p].pc \in {"end", "fail"}
                            /\ process'[p].pc \in {"save", "down"}
  BY <1>0, GoesTo, DiesTo DEF EndMaintenance, At
<1>11. SaveColdParams(p) => process[p].pc = "save" /\ process'[p].pc = "access"
  BY SavedTo DEF SaveColdParams, At
<1>12. Serve(p) => process[p].pc = "access" /\ process'[p].pc \in {"serve", "down"}
  BY <1>0, GoesTo, DiesTo DEF Serve, At
<1>13. Crash(p) => process[p].pc # "down" /\ process'[p].pc = "down"
  BY <1>0 DEF Crash, At, TypedInv
<1> QED
  BY <1>1, <1>2, <1>3, <1>4, <1>5, <1>6, <1>7, <1>8, <1>9, <1>10, <1>11, <1>12, <1>13

(* What goes wrong is remembered. *)
LEMMA MishapsStay ==
  ASSUME TypedInv, [Next]_vars
  PROVE  mishaps \subseteq mishaps'
<1>1. \A p \in Processes : Dies(p) => mishaps \subseteq mishaps'
  BY DEF Dies
<1>2. ASSUME NEW p \in Processes, StartStep(p)
      PROVE  mishaps \subseteq mishaps'
  BY <1>1, <1>2 DEF StartStep, CheckSchema, MigrationFails, Migrate, ConnectStorage, CheckColdParams,
        CheckCount, CheckTotal, CheckInitialized, BeginMaintenance, CleanUp, ResetStats,
        AcquireInitLock, Scan, AddChunk, EndMaintenance, SaveColdParams, Serve, RegistryOnly
<1> QED
  BY <1>2 DEF Next, vars, LockExpires, RegistryOnly, Launch, Reserve, Crash

(* The schema version is deleted by a cleanup only. *)
LEMMA SchemaStays ==
  ASSUME TypedInv, [Next]_vars, new.schema
  PROVE  new'.schema \/ \E p \in Processes : CleanUp(p)
<1>0. new \in Keys /\ old \in Keys
  BY DEF TypedInv
<1>1. ASSUME NEW p \in Processes, StartStep(p), ~CleanUp(p)
      PROVE  new'.schema
  <2>1. CASE AddChunk(p)
    <3>1. new' = [new EXCEPT !.initLock = "free"] => new'.schema
      BY <1>0, LockChanges DEF PoolStays
    <3>2. ASSUME NEW c \in process[p].result, new' = Pushed(p, c)
          PROVE  new'.schema
      <4>1. c \in Coins
        BY DEF TypedInv, Starting
      <4> QED
        BY <2>1, <3>2, <4>1, PushedTo DEF AddChunk
    <3> QED
      BY <2>1, <3>1, <3>2 DEF AddChunk
  <2>2. CASE Migrate(p)
    BY <1>0, <2>2, Migrated DEF Migrate
  <2>3. CASE ConnectStorage(p) \/ ResetStats(p)
    BY <1>0, <2>3, StatsAreKeys DEF ConnectStorage, ResetStats, Keys
  <2>4. CASE BeginMaintenance(p) \/ AcquireInitLock(p) \/ Scan(p) \/ EndMaintenance(p)
    BY <1>0, <2>4, LockChanges DEF BeginMaintenance, AcquireInitLock, Scan, EndMaintenance,
          PoolStays
  <2> QED
    BY <1>1, <2>1, <2>2, <2>3, <2>4
       DEF StartStep, CheckSchema, CheckColdParams, CheckCount, CheckTotal, CheckInitialized,
           SaveColdParams, Serve, RegistryOnly
<1>2. LockExpires => new'.schema
  BY <1>0, LockChanges DEF LockExpires, PoolStays
<1>3. ASSUME NEW p \in Processes, Reserve(p)
      PROVE  new'.schema
  BY <1>0, <1>3 DEF Reserve, Keys
<1> QED
  BY <1>1, <1>2, <1>3 DEF Next, vars, Launch, Crash

LEMMA SchemaInvAtFirst == Init => SchemaInv
BY DEF Init, SchemaInv, Early, Down

LEMMA SchemaInvStep ==
  ASSUME TypedInv, SchemaInv, [Next]_vars
  PROVE  SchemaInv'
<1> DEFINE Late(q) == ~Early(q) /\ ~At(q, "stats")
           Known == saved # Missing \/ \E q \in Processes : Late(q)
           There == new.schema \/ \E q \in Processes : At(q, "reset")
<1>0. /\ SchemaInv <=> ("cleanup" \notin mishaps /\ Known => There)
      /\ SchemaInv' <=> ("cleanup" \notin mishaps' /\ Known' => There')
  BY DEF SchemaInv
<1> SUFFICES ASSUME "cleanup" \notin mishaps', Known' PROVE There'
  BY <1>0
<1>1. "cleanup" \notin mishaps /\ (Known => There)
  BY <1>0, MishapsStay
<1>2. CASE UNCHANGED vars
  BY <1>1, <1>2 DEF vars, At, Early
<1>3. CASE LockExpires \/ \E p \in Processes : Reserve(p)
  <2>1. UNCHANGED <<process, saved>>
    BY <1>3 DEF LockExpires, Reserve, RegistryOnly
  <2>2. new.schema => new'.schema
    <3>1. ~ \E p \in Processes : CleanUp(p)
      BY <1>3, <2>1, PcMoves DEF TypedInv
    <3> QED
      BY <3>1, SchemaStays
  <2> QED
    BY <1>1, <2>1, <2>2 DEF At, Early
<1>4. ASSUME NEW p \in Processes, StartStep(p) \/ Launch(p) \/ Crash(p)
      PROVE  There'
  <2>1. CASE CleanUp(p)
    <3>1. process'[p].pc = "reset"
      BY <2>1, PcMoves
    <3> QED
      BY <3>1 DEF At
  <2>2. CASE ConnectStorage(p) \/ ResetStats(p)
    BY <2>2, StatsAreKeys DEF ConnectStorage, ResetStats, TypedInv, Keys
  <2>3. CASE ~CleanUp(p) /\ ~ConnectStorage(p) /\ ~ResetStats(p)
    <3>1. \A q \in Processes : q # p => process'[q] = process[q]
      BY <1>4, OthersStay
    <3>2. Late(p)' => Late(p)
      BY <1>4, <2>3, PcMoves DEF Early, At, StartStep
    <3>3. process[p].pc # "reset"
      <4>1. Crash(p) => process[p].pc # "reset"
        BY <1>1 DEF Crash, At
      <4> QED
        BY <1>4, <2>3, <4>1, PcMoves DEF StartStep
    <3>4. saved' = saved \/ Late(p)
      <4>1. SaveColdParams(p) => Late(p)
        BY PcMoves DEF Early, At
      <4> QED
        BY <1>4, <2>3, <4>1 DEF StartStep, Launch, Crash, CheckSchema, Migrate, CheckColdParams,
             CheckCount, CheckTotal, CheckInitialized, BeginMaintenance, AcquireInitLock, Scan,
             AddChunk, EndMaintenance, Serve, RegistryOnly
    <3>5. Known
      BY <3>1, <3>2, <3>4 DEF Early, At
    <3>6. new.schema => new'.schema
      <4>1. \A q \in Processes : ~CleanUp(q)
        BY <1>4, <2>3, <3>1, PcMoves
      <4> QED
        BY <4>1, SchemaStays
    <3> QED
      BY <1>1, <3>1, <3>3, <3>5, <3>6 DEF At
  <2> QED
    BY <2>1, <2>2, <2>3
<1> QED
  BY <1>2, <1>3, <1>4 DEF Next

-----------------------------------------------------------------------------
(* The migration. *)
Pools(ns1, ns2) ==
  /\ ns1.list = ns2.list /\ ns1.count = ns2.count
  /\ ns1.initialized = ns2.initialized
  /\ ns1.nextReservationId = ns2.nextReservationId
  /\ ns1.reservations = ns2.reservations
  /\ ns1.expirationQueue = ns2.expirationQueue

(* Into a namespace without a schema version everything moves. *)
LEMMA MigrateIntoBare ==
  ASSUME old \in Keys, new \in Keys, MigrateKeys, Bare(new)
  PROVE  Pools(new', old) /\ Bare(old')
         /\ (old'.initLock # Missing => new'.initLock # Missing)
<1>1. DOMAIN new.reservations = {} /\ new.reservations = << >>
  BY NoHoldings DEF Bare
<1>2. old.reservations = [r \in DOMAIN old.reservations |-> old.reservations[r]]
  BY HoldingsAreFunctions DEF Keys
<1>3. new'.reservations = old.reservations
  BY <1>1, <1>2, Migrated
<1>4. old'.reservations = << >>
  <2>1. Restricted(old.reservations, {}) = [x \in {} |-> {}]
    BY DEF Restricted
  <2>2. << >> = [x \in {} |-> {}]
    OBVIOUS
  <2> QED
    BY <1>1, <2>1, <2>2, Migrated
<1>5. /\ new.list = << >> /\ new.count = Missing /\ new.initialized = FALSE
      /\ new.nextReservationId = 0 /\ new.expirationQueue = {}
      /\ old.initialized \in BOOLEAN
  BY DEF Bare, Keys
<1>n. /\ Nothing.list = << >> /\ Nothing.count = Missing /\ Nothing.initialized = FALSE
      /\ Nothing.nextReservationId = 0 /\ Nothing.expirationQueue = {}
  BY DEF Nothing
<1>6. /\ new'.list = old.list /\ old'.list = << >>
      /\ new'.count = old.count /\ old'.count = Missing
      /\ new'.initialized = old.initialized /\ ~old'.initialized
      /\ new'.nextReservationId = old.nextReservationId /\ old'.nextReservationId = 0
      /\ new'.expirationQueue = old.expirationQueue /\ old'.expirationQueue = {}
  BY <1>5, <1>n, MigratedKeys
<1>7. old'.initLock # Missing => new'.initLock # Missing
  BY Migrated DEF Renamed, KeySuffixes, Nothing
<1> QED
  BY <1>3, <1>4, <1>6, <1>7 DEF Pools, Bare

(* Of a namespace that has been moved nothing comes after. *)
LEMMA MigrateFromBare ==
  ASSUME old \in Keys, new \in Keys, MigrateKeys, Bare(old)
  PROVE  Pools(new', new) /\ Bare(old')
         /\ (old'.initLock # Missing => new'.initLock # Missing)
<1>1. DOMAIN old.reservations = {} /\ old.reservations = << >>
  BY NoHoldings DEF Bare
<1>2. new.reservations = [r \in DOMAIN new.reservations |-> new.reservations[r]]
  BY HoldingsAreFunctions DEF Keys
<1>3. new'.reservations = new.reservations
  BY <1>1, <1>2, Migrated
<1>4. old'.reservations = << >>
  <2>1. Restricted(old.reservations, DOMAIN new.reservations) = [x \in {} |-> {}]
    BY <1>1 DEF Restricted
  <2>2. << >> = [x \in {} |-> {}]
    OBVIOUS
  <2> QED
    BY <2>1, <2>2, Migrated
<1>5. /\ ~Renamed("list") /\ ~Renamed("count") /\ ~Renamed("initialized")
      /\ ~Renamed("nextReservationId") /\ ~Renamed("expirationQueue")
  BY DEF Bare, Renamed, Nothing, Keys
<1>6. /\ new'.list = new.list /\ new'.count = new.count
      /\ new'.initialized = new.initialized
      /\ new'.nextReservationId = new.nextReservationId
      /\ new'.expirationQueue = new.expirationQueue
      /\ old'.list = old.list /\ old'.count = old.count
      /\ old'.initialized = old.initialized
      /\ old'.nextReservationId = old.nextReservationId
      /\ old'.expirationQueue = old.expirationQueue
  BY <1>5, Migrated
<1>7. old'.initLock # Missing => new'.initLock # Missing
  BY Migrated DEF Renamed, KeySuffixes, Nothing
<1> QED
  BY <1>3, <1>4, <1>6, <1>7 DEF Pools, Bare

(* A lock is a key for ever. *)
LEMMA InitLockStays ==
  ASSUME TypedInv, [Next]_vars, new.initLock # Missing
  PROVE  new'.initLock # Missing
<1>0. new \in Keys /\ old \in Keys
  BY DEF TypedInv
<1>1. ASSUME NEW p \in Processes, StartStep(p)
      PROVE  new'.initLock # Missing
  <2>1. CASE AddChunk(p)
    <3>1. new' = [new EXCEPT !.initLock = "free"] => new'.initLock # Missing
      BY <1>0, LockChanges, Distinct
    <3>2. ASSUME NEW c \in process[p].result, new' = Pushed(p, c)
          PROVE  new'.initLock # Missing
      <4>1. c \in Coins
        BY DEF TypedInv, Starting
      <4> QED
        BY <2>1, <3>2, <4>1, PushedTo DEF AddChunk
    <3> QED
      BY <2>1, <3>1, <3>2 DEF AddChunk
  <2>2. CASE Migrate(p)
    <3>1. Nothing.initLock = Missing
      BY DEF Nothing
    <3>2. CASE MigrateKeys
      BY <1>0, <3>1, <3>2, MigratedKeys
    <3> QED
      BY <2>2, <3>2 DEF Migrate
  <2>3. CASE ConnectStorage(p) \/ ResetStats(p)
    BY <1>0, <2>3, StatsAreKeys DEF ConnectStorage, ResetStats, Keys
  <2>4. CASE BeginMaintenance(p) \/ AcquireInitLock(p) \/ Scan(p) \/ EndMaintenance(p)
    BY <1>0, <2>4, LockChanges, Distinct DEF BeginMaintenance, AcquireInitLock, Scan,
          EndMaintenance
  <2>5. CASE CleanUp(p)
    BY <2>5 DEF CleanUp, CleanUpCoinRegistry, Nothing
  <2> QED
    BY <1>1, <2>1, <2>2, <2>3, <2>4, <2>5
       DEF StartStep, CheckSchema, CheckColdParams, CheckCount, CheckTotal, CheckInitialized,
           SaveColdParams, Serve, RegistryOnly
<1>2. LockExpires => new'.initLock # Missing
  BY <1>0, LockChanges, Distinct DEF LockExpires
<1>3. ASSUME NEW p \in Processes, Reserve(p)
      PROVE  new'.initLock # Missing
  BY <1>0, <1>3 DEF Reserve, Keys
<1> QED
  BY <1>1, <1>2, <1>3 DEF Next, vars, Launch, Crash

LEMMA OnlyMigrationTouchesOld ==
  ASSUME [Next]_vars
  PROVE  UNCHANGED old \/ \E p \in Processes : Migrate(p)
BY DEF Next, vars, LockExpires, RegistryOnly, Launch, Reserve, Crash, StartStep, CheckSchema,
       ConnectStorage, CheckColdParams, CheckCount, CheckTotal, CheckInitialized,
       BeginMaintenance, CleanUp, ResetStats, AcquireInitLock, Scan, AddChunk, EndMaintenance,
       SaveColdParams, Serve

LEMMA MigrationInvAtFirst == Init => MigrationInv
BY DEF Init, MigrationInv, Nothing, Early, At, Down, OneAtATime

(* A step of the migration script, unless starts have raced: the old pool comes
   in as a whole, or there is none any more. *)
LEMMA MigrationMoves ==
  ASSUME TypedInv, LockInv, MigrationInv, ~Raced, NEW p \in Processes, Migrate(p), MigrateKeys
  PROVE  /\ Drained'
         /\ \/ Drained /\ Pools(new', new)
            \/ /\ ~new.schema /\ Bare(new) /\ old \in OldRegistries
               /\ Pools(new', old)
<1>1. old \in Keys /\ new \in Keys
  BY DEF TypedInv
<1>2. CASE Drained
  BY <1>1, <1>2, MigrateFromBare DEF Drained
<1>3. CASE ~Drained
  <2>1. ~new.schema /\ old \in OldRegistries
    BY <1>3 DEF MigrationInv, Migrate
  <2>2. Bare(new)
    BY <2>1 DEF LockInv
  <2> QED
    BY <1>1, <2>1, <2>2, MigrateIntoBare DEF Drained
<1> QED
  BY <1>2, <1>3

LEMMA MigrationInvStep ==
  ASSUME TypedInv, LockInv, MigrationInv, [Next]_vars
  PROVE  MigrationInv'
<1> DEFINE Waiting == \A q \in Processes : At(q, "migrate") => ~new.schema
           Fresh == "migration" \notin mishaps =>
                      ~new.schema /\ \A q \in Processes : Early(q)
           Alone == "overlap" \notin mishaps => OneAtATime
           Pending == old \in OldRegistries /\ Waiting /\ Fresh /\ Alone
<1>0. /\ MigrationInv <=> (~Raced => Drained \/ Pending)
      /\ MigrationInv' <=> (~Raced' => Drained' \/ Pending')
  BY DEF MigrationInv
<1> SUFFICES ASSUME ~Raced', ~Drained' PROVE Pending'
  BY <1>0
<1>1. ~Raced /\ mishaps \subseteq mishaps'
  BY MishapsStay DEF Raced
<1>2. UNCHANGED old /\ ~Drained
  <2>1. CASE \E p \in Processes : Migrate(p)
    <3>1. PICK p \in Processes : Migrate(p)
      BY <2>1
    <3>2. ~MigrateKeys
      BY <1>1, <3>1, MigrationMoves
    <3>3. UNCHANGED <<old, new>>
      BY <3>1, <3>2 DEF Migrate
    <3> QED
      BY <3>3 DEF Drained, Bare
  <2>2. CASE UNCHANGED old
    BY <2>2, InitLockStays DEF Drained, Bare
  <2> QED
    BY <2>1, <2>2, OnlyMigrationTouchesOld
<1>3. Pending
  BY <1>0, <1>1, <1>2
<1>4. old' \in OldRegistries
  <2>1. OldRegistries' = OldRegistries
    OBVIOUS
  <2> QED
    BY <1>2, <1>3, <2>1
<1>5. CASE UNCHANGED vars
  BY <1>3, <1>4, <1>5 DEF vars, At, Early, OneAtATime
<1>6. CASE LockExpires \/ \E p \in Processes : Reserve(p)
  <2>1. UNCHANGED <<process, mishaps>>
    BY <1>6 DEF LockExpires, Reserve, RegistryOnly
  <2>2. new'.schema = new.schema
    BY <1>6, LockChanges DEF LockExpires, Reserve, TypedInv, Keys, PoolStays
  <2> QED
    BY <1>3, <1>4, <2>1, <2>2 DEF At, Early, OneAtATime
<1>7. ASSUME NEW p \in Processes, Launch(p)
      PROVE  Pending'
  <2>1. process[p].pc = "down" /\ process'[p].pc = "schema" /\ UNCHANGED new
    BY <1>7, PcMoves DEF Launch
  <2>2. \A q \in Processes : q # p => process'[q] = process[q]
    BY <1>7, OthersStay
  <2>3. "overlap" \notin mishaps' => \A q \in Processes : At(q, "down")
    BY <1>7 DEF Launch
  <2>4. Waiting' /\ Fresh'
    BY <1>1, <1>3, <1>7, <2>1, <2>2 DEF At, Early, Launch
  <2>5. Alone'
    BY <2>2, <2>3 DEF At, OneAtATime
  <2> QED
    BY <1>4, <2>4, <2>5
<1>8. ASSUME NEW p \in Processes, StartStep(p) \/ Crash(p)
      PROVE  Pending'
  <2>1. \A q \in Processes : q # p => process'[q] = process[q]
    BY <1>8, OthersStay
  <2>2. process[p].pc # "down"
    BY <1>8, PcMoves DEF StartStep
  <2>3. Alone'
    BY <1>1, <1>3, <2>1, <2>2 DEF At, OneAtATime
  <2>4. CASE CheckSchema(p)
    <3>1. UNCHANGED new
      BY <2>4 DEF CheckSchema
    <3>2. process'[p].pc = "migrate" => ~new.schema
      BY <2>4, GoesTo DEF CheckSchema, IsOldFormat
    <3>3. "migration" \notin mishaps' => process'[p].pc = "migrate"
      <4>1. SUFFICES ASSUME "migration" \notin mishaps' PROVE IsOldFormat
        BY <2>4, GoesTo DEF CheckSchema, MigrationFails
      <4>2. ~new.schema
        BY <1>1, <1>3, <4>1
      <4>3. new.schema = FALSE /\ Bare(new)
        BY <4>2 DEF LockInv, TypedInv, Keys
      <4>4. old # Nothing
        BY <1>2 DEF Drained, Bare, Nothing
      <4> QED
        BY <1>3, <4>3, <4>4, OldRegistriesAreInitialized DEF IsOldFormat
    <3> QED
      BY <1>1, <1>3, <1>4, <2>1, <2>3, <3>1, <3>2, <3>3 DEF At, Early
  <2>5. CASE ~CheckSchema(p)
    <3>1. process'[p].pc # "migrate"
      BY <1>8, <2>5, PcMoves DEF StartStep
    <3>2. CASE "migration" \in mishaps'
      <4>1. \A q \in Processes : q # p => At(q, "down")
        BY <1>1, <1>3, <2>2, <3>2 DEF Raced, OneAtATime, At
      <4>2. Waiting'
        BY <2>1, <3>1, <4>1 DEF At
      <4> QED
        BY <1>4, <2>3, <3>2, <4>2
    <3>3. CASE "migration" \notin mishaps'
      <4>1. Early(p) /\ "migration" \notin mishaps
        BY <1>1, <1>3, <3>3
      <4>2. ~Migrate(p)
        <5>1. SUFFICES ASSUME Migrate(p) PROVE FALSE
          OBVIOUS
        <5>2. ~MigrateKeys
          BY <1>1, <1>2, <5>1, MigrationMoves
        <5> QED
          BY <3>3, <5>1, <5>2 DEF Migrate, MigrationFails
      <4>3. Crash(p)
        BY <1>8, <2>5, <4>1, <4>2, PcMoves DEF StartStep, Early
      <4>4. UNCHANGED new /\ process'[p].pc = "down"
        BY <4>3, PcMoves DEF Crash
      <4> QED
        BY <1>3, <1>4, <2>1, <2>3, <4>1, <4>4 DEF At, Early
    <3> QED
      BY <3>2, <3>3
  <2> QED
    BY <2>4, <2>5
<1> QED
  BY <1>5, <1>6, <1>7, <1>8 DEF Next

-----------------------------------------------------------------------------
(* The pool. *)
Adds(p, c) ==
  /\ At(p, "add") /\ new' = Pushed(p, c)
  /\ IF new.count = Missing
     THEN /\ process' = [process EXCEPT ![p] = Down]
          /\ mishaps' = mishaps \cup {"unsaved", "killed"}
     ELSE /\ process' = [process EXCEPT ![p].result = @ \ {c}, ![p].added = TRUE]
          /\ UNCHANGED mishaps

(* Six kinds of steps touch the pool, if they do. *)
LEMMA PoolSteps ==
  ASSUME TypedInv, [Next]_vars
  PROVE  \/ Pools(new', new)
         \/ \E p \in Processes : Migrate(p) /\ MigrateKeys
         \/ \E p \in Processes : ConnectStorage(p) \/ ResetStats(p)
         \/ \E p \in Processes : CleanUp(p)
         \/ \E p \in Processes : \E c \in process[p].result : Adds(p, c)
         \/ \E p \in Processes : Reserve(p)
<1>0. new \in Keys
  BY DEF TypedInv
<1>1. (PoolStays => Pools(new', new)) /\ (new' = new => Pools(new', new))
  BY DEF PoolStays, Pools
<1>2. ASSUME NEW p \in Processes, StartStep(p)
      PROVE  \/ Pools(new', new)
             \/ Migrate(p) /\ MigrateKeys
             \/ ConnectStorage(p) \/ ResetStats(p) \/ CleanUp(p)
             \/ \E c \in process[p].result : Adds(p, c)
  <2>1. CASE AddChunk(p)
    <3>1. new' = [new EXCEPT !.initLock = "free"] => Pools(new', new)
      BY <1>0, <1>1, LockChanges
    <3> QED
      BY <2>1, <3>1 DEF AddChunk, Adds
  <2>2. CASE BeginMaintenance(p) \/ AcquireInitLock(p) \/ Scan(p) \/ EndMaintenance(p)
    BY <1>0, <1>1, <2>2, LockChanges DEF BeginMaintenance, AcquireInitLock, Scan, EndMaintenance
  <2>3. CASE Migrate(p)
    BY <1>1, <2>3 DEF Migrate
  <2> QED
    BY <1>1, <1>2, <2>1, <2>2, <2>3
       DEF StartStep, CheckSchema, CheckColdParams, CheckCount, CheckTotal, CheckInitialized,
           SaveColdParams, Serve, RegistryOnly
<1>3. LockExpires => Pools(new', new)
  BY <1>0, <1>1, LockChanges DEF LockExpires
<1> QED
  BY <1>1, <1>2, <1>3 DEF Next, vars, Launch, Crash

SoundInv ==
  ~Raced =>
    /\ new.count \in {Missing, Len(new.list)} \/ "unsaved" \in mishaps
    /\ DOMAIN new.reservations \subseteq new.expirationQueue
    /\ \A r \in new.expirationQueue : r <= new.nextReservationId

LEMMA OldRegistriesAreSound ==
  ASSUME NEW ns \in OldRegistries
  PROVE  /\ ns.count \in {Missing, Len(ns.list)}
         /\ DOMAIN ns.reservations = ns.expirationQueue
         /\ \A r \in ns.expirationQueue : r <= ns.nextReservationId
<1>1. CASE ns = Nothing
  BY <1>1, NoHoldings DEF Nothing
<1>2. CASE ns # Nothing
  <2>1. PICK target \in Targets, reserved \in SUBSET Coins, lock \in {"free", "held"} :
             \E coins \in SetToSeqs(Coins \ reserved) :
               ns = OldRegistry(target, coins,
                      IF reserved = {} THEN << >> ELSE <<reserved>>, lock)
    BY <1>2, OldRegistriesAreWhole
  <2>2. PICK coins \in SetToSeqs(Coins \ reserved) :
               ns = OldRegistry(target, coins,
                      IF reserved = {} THEN << >> ELSE <<reserved>>, lock)
    BY <2>1
  <2> DEFINE list == [i \in DOMAIN coins |->
                       [coin |-> coins[i], target |-> target, inherited |-> TRUE]]
             held == IF reserved = {} THEN << >> ELSE <<reserved>>
  <2>3. Len(list) = Len(coins)
    <3>1. coins \in Seq(Coins \ reserved) /\ DOMAIN coins = 1 .. Len(coins)
      BY PoolSequences
    <3> QED
      BY <3>1
  <2>4. DOMAIN held = 1 .. Len(held) /\ Len(held) \in Nat
    <3>1. CASE reserved = {}
      BY <3>1
    <3>2. CASE reserved # {}
      <4>1. held = <<reserved>>
        BY <3>2
      <4>2. Len(<<reserved>>) = 1 /\ DOMAIN <<reserved>> = 1 .. 1
        OBVIOUS
      <4> HIDE DEF held
      <4> QED
        BY <4>1, <4>2
    <3> QED
      BY <3>1, <3>2
  <2> HIDE DEF list, held
  <2>5. /\ ns.list = list /\ ns.count = Len(coins) /\ ns.reservations = held
        /\ ns.expirationQueue = DOMAIN held /\ ns.nextReservationId = Len(held)
    BY <2>2 DEF OldRegistry, Nothing, list, held
  <2> QED
    BY <2>3, <2>4, <2>5
<1> QED
  BY <1>1, <1>2

LEMMA SoundInvAtFirst == Init => SoundInv
BY NoHoldings DEF Init, SoundInv, Nothing

LEMMA SoundInvStep ==
  ASSUME TypedInv, LockInv, MigrationInv, SoundInv, [Next]_vars
  PROVE  SoundInv'
<1> DEFINE Sound(ns, m) ==
             /\ ns.count \in {Missing, Len(ns.list)} \/ "unsaved" \in m
             /\ DOMAIN ns.reservations \subseteq ns.expirationQueue
             /\ \A r \in ns.expirationQueue : r <= ns.nextReservationId
<1>0. SoundInv' <=> (~Raced' => Sound(new', mishaps'))
  BY DEF SoundInv
<1> SUFFICES ASSUME ~Raced' PROVE Sound(new', mishaps')
  BY <1>0
<1>1. ~Raced /\ mishaps \subseteq mishaps'
  BY MishapsStay DEF Raced
<1>2. Sound(new, mishaps)
  BY <1>1 DEF SoundInv
<1>3. new \in Keys /\ old \in Keys
  BY DEF TypedInv
<1>4. \A ns : Pools(new', ns) /\ Sound(ns, mishaps) => Sound(new', mishaps')
  BY <1>1 DEF Pools
<1>5. CASE Pools(new', new)
  BY <1>2, <1>4, <1>5
<1>6. CASE \E p \in Processes : Migrate(p) /\ MigrateKeys
  <2>1. Pools(new', new) \/ (Pools(new', old) /\ old \in OldRegistries)
    BY <1>1, <1>6, MigrationMoves
  <2>2. old \in OldRegistries => Sound(old, mishaps)
    BY OldRegistriesAreSound
  <2> HIDE DEF Sound
  <2> QED
    BY <1>2, <1>4, <2>1, <2>2
<1>7. CASE \E p \in Processes : ConnectStorage(p) \/ ResetStats(p)
  <2>1. /\ new' = [new EXCEPT !.count = IF new.count = Missing THEN Len(new.list)
                                                               ELSE new.count,
                              !.schema = TRUE]
    BY <1>3, <1>7, StatsAreKeys DEF ConnectStorage, ResetStats
  <2>2. /\ new'.count = IF new.count = Missing THEN Len(new.list) ELSE new.count
        /\ new'.list = new.list /\ new'.reservations = new.reservations
        /\ new'.expirationQueue = new.expirationQueue
        /\ new'.nextReservationId = new.nextReservationId
    BY <1>3, <2>1 DEF Keys
  <2> QED
    BY <1>1, <1>2, <2>2
<1>8. CASE \E p \in Processes : CleanUp(p)
  BY <1>8, NoHoldings DEF CleanUp, CleanUpCoinRegistry, Nothing
<1>9. CASE \E p \in Processes : \E c \in process[p].result : Adds(p, c)
  <2>1. PICK p \in Processes : \E c \in process[p].result : Adds(p, c)
    BY <1>9
  <2>2. PICK c \in process[p].result : Adds(p, c)
    BY <2>1
  <2>3. c \in Coins /\ At(p, "add") /\ new' = Pushed(p, c)
    BY <2>2 DEF TypedInv, Starting, Adds
  <2>4. Len(Append(new.list, Added(p, c))) = Len(new.list) + 1
    BY <1>3, <2>3, PushedIsTyped, AppendToPool DEF Keys
  <2>5. new.count = Missing => "unsaved" \in mishaps'
    BY <2>2 DEF Adds
  <2>6. /\ new'.list = Append(new.list, Added(p, c))
        /\ new'.count = IF new.count = Missing THEN Missing ELSE new.count + 1
        /\ new'.nextReservationId = new.nextReservationId
        /\ new'.reservations = new.reservations
        /\ new'.expirationQueue = new.expirationQueue
    BY <2>3, PushedTo
  <2> QED
    BY <1>1, <1>2, <2>4, <2>5, <2>6
<1>10. CASE \E p \in Processes : Reserve(p)
  <2>1. PICK p \in Processes : Reserve(p)
    BY <1>10
  <2> DEFINE id == new.nextReservationId + 1
             held == [r \in DOMAIN new.reservations \cup {id} |->
                        IF r = id THEN {new.list[1].coin} ELSE new.reservations[r]]
             list == Tail(new.list)
             queue == new.expirationQueue \cup {id}
             count == new.count - 1
  <2>2. new' = [new EXCEPT !.list = list, !.count = count, !.nextReservationId = id,
                           !.reservations = held, !.expirationQueue = queue]
    BY <2>1, ReserveHeld
  <2>3. DOMAIN held = DOMAIN new.reservations \cup {id}
    OBVIOUS
  <2>4. Len(list) = Len(new.list) - 1 /\ new.count # Missing
    BY <1>3, <2>1, TailOfPool DEF Reserve, Keys
  <2>5. new.nextReservationId \in Nat /\ new.expirationQueue \subseteq Nat
    BY <1>3 DEF Keys
  <2>6. DOMAIN held \subseteq queue /\ \A r \in queue : r <= id
    BY <1>2, <2>3, <2>5
  <2>7. count \in {Missing, Len(list)} \/ "unsaved" \in mishaps'
    BY <1>1, <1>2, <2>4
  <2> HIDE DEF id, held, list, queue, count
  <2>8. /\ new'.list = list /\ new'.count = count /\ new'.nextReservationId = id
        /\ new'.reservations = held /\ new'.expirationQueue = queue
    BY <1>3, <2>2 DEF Keys
  <2> QED
    BY <2>6, <2>7, <2>8
<1> HIDE DEF Sound
<1> QED
  BY <1>5, <1>6, <1>7, <1>8, <1>9, <1>10, PoolSteps

(* Coins that the earlier version has added fit any target. *)
LEMMA InheritedFits ==
  ASSUME NEW list, AllInherited(list), NEW target
  PROVE  CutFor(list, target)
BY DEF AllInherited, CutFor

LEMMA EmptyPool ==
  ASSUME NEW target
  PROVE  /\ CutFor(<< >>, target) /\ EachOnce(<< >>)
         /\ \A c : ~Listed(<< >>, c)
BY DEF CutFor, EachOnce, Listed

LEMMA OldRegistriesAreSettled ==
  ASSUME NEW ns \in OldRegistries
  PROVE  SettledPool(ns)
<1>1. CASE ns = Nothing
  BY <1>1 DEF SettledPool, Nothing
<1>2. CASE ns # Nothing
  <2>1. PICK target \in Targets, reserved \in SUBSET Coins, lock \in {"free", "held"} :
             \E coins \in SetToSeqs(Coins \ reserved) :
               ns = OldRegistry(target, coins,
                      IF reserved = {} THEN << >> ELSE <<reserved>>, lock)
    BY <1>2, OldRegistriesAreWhole
  <2>2. PICK coins \in SetToSeqs(Coins \ reserved) :
               ns = OldRegistry(target, coins,
                      IF reserved = {} THEN << >> ELSE <<reserved>>, lock)
    BY <2>1
  <2> DEFINE list == [i \in DOMAIN coins |->
                       [coin |-> coins[i], target |-> target, inherited |-> TRUE]]
             held == IF reserved = {} THEN << >> ELSE <<reserved>>
  <2>3. /\ coins \in Seq(Coins \ reserved)
        /\ DOMAIN list = DOMAIN coins
        /\ \A i \in DOMAIN coins : list[i].coin = coins[i] /\ coins[i] \in Coins \ reserved
        /\ \A i, j \in DOMAIN coins : coins[i] = coins[j] => i = j
        /\ \A c \in Coins \ reserved : \E i \in DOMAIN coins : coins[i] = c
    <3>1. Coins \ reserved \in SUBSET Coins
      OBVIOUS
    <3>2. /\ coins \in Seq(Coins \ reserved)
          /\ DOMAIN coins = 1 .. Len(coins)
          /\ \A i, j \in DOMAIN coins : coins[i] = coins[j] => i = j
          /\ \A c \in Coins \ reserved : \E i \in DOMAIN coins : coins[i] = c
      BY <3>1, PoolSequences
    <3>3. \A i \in DOMAIN coins : coins[i] \in Coins \ reserved
      BY <3>2
    <3> QED
      BY <3>2, <3>3
  <2>4. /\ \A r, q \in DOMAIN held : r = q
        /\ \A r \in DOMAIN held : held[r] = reserved
        /\ \A c \in reserved : \E r \in DOMAIN held : c \in held[r]
    <3>1. CASE reserved = {}
      <4>1. held = << >>
        BY <3>1
      <4>2. DOMAIN held = {}
        BY <4>1, NoHoldings
      <4> HIDE DEF held
      <4> QED
        BY <3>1, <4>2
    <3>2. CASE reserved # {}
      <4>1. held = <<reserved>>
        BY <3>2
      <4>2. DOMAIN <<reserved>> = {1} /\ <<reserved>>[1] = reserved
        OBVIOUS
      <4> HIDE DEF held
      <4> QED
        BY <4>1, <4>2
    <3> QED
      BY <3>1, <3>2
  <2> HIDE DEF list, held
  <2>5. ns.list = list /\ ns.reservations = held /\ ns.initialized = TRUE
    BY <2>2 DEF OldRegistry, Nothing, list, held
  <2>6. EachOnce(list)
    BY <2>3 DEF EachOnce
  <2>7. \A i \in DOMAIN list, r \in DOMAIN held : list[i].coin \notin held[r]
    BY <2>3, <2>4
  <2>8. \A c \in Coins : Listed(list, c) \/ \E r \in DOMAIN held : c \in held[r]
    BY <2>3, <2>4 DEF Listed
  <2> QED
    BY <2>4, <2>5, <2>6, <2>7, <2>8 DEF SettledPool, WholePool
<1> QED
  BY <1>1, <1>2

(* The pool is settled however it is named. *)
LEMMA SamePools ==
  ASSUME NEW ns1, NEW ns2, Pools(ns1, ns2)
  PROVE  /\ SettledPool(ns1) <=> SettledPool(ns2)
         /\ WholePool(ns1) <=> WholePool(ns2)
BY DEF Pools, SettledPool, WholePool

(* A reservation takes the coin that it holds out of the list. *)
LEMMA ReservedPoolIsWhole ==
  ASSUME TypedInv, SoundInv, ~Raced, WholePool(new), NEW p \in Processes, Reserve(p)
  PROVE  /\ WholePool(new')
         /\ \A target : CutFor(new.list, target) => CutFor(new'.list, target)
<1> DEFINE id == new.nextReservationId + 1
           held == [r \in DOMAIN new.reservations \cup {id} |->
                      IF r = id THEN {new.list[1].coin} ELSE new.reservations[r]]
           list == Tail(new.list)
<1>1. new' = [new EXCEPT !.list = Tail(new.list), !.count = new.count - 1,
                !.nextReservationId = id, !.reservations = held,
                !.expirationQueue = new.expirationQueue \cup {id}]
  BY ReserveHeld
<1>2. /\ new.list \in Seq(Entry) /\ new.list # << >> /\ new \in Keys
      /\ new.nextReservationId \in Nat /\ new.expirationQueue \subseteq Nat
  BY DEF TypedInv, Keys, Reserve
<1>3. id \notin DOMAIN new.reservations
  BY <1>2 DEF SoundInv
<1>4. /\ DOMAIN list = 1 .. Len(new.list) - 1 /\ DOMAIN new.list = 1 .. Len(new.list)
      /\ Len(new.list) \in Nat \ {0}
      /\ \A i \in DOMAIN list : list[i] = new.list[i + 1]
  BY <1>2, TailOfPool
<1>5. /\ DOMAIN held = DOMAIN new.reservations \cup {id}
      /\ held[id] = {new.list[1].coin}
      /\ \A r \in DOMAIN new.reservations : held[r] = new.reservations[r]
  BY <1>3
<1> HIDE DEF id, held, list
<1>6. new'.list = list /\ new'.reservations = held
  BY <1>1, <1>2 DEF Keys, list
<1>7. \A i, j \in DOMAIN new.list : new.list[i].coin = new.list[j].coin => i = j
  BY DEF WholePool, EachOnce
<1>8. EachOnce(list)
  <2> SUFFICES ASSUME NEW i \in DOMAIN list, NEW j \in DOMAIN list,
                      list[i].coin = list[j].coin
               PROVE  i = j
    BY DEF EachOnce
  <2>1. i + 1 \in DOMAIN new.list /\ j + 1 \in DOMAIN new.list /\ i \in Int /\ j \in Int
    BY <1>4
  <2>2. new.list[i + 1].coin = new.list[j + 1].coin
    BY <1>4
  <2>3. i + 1 = j + 1
    BY <1>7, <2>1, <2>2
  <2> QED
    BY <2>1, <2>3
<1>9. \A i \in DOMAIN list : list[i].coin # new.list[1].coin
  <2> SUFFICES ASSUME NEW i \in DOMAIN list, list[i].coin = new.list[1].coin
               PROVE  FALSE
    OBVIOUS
  <2>1. i + 1 \in DOMAIN new.list /\ 1 \in DOMAIN new.list /\ i + 1 # 1
    BY <1>4
  <2> QED
    BY <1>4, <1>7, <2>1
<1>10. \A r \in DOMAIN new.reservations : new.list[1].coin \notin new.reservations[r]
  BY <1>4 DEF WholePool
<1>11. \A r, q \in DOMAIN held : r # q => held[r] \cap held[q] = {}
  <2> SUFFICES ASSUME NEW r \in DOMAIN held, NEW q \in DOMAIN held, r # q
               PROVE  held[r] \cap held[q] = {}
    OBVIOUS
  <2>1. CASE r # id /\ q # id
    BY <1>5, <2>1 DEF WholePool
  <2>2. CASE r = id \/ q = id
    BY <1>5, <1>10, <2>2
  <2> QED
    BY <2>1, <2>2
<1>12. \A i \in DOMAIN list, r \in DOMAIN held : list[i].coin \notin held[r]
  <2> SUFFICES ASSUME NEW i \in DOMAIN list, NEW r \in DOMAIN held
               PROVE  list[i].coin \notin held[r]
    OBVIOUS
  <2>1. i + 1 \in DOMAIN new.list
    BY <1>4
  <2>2. CASE r # id
    BY <1>4, <1>5, <2>1, <2>2 DEF WholePool
  <2>3. CASE r = id
    BY <1>5, <1>9, <2>3
  <2> QED
    BY <2>2, <2>3
<1>13. \A c \in Coins : Listed(list, c) \/ \E r \in DOMAIN held : c \in held[r]
  <2> SUFFICES ASSUME NEW c \in Coins
               PROVE  Listed(list, c) \/ \E r \in DOMAIN held : c \in held[r]
    OBVIOUS
  <2>1. CASE \E r \in DOMAIN new.reservations : c \in new.reservations[r]
    BY <1>5, <2>1
  <2>2. CASE Listed(new.list, c)
    <3>1. PICK i \in DOMAIN new.list : new.list[i].coin = c
      BY <2>2 DEF Listed
    <3>2. CASE i = 1
      BY <1>5, <3>1, <3>2
    <3>3. CASE i # 1
      <4>1. i - 1 \in DOMAIN list /\ (i - 1) + 1 = i
        BY <1>4, <3>3
      <4>2. list[i - 1].coin = c
        BY <1>4, <3>1, <4>1
      <4> QED
        BY <4>1, <4>2 DEF Listed
    <3> QED
      BY <3>2, <3>3
  <2> QED
    BY <2>1, <2>2 DEF WholePool
<1>14. \A target : CutFor(new.list, target) => CutFor(list, target)
  <2>1. \A i \in DOMAIN list : i + 1 \in DOMAIN new.list /\ list[i] = new.list[i + 1]
    BY <1>4
  <2> QED
    BY <2>1 DEF CutFor
<1> QED
  BY <1>6, <1>8, <1>11, <1>12, <1>13, <1>14 DEF WholePool

(* A chunk brings in coins that were not there, cut for the start's target. *)
LEMMA PushedPoolIsBuilt ==
  ASSUME TypedInv, NEW p \in Processes, NEW c \in process[p].result, At(p, "add"),
         Building(p), new' = Pushed(p, c)
  PROVE  /\ CutFor(new'.list, process[p].target) /\ EachOnce(new'.list)
         /\ new'.reservations = << >> /\ new'.initialized
         /\ \A d \in Coins : Listed(new'.list, d) <=> d \notin process[p].result \ {c}
<1>0. c \in Coins
  BY DEF TypedInv, Starting
<1> DEFINE e == Added(p, c)
           list == Append(new.list, e)
<1>1. /\ new'.list = list /\ new'.reservations = new.reservations
      /\ new'.initialized
  BY <1>0, PushedTo
<1>2. e \in Entry /\ new.list \in Seq(Entry)
  BY <1>0, PushedIsTyped DEF TypedInv, Keys
<1>3. e.coin = c /\ e.target = process[p].target
  BY DEF Added
<1>4. /\ Len(new.list) \in Nat
      /\ DOMAIN new.list = 1 .. Len(new.list) /\ DOMAIN list = 1 .. Len(new.list) + 1
      /\ \A i \in DOMAIN new.list : list[i] = new.list[i]
      /\ list[Len(new.list) + 1] = e
  BY <1>2, AppendToPool
<1> HIDE DEF list, e
<1>5. \A i \in DOMAIN list : 
          i \in DOMAIN new.list \/ (list[i] = e /\ i = Len(new.list) + 1)
  BY <1>4
<1>6. \A i \in DOMAIN new.list : new.list[i].coin # c
  BY <1>0 DEF Building, Listed
<1>7. CutFor(list, process[p].target)
  BY <1>3, <1>4, <1>5 DEF Building, CutFor
<1>8. EachOnce(list)
  BY <1>3, <1>4, <1>5, <1>6 DEF Building, EachOnce
<1>9. \A d \in Coins : Listed(list, d) <=> (Listed(new.list, d) \/ d = c)
  <2>1. DOMAIN new.list \subseteq DOMAIN list /\ Len(new.list) + 1 \in DOMAIN list
    BY <1>4
  <2> QED
    BY <1>3, <1>4, <1>5, <2>1 DEF Listed
<1> QED
  BY <1>1, <1>7, <1>8, <1>9 DEF Building

LEMMA PoolInvAtFirst == Init => PoolInv
<1> SUFFICES ASSUME Init PROVE PoolInv
  OBVIOUS
<1>1. \A p \in Processes : process[p] = Down
  BY DEF Init
<1>2. Down.pc = "down" /\ Down.added = FALSE
  BY DEF Down
<1>3. new.list = << >> /\ new.initialized = FALSE /\ new.reservations = << >>
  BY DEF Init, Nothing
<1>4. Settled
  BY <1>3, EmptyPool DEF Settled, SettledPool
<1>5. OneAtATime
  BY <1>1, <1>2 DEF OneAtATime, At
<1>6. \A p \in Processes : Stage(p)
  BY <1>1, <1>2 DEF Stage
<1> QED
  BY <1>4, <1>5, <1>6 DEF PoolInv

(* While no two starts overlap, the step of one leaves the others down. *)
LEMMA OnlyOneActs ==
  ASSUME TypedInv, OneAtATime, \A q \in Processes : Stage(q),
         NEW p \in Processes, process[p].pc # "down",
         \A q \in Processes : q # p => process'[q] = process[q],
         Stage(p)', ~process'[p].added => Settled'
  PROVE  PoolInv'
<1>1. \A q \in Processes : q # p => process'[q].pc = "down" /\ ~process'[q].added
  BY DEF OneAtATime, At, Stage
<1>2. OneAtATime'
  BY <1>1 DEF OneAtATime, At
<1>3. \A q \in Processes : q # p => Stage(q)'
  BY <1>1 DEF Stage
<1>4. (\A q \in Processes : ~process'[q].added) => Settled'
  OBVIOUS
<1> QED
  BY <1>2, <1>3, <1>4 DEF PoolInv

(* Of the stages after a step those count that belong to its place. *)
LEMMA PassingStage ==
  ASSUME NEW p \in Processes, ~process'[p].added,
         process'[p].pc \notin {"count", "total", "boot", "reset", "lock", "build", "fail",
                               "add", "end", "save", "access", "serve"}
  PROVE  Stage(p)'
BY DEF Stage

LEMMA PoolInvStep ==
  ASSUME TypedInv, LockInv, MigrationInv, SoundInv, PoolInv, [Next]_vars
  PROVE  PoolInv'
<1> DEFINE Unhurt == mishaps \cap {"overlap", "unsaved"} = {}
<1> SUFFICES ASSUME Unhurt' PROVE PoolInv'
  BY DEF PoolInv, Unharmed
<1>1. /\ Unhurt /\ mishaps \subseteq mishaps'
      /\ "overlap" \notin mishaps' /\ "unsaved" \notin mishaps'
  BY MishapsStay
<1>2. /\ OneAtATime
      /\ (\A q \in Processes : ~process[q].added) => Settled
      /\ \A q \in Processes : Stage(q)
  BY <1>1 DEF PoolInv, Unharmed
<1>3. ~Raced /\ new \in Keys /\ old \in Keys
  BY <1>1 DEF Raced, TypedInv
<1>4. ASSUME UNCHANGED <<process, saved>>, Pools(new', new)
      PROVE  PoolInv'
  <2>1. new'.list = new.list /\ new'.initialized = new.initialized
        /\ new'.reservations = new.reservations
    BY <1>4 DEF Pools
  <2>2. Settled' <=> Settled
    BY <1>4, <2>1, SamePools DEF Settled
  <2>3. \A q \in Processes : Stage(q)' <=> Stage(q)
    <3>1. WholePool(new') <=> WholePool(new)
      BY <1>4, SamePools
    <3> QED
      BY <1>4, <2>1, <3>1 DEF Stage, Building
  <2>4. OneAtATime' <=> OneAtATime
    BY <1>4 DEF OneAtATime, At
  <2> QED
    BY <1>2, <1>4, <2>2, <2>3, <2>4 DEF PoolInv
<1>5. CASE UNCHANGED vars
  BY <1>4, <1>5 DEF vars, Pools
<1>6. CASE LockExpires
  <2>1. Pools(new', new)
    BY <1>3, <1>6, LockChanges DEF LockExpires, PoolStays, Pools
  <2> QED
    BY <1>4, <1>6, <2>1 DEF LockExpires, RegistryOnly
<1>7. ASSUME NEW p \in Processes, Launch(p)
      PROVE  PoolInv'
  <2>1. \A q \in Processes : At(q, "down")
    BY <1>1, <1>7 DEF Launch
  <2>2. \A q \in Processes : ~process[q].added
    BY <1>2, <2>1 DEF Stage, At
  <2>3. UNCHANGED <<new, saved>> /\ \A q \in Processes : q # p => process'[q] = process[q]
    BY <1>7, OthersStay DEF Launch
  <2>4. process'[p].pc = "schema" /\ process'[p].added = FALSE
    <3>1. PICK target \in Targets \cup {NoTarget}, flags \in Flags :
            process' = [process EXCEPT ![p] =
              [Down EXCEPT !.pc = "schema", !.target = target, !.flags = flags]]
      BY <1>7 DEF Launch
    <3> QED
      BY <3>1 DEF TypedInv, Down
  <2>5. Settled'
    BY <1>2, <2>2, <2>3 DEF Settled
  <2>6. \A q \in Processes : Stage(q)'
    BY <2>1, <2>2, <2>3, <2>4 DEF Stage, At
  <2>7. OneAtATime'
    BY <2>1, <2>3 DEF OneAtATime, At
  <2> QED
    BY <2>5, <2>6, <2>7 DEF PoolInv
<1>8. ASSUME NEW p \in Processes, StartStep(p) \/ Crash(p) \/ Reserve(p)
      PROVE  PoolInv'
  <2>1. process[p].pc # "down" /\ \A q \in Processes : q # p => process'[q] = process[q]
    <3>1. Reserve(p) => process[p].pc # "down"
      BY DEF Reserve, At
    <3> QED
      BY <1>8, <3>1, PcMoves, OthersStay DEF StartStep
  <2>2. SUFFICES Stage(p)' /\ (~process'[p].added => Settled')
    BY <1>2, <2>1, OnlyOneActs
  <2>3. Stage(p)
    BY <1>2
  <2>4. ~process[p].added => Settled
    <3>1. \A q \in Processes : q # p => ~process[q].added
      BY <1>2, <2>1 DEF OneAtATime, Stage, At
    <3> QED
      BY <1>2, <3>1
  <2>5. process[p] \in Starting /\ (NeedsTarget(process[p]))
    BY DEF TypedInv, NeedsTarget
  <2>6. Dies(p) \/ Crash(p) => /\ ~process[p].added /\ ~process'[p].added
                               /\ process'[p].pc = "down" /\ Stage(p)'
    <3>1. Dies(p) => process'[p] = Down /\ ~process[p].added
      BY <1>1, DiesTo
    <3>2. Crash(p) => process'[p] = Down /\ ~process[p].added
      BY <1>1 DEF Crash, TypedInv
    <3>3. Down.pc = "down" /\ Down.added = FALSE
      BY DEF Down
    <3> QED
      BY <3>1, <3>2, <3>3, PassingStage
  <2>7. UNCHANGED saved /\ Pools(new', new) => (Settled' <=> Settled)
    BY SamePools DEF Settled, Pools
  <2>8. new' = new => Pools(new', new)
    BY DEF Pools
  <2>9. CASE Crash(p)
    BY <2>4, <2>6, <2>7, <2>8, <2>9 DEF Crash
  <2>10. CASE CheckSchema(p)
    <3>1. process'[p].pc \in {"migrate", "stats"} /\ ~process[p].added
          /\ process'[p].added = process[p].added
      BY <2>3, <2>10, GoesTo DEF CheckSchema, Stage, At
    <3>2. UNCHANGED <<saved, new>>
      BY <2>10 DEF CheckSchema
    <3> QED
      BY <2>4, <2>7, <2>8, <3>1, <3>2, PassingStage
  <2>11. CASE Migrate(p)
    <3>1. process'[p].pc = "stats" /\ ~process[p].added
          /\ process'[p].added = process[p].added
      BY <2>3, <2>11, GoesTo DEF Migrate, Stage, At
    <3>2. UNCHANGED saved
      BY <2>11 DEF Migrate
    <3>3. Pools(new', new) \/ (Pools(new', old) /\ old \in OldRegistries)
      BY <1>3, <2>8, <2>11, MigrationMoves DEF Migrate
    <3>4. CASE Pools(new', old) /\ old \in OldRegistries
      <4>1. SettledPool(new')
        BY <3>4, OldRegistriesAreSettled, SamePools
      <4>2. AllInherited(new'.list)
        BY <3>4, OldRegistriesAreKeys DEF Pools
      <4> QED
        BY <3>1, <3>2, <4>1, <4>2, InheritedFits, PassingStage DEF Settled
    <3> QED
      BY <2>4, <2>7, <3>1, <3>2, <3>3, <3>4, PassingStage
  <2>12. CASE ConnectStorage(p) \/ ResetStats(p)
    <3>1. /\ new'.list = new.list /\ new'.initialized = new.initialized
          /\ new'.reservations = new.reservations
      BY <1>3, <2>12, StatsAreKeys DEF ConnectStorage, ResetStats, Keys
    <3>2. UNCHANGED saved
      BY <2>12 DEF ConnectStorage, ResetStats, RegistryOnly
    <3>3. Settled' <=> Settled
      BY <3>1, <3>2 DEF Settled, SettledPool, WholePool
    <3>4. process'[p].added = process[p].added /\ ~process[p].added
      BY <2>3, <2>12, GoesTo DEF ConnectStorage, ResetStats, Stage, At
    <3>5. Stage(p)'
      BY <2>3, <2>12, <3>1, <3>4, GoesTo DEF ConnectStorage, ResetStats, Stage, At
    <3> QED
      BY <2>4, <3>3, <3>4, <3>5
  <2>13. CASE CheckColdParams(p)
    <3>1. UNCHANGED <<saved, new>> /\ process[p].pc = "params"
      BY <2>13 DEF CheckColdParams, At
    <3>2. ~process[p].added
      BY <2>3, <3>1 DEF Stage
    <3>3. CASE Dies(p)
      BY <2>4, <2>6, <2>7, <2>8, <3>1, <3>3
    <3>4. CASE ~Dies(p)
      <4>1. /\ process'[p].force = ForcesRescan(p)
            /\ process'[p].pc = IF process[p].target = NoTarget THEN "save" ELSE "count"
            /\ process'[p].target = process[p].target
            /\ process'[p].added = process[p].added
        BY <2>13, <3>4, ParamsTo
      <4>2. process'[p].force \/ saved \in {Missing, process[p].target}
        BY <4>1 DEF ForcesRescan, ParamsChanged
      <4>3. Stage(p)'
        <5>1. CASE process[p].target = NoTarget
          BY <3>2, <4>1, <5>1 DEF Stage
        <5>2. CASE process[p].target # NoTarget
          BY <3>1, <3>2, <4>1, <4>2, <5>2 DEF Stage
        <5> QED
          BY <5>1, <5>2
      <4> QED
        BY <2>4, <2>7, <2>8, <3>1, <3>2, <4>3
    <3> QED
      BY <3>3, <3>4
  <2>14. CASE CheckCount(p) \/ CheckTotal(p)
    <3>1. UNCHANGED <<saved, new>> /\ process[p].pc \in {"count", "total"}
      BY <2>14 DEF CheckCount, CheckTotal, RegistryOnly, At
    <3>2. ~process[p].added
      BY <2>3, <3>1 DEF Stage
    <3>3. CASE Dies(p)
      BY <2>4, <2>6, <2>7, <2>8, <3>1, <3>3
    <3>4. CASE Goes(p, "boot") \/ Goes(p, "total")
      <4>1. /\ process'[p].pc \in {"boot", "total"}
            /\ process'[p].force = process[p].force
            /\ process'[p].target = process[p].target
            /\ process'[p].added = process[p].added
        BY <3>4, GoesTo
      <4>2. Stage(p)'
        BY <2>3, <3>1, <3>2, <4>1 DEF Stage
      <4> QED
        BY <2>4, <2>7, <2>8, <3>1, <3>2, <4>2
    <3> QED
      BY <2>14, <3>3, <3>4 DEF CheckCount, CheckTotal
  <2>15. CASE CheckInitialized(p)
    <3>1. UNCHANGED <<saved, new>> /\ process[p].pc = "boot" /\ ~process[p].force
      BY <2>15 DEF CheckInitialized, RegistryOnly, At
    <3>2. ~process[p].added /\ saved \in {Missing, process[p].target}
          /\ process[p].target # NoTarget
      BY <2>3, <2>5, <3>1 DEF Stage, NeedsTarget
    <3>3. /\ process'[p].pc = IF new.initialized THEN "save" ELSE "lock"
          /\ process'[p].target = process[p].target
          /\ process'[p].added = process[p].added
      BY <2>15, GoesTo DEF CheckInitialized, IsInitialized
    <3>4. Settled
      BY <2>4, <3>2
    <3>5. CutFor(new.list, process[p].target)
      <4>1. CASE saved = process[p].target
        BY <3>2, <3>4, <4>1 DEF Settled
      <4>2. CASE saved = Missing
        <5>1. \A i \in DOMAIN new.list : new.list[i].target # Missing
          <6>1. new.list \in Seq(Entry)
            BY <1>3 DEF Keys
          <6>2. \A i \in DOMAIN new.list : new.list[i] \in Entry
            BY <6>1
          <6> QED
            BY <6>2, Distinct DEF Entry
        <5> QED
          BY <3>4, <4>2, <5>1, Distinct DEF Settled, CutFor
      <4> QED
        BY <3>2, <4>1, <4>2
    <3>6. new.initialized => WholePool(new)
      BY <3>4 DEF Settled, SettledPool
    <3>7. Stage(p)'
      <4>1. CASE new.initialized
        BY <3>1, <3>2, <3>3, <3>5, <3>6, <4>1 DEF Stage
      <4>2. CASE ~new.initialized
        BY <3>1, <3>2, <3>3, <4>2 DEF Stage
      <4> QED
        BY <4>1, <4>2
    <3> QED
      BY <2>7, <2>8, <3>1, <3>4, <3>7
  <2>16. CASE BeginMaintenance(p) \/ AcquireInitLock(p)
    <3>1. UNCHANGED saved /\ process[p].pc \in {"boot", "lock"}
      BY <2>16 DEF BeginMaintenance, AcquireInitLock, At
    <3>2. Pools(new', new)
      BY <1>3, <2>8, <2>16, LockChanges DEF BeginMaintenance, AcquireInitLock, PoolStays, Pools
    <3>3. ~process[p].added
      BY <2>3, <3>1 DEF Stage
    <3>4. CASE Dies(p)
      BY <2>4, <2>6, <2>7, <3>1, <3>2, <3>4
    <3>5. CASE ~Dies(p)
      <4>1. /\ process'[p].pc \in {"clean", "build", "fail"}
            /\ process'[p].pc \in {"build", "fail"} => process[p].pc = "lock"
            /\ process'[p].added = process[p].added
        BY <2>16, <3>5, GoesTo DEF BeginMaintenance, AcquireInitLock, At
      <4>2. Stage(p)'
        BY <2>3, <3>2, <3>3, <4>1 DEF Stage, Pools
      <4> QED
        BY <2>4, <2>7, <3>1, <3>2, <3>3, <4>2
    <3> QED
      BY <3>4, <3>5
  <2>17. CASE CleanUp(p)
    <3>1. /\ UNCHANGED saved /\ new'.list = << >> /\ new'.reservations = << >>
          /\ ~new'.initialized
      BY <2>17 DEF CleanUp, CleanUpCoinRegistry, Nothing, RegistryOnly
    <3>2. process'[p].pc = "reset" /\ process'[p].added = process[p].added
          /\ process[p].pc = "clean"
      BY <2>17, GoesTo DEF CleanUp, At
    <3>3. Settled'
      BY <3>1, EmptyPool DEF Settled, SettledPool
    <3>4. Stage(p)'
      BY <2>3, <3>1, <3>2 DEF Stage
    <3> QED
      BY <3>3, <3>4
  <2>18. CASE Scan(p)
    <3>1. UNCHANGED saved /\ process[p].pc = "build"
      BY <2>18 DEF Scan, At
    <3>2. ~process[p].added /\ ~new.initialized
      BY <2>3, <3>1 DEF Stage
    <3>3. Settled /\ new.list = << >> /\ new.reservations = << >>
      BY <2>4, <3>2 DEF Settled, SettledPool
    <3>4. Pools(new', new)
      BY <1>3, <2>8, <2>18, LockChanges DEF Scan, PoolStays, Pools
    <3>5. CASE process[p].target \in TooSmall
      <4>1. CASE Dies(p)
        BY <2>4, <2>6, <2>7, <3>1, <3>4, <4>1
      <4>2. CASE ~Dies(p)
        <5>1. process'[p].pc = "fail" /\ process'[p].added = process[p].added
          BY <2>18, <3>5, <4>2, GoesTo DEF Scan
        <5>2. Stage(p)'
          BY <3>2, <3>4, <5>1 DEF Stage, Pools
        <5> QED
          BY <2>7, <3>1, <3>3, <3>4, <5>2
      <4> QED
        BY <4>1, <4>2
    <3>6. CASE process[p].target \notin TooSmall
      <4>1. process' = [process EXCEPT ![p].pc = "add", ![p].result = Coins] /\ UNCHANGED new
        BY <2>18, <3>6 DEF Scan
      <4>2. process'[p].pc = "add" /\ process'[p].result = Coins
            /\ process'[p].added = process[p].added
        BY <2>5, <4>1 DEF TypedInv, Starting
      <4>3. Building(p)'
        BY <3>3, <4>1, <4>2, EmptyPool DEF Building
      <4>4. Stage(p)'
        BY <3>2, <4>2, <4>3 DEF Stage
      <4> QED
        BY <2>7, <3>1, <3>3, <3>4, <4>4
    <3> QED
      BY <3>5, <3>6
  <2>19. CASE AddChunk(p)
    <3>0. UNCHANGED saved /\ process[p].pc = "add" /\ process[p].target # NoTarget
      BY <2>5, <2>19 DEF AddChunk, At, NeedsTarget
    <3>1. Building(p)
      BY <2>3, <3>0 DEF Stage
    <3>2. CASE /\ process[p].result = {}
               /\ new' = [new EXCEPT !.initLock = "free"]
               /\ Goes(p, IF process[p].force THEN "end" ELSE "save")
      <4>1. Pools(new', new)
        BY <1>3, <3>2, LockChanges DEF PoolStays, Pools
      <4>2. /\ process'[p].pc = IF process[p].force THEN "end" ELSE "save"
            /\ process'[p].target = process[p].target
            /\ process'[p].added = process[p].added
        BY <3>2, GoesTo
      <4>3. \A c \in Coins : Listed(new.list, c)
        BY <3>1, <3>2 DEF Building
      <4>4. WholePool(new)
        BY <3>1, <4>3, NoHoldings DEF WholePool, Building
      <4>5. new.initialized
        <5>1. new.list # << >>
          BY <4>3, StartupAssumption, EmptyPool
        <5> QED
          BY <3>1, <5>1 DEF Building
      <4>6. /\ new'.initialized /\ WholePool(new')
            /\ CutFor(new'.list, process'[p].target)
        <5>1. WholePool(new')
          BY <4>1, <4>4, SamePools
        <5> QED
          BY <3>1, <4>1, <4>2, <4>5, <5>1 DEF Building, Pools
      <4>7. Stage(p)'
        <5>1. process'[p].pc \in {"end", "save"} /\ process'[p].target # NoTarget
          BY <3>0, <4>2
        <5> QED
          BY <4>6, <5>1 DEF Stage
      <4> QED
        BY <2>4, <2>7, <3>0, <4>1, <4>2, <4>7
    <3>3. CASE \E c \in process[p].result :
            /\ new' = Pushed(p, c)
            /\ IF new.count = Missing
               THEN /\ process' = [process EXCEPT ![p] = Down]
                    /\ mishaps' = mishaps \cup {"unsaved", "killed"}
               ELSE /\ process' = [process EXCEPT
                         ![p].result = @ \ {c}, ![p].added = TRUE]
                    /\ UNCHANGED mishaps
      <4>1. PICK c \in process[p].result :
              /\ new' = Pushed(p, c)
              /\ process' = [process EXCEPT
                   ![p].result = process[p].result \ {c}, ![p].added = TRUE]
        BY <1>1, <3>3
      <4>2. /\ process'[p].pc = "add" /\ process'[p].added
            /\ process'[p].target = process[p].target
            /\ process'[p].result = process[p].result \ {c}
        BY <2>5, <3>0, <4>1 DEF TypedInv, Starting
      <4>3. Building(p)'
        BY <3>0, <3>1, <4>1, <4>2, PushedPoolIsBuilt DEF At, Building
      <4>4. Stage(p)'
        BY <3>0, <4>2, <4>3 DEF Stage
      <4> QED
        BY <4>2, <4>4
    <3> QED
      BY <2>19, <3>2, <3>3 DEF AddChunk
  <2>20. CASE EndMaintenance(p)
    <3>1. UNCHANGED saved /\ process[p].pc \in {"end", "fail"} /\ process[p].target # NoTarget
      BY <2>5, <2>20 DEF EndMaintenance, At, NeedsTarget
    <3>2. Pools(new', new)
      BY <1>3, <2>20, LockChanges DEF EndMaintenance, PoolStays, Pools
    <3>3. CASE Dies(p)
      BY <2>4, <2>6, <2>7, <3>1, <3>2, <3>3
    <3>4. CASE ~Dies(p)
      <4>1. /\ process[p].pc = "end" /\ process'[p].pc = "save"
            /\ process'[p].target = process[p].target
            /\ process'[p].added = process[p].added
        BY <2>20, <3>4, GoesTo DEF EndMaintenance, At
      <4>2. new.initialized /\ WholePool(new) /\ CutFor(new.list, process[p].target)
        BY <2>3, <3>1, <4>1 DEF Stage
      <4>3. new'.initialized /\ WholePool(new') /\ CutFor(new'.list, process'[p].target)
        <5>1. WholePool(new')
          BY <3>2, <4>2, SamePools
        <5> QED
          BY <3>2, <4>1, <4>2, <5>1 DEF Pools
      <4>4. Stage(p)'
        BY <3>1, <4>1, <4>3 DEF Stage
      <4> QED
        BY <2>4, <2>7, <3>1, <3>2, <4>1, <4>4
    <3> QED
      BY <3>3, <3>4
  <2>21. CASE SaveColdParams(p)
    <3>1. saved' = process[p].target /\ UNCHANGED new /\ process[p].pc = "save"
      BY <2>21 DEF SaveColdParams, At
    <3>2. process'[p].pc = "access" /\ process'[p].target = process[p].target
          /\ ~process'[p].added
      BY <2>21, SavedTo
    <3>3. process[p].target # NoTarget =>
            new.initialized /\ WholePool(new) /\ CutFor(new.list, process[p].target)
      BY <2>3, <3>1 DEF Stage
    <3>4. Settled'
      <4>1. CASE process[p].target # NoTarget
        BY <3>1, <3>3, <4>1 DEF Settled, SettledPool
      <4>2. CASE process[p].target = NoTarget
        <5>1. ~process[p].added
          BY <2>3, <4>2 DEF Stage
        <5> QED
          BY <2>4, <3>1, <4>2, <5>1 DEF Settled
      <4> QED
        BY <4>1, <4>2
    <3>5. Stage(p)'
      BY <3>1, <3>2, <3>3 DEF Stage
    <3> QED
      BY <3>4, <3>5
  <2>22. CASE Serve(p)
    <3>1. UNCHANGED <<saved, new>> /\ process[p].pc = "access"
      BY <2>22 DEF Serve, At
    <3>2. ~process[p].added /\ saved = process[p].target
      BY <2>3, <3>1 DEF Stage
    <3>3. CASE Dies(p)
      BY <2>4, <2>6, <2>7, <2>8, <3>1, <3>3
    <3>4. CASE ~Dies(p)
      <4>1. /\ process'[p].pc = "serve" /\ process'[p].target = process[p].target
            /\ process'[p].added = process[p].added
        BY <2>22, <3>4, GoesTo DEF Serve
      <4>2. process[p].target # NoTarget =>
              new.initialized /\ WholePool(new) /\ CutFor(new.list, process[p].target)
        BY <2>3, <3>1 DEF Stage
      <4>3. Stage(p)'
        BY <3>1, <3>2, <4>1, <4>2 DEF Stage
      <4> QED
        BY <2>4, <2>7, <2>8, <3>1, <3>2, <4>3
    <3> QED
      BY <3>3, <3>4
  <2>23. CASE Reserve(p)
    <3>1. UNCHANGED <<saved, process>> /\ process[p].pc = "serve" /\ new.list # << >>
      BY <2>23 DEF Reserve, RegistryOnly, At
    <3>2. ~process[p].added
      BY <2>3, <3>1 DEF Stage
    <3>3. Settled /\ new.initialized /\ WholePool(new)
      BY <2>4, <3>1, <3>2 DEF Settled, SettledPool
    <3>4. /\ WholePool(new')
          /\ \A target : CutFor(new.list, target) => CutFor(new'.list, target)
      BY <1>3, <2>23, <3>3, ReservedPoolIsWhole
    <3>5. new'.initialized = new.initialized
      BY <1>3, <2>23 DEF Reserve, Keys
    <3>6. Settled'
      BY <3>1, <3>3, <3>4, <3>5 DEF Settled, SettledPool
    <3>7. Stage(p)'
      BY <2>3, <3>1, <3>2, <3>3, <3>4, <3>5 DEF Stage
    <3> QED
      BY <3>6, <3>7
  <2> QED
    BY <1>8, <2>9, <2>10, <2>11, <2>12, <2>13, <2>14, <2>15, <2>16, <2>17, <2>18, <2>19,
       <2>20, <2>21, <2>22, <2>23 DEF StartStep
<1> HIDE DEF Unhurt
<1> QED
  BY <1>5, <1>6, <1>7, <1>8 DEF Next

-----------------------------------------------------------------------------
(* The inductive invariant, and what it says of the properties. *)
IInv ==
  TypedInv /\ LockInv /\ SchemaInv /\ MigrationInv /\ SoundInv /\ PoolInv

LEMMA IInvHolds == Spec => []IInv
<1>1. Init => IInv
  BY TypedAtFirst, LockInvAtFirst, SchemaInvAtFirst, MigrationInvAtFirst, SoundInvAtFirst,
     PoolInvAtFirst DEF IInv
<1>2. IInv /\ [Next]_vars => IInv'
  BY TypedStep, LockInvStep, SchemaInvStep, MigrationInvStep, SoundInvStep, PoolInvStep
     DEF IInv
<1> QED
  BY <1>1, <1>2, PTL DEF Spec

(* A coin of a whole pool is counted once. *)
LEMMA WholePoolsCountOnce ==
  ASSUME WholePool(new), NEW c \in Coins
  PROVE  Registered(c) = 1
<1> DEFINE I == {i \in DOMAIN new.list : new.list[i].coin = c}
           R == {r \in DOMAIN new.reservations : c \in new.reservations[r]}
<1>1. CASE \E i : i \in I
  <2>1. PICK i : i \in I
    BY <1>1
  <2>2. I = {i} /\ R = {}
    BY <2>1 DEF WholePool, EachOnce
  <2>3. Cardinality(I) = 1 /\ Cardinality(R) = 0
    BY <2>2, FS_Singleton, FS_EmptySet
  <2> HIDE DEF I, R
  <2>4. Cardinality(I) + Cardinality(R) = 1
    BY <2>3
  <2> QED
    BY <2>4 DEF Registered, I, R
<1>2. CASE \A i : i \notin I
  <2>1. PICK r \in DOMAIN new.reservations : c \in new.reservations[r]
    BY <1>2 DEF WholePool, Listed
  <2>2. I = {}
    BY <1>2
  <2>3. R = {r}
    BY <2>1 DEF WholePool
  <2>4. Cardinality(I) = 0 /\ Cardinality(R) = 1
    BY <2>2, <2>3, FS_Singleton, FS_EmptySet
  <2> HIDE DEF I, R
  <2>5. Cardinality(I) + Cardinality(R) = 1
    BY <2>4
  <2> QED
    BY <2>5 DEF Registered, I, R
<1> QED
  BY <1>1, <1>2

(* A station that serves has passed its stages. *)
LEMMA ServingStage ==
  ASSUME PoolInv, Unharmed({"overlap", "unsaved"}), NEW p \in Processes,
         At(p, "serve"), process[p].target # NoTarget
  PROVE  WholePool(new) /\ CutFor(new.list, process[p].target)
BY DEF PoolInv, Stage, At

(* A key is renamed before anything was saved. *)
LEMMA MigrationComesFirst ==
  ASSUME IInv, [Next]_vars, ~Raced, "cleanup" \notin mishaps,
         NEW k \in KeySuffixes, Renamed(k), old'[k] # old[k]
  PROVE  saved = Missing
<1> USE DEF IInv
<1>1. PICK p \in Processes : Migrate(p)
  BY OnlyMigrationTouchesOld
<1>2. ~Drained
  <2> SUFFICES ASSUME Drained PROVE FALSE
    OBVIOUS
  <2>1. old[k] # Nothing[k] /\ new[k] = Nothing[k]
    BY DEF Renamed
  <2>2. old.maintenanceLock = Missing
    BY DEF LockInv
  <2>3. k \notin {"list", "count", "expirationQueue", "nextReservationId", "initialized",
                  "maintenanceLock"}
    <3>1. /\ old["list"] = Nothing["list"] /\ old["count"] = Nothing["count"]
          /\ old["expirationQueue"] = Nothing["expirationQueue"]
          /\ old["nextReservationId"] = Nothing["nextReservationId"]
          /\ old["maintenanceLock"] = Nothing["maintenanceLock"]
      BY <2>2 DEF Drained, Bare, Nothing
    <3>2. old.initialized = FALSE
      BY DEF Drained, Bare, TypedInv, Keys
    <3>3. old["initialized"] = Nothing["initialized"]
      BY <3>2 DEF Nothing
    <3> QED
      BY <2>1, <3>1, <3>3
  <2>4. k = "initLock"
    BY <2>3 DEF KeySuffixes
  <2> QED
    BY <2>1, <2>4 DEF Drained, Nothing
<1>3. /\ \A q \in Processes : At(q, "migrate") => ~new.schema
      /\ "migration" \notin mishaps => \A q \in Processes : Early(q)
      /\ "overlap" \notin mishaps => OneAtATime
  BY <1>2 DEF MigrationInv
<1>4. At(p, "migrate") /\ ~new.schema
  BY <1>1, <1>3 DEF Migrate
<1>5. \A q \in Processes : ~At(q, "reset")
  BY <1>3, <1>4 DEF Raced, OneAtATime, At, Early
<1> QED
  BY <1>4, <1>5 DEF SchemaInv

(* Every coin, target, flag, count and parameter is what it is taken for,
   whatever is migrated, rebuilt or killed (command.rs, migration.rs,
   cold_params.rs). *)
THEOREM StartupIsTyped == Spec => []TypeOK
<1>1. IInv => TypeOK
  BY TypedInvIsTypeOK DEF IInv
<1> QED
  BY <1>1, IInvHolds, PTL

(* A lock is held by a start that is in its section, or was left by one that
   was killed there: no refused or failed start blocks the next, however many
   there are (gas_station_initializer.rs:237). *)
THEOREM LocksStayReleasable == Spec => []LocksAreReleased
<1>1. IInv => LocksAreReleased
  BY DEF IInv, LockInv
<1> QED
  BY <1>1, IInvHolds, PTL

(* The count follows the list through migration, rebuild and failure, and every
   reservation that was migrated is in the queue that expires it, with an id
   that is not given out again (migration.rs, coin_stats.rs). *)
THEOREM RegistryStaysSound == Spec => []RegistryIsSound
<1>1. IInv => RegistryIsSound
  BY DEF IInv, SoundInv, RegistryIsSound
<1> QED
  BY <1>1, IInvHolds, PTL

(* Whoever serves after starts in any number, with any targets and flags, none
   of which overlapped or died before it saved its parameters, has a pool cut
   for its own target (config/cold_params.rs:5). *)
THEOREM PoolsFitTheirTarget == Spec => []PoolFitsTarget
<1>1. IInv => PoolFitsTarget
  BY ServingStage DEF IInv, PoolFitsTarget, ServesWithItsTarget, CutFor
<1> QED
  BY <1>1, IInvHolds, PTL

(* ... and all coins of the sponsor, each of them once: no upgrade, rebuild or
   refused start leaves one behind or enters it twice. *)
THEOREM CoinsStayRegistered == Spec => []AllCoinsAreRegistered
<1>1. IInv => AllCoinsAreRegistered
  BY ServingStage, WholePoolsCountOnce DEF IInv, AllCoinsAreRegistered
<1> QED
  BY <1>1, IInvHolds, PTL

(* No key of the earlier version comes into a registry that is in use, unless
   starts have raced or a cleanup was killed (migration.rs, command.rs). *)
THEOREM MigrationIsOverInTime == Spec => MigrationIsOver
<1>1. IInv /\ [Next]_vars =>
        [(\E k \in KeySuffixes : Renamed(k) /\ old'[k] # old[k])
           => saved = Missing \/ Raced \/ "cleanup" \in mishaps]_vars
  BY MigrationComesFirst
<1> QED
  BY <1>1, IInvHolds, PTL DEF Spec, MigrationIsOver

-----------------------------------------------------------------------------
(* The consistency check. *)
LEMMA DivergenceIsSymmetric ==
  ASSUME NEW a \in Nat, NEW b \in Nat, NEW percent \in Nat
  PROVE  DivergesBy(a, b, percent) <=> DivergesBy(b, a, percent)
BY DEF DivergesBy, Larger, AbsDiff

(* By the default thresholds, as the code measures it, two values diverge when
   more than a fifth of the larger is missing from the smaller. *)
LEMMA DivergenceIsAFifth ==
  ASSUME NEW a \in Nat, NEW b \in Nat, a <= b
  PROVE  DivergesBy(a, b, DEFAULT_DIVERGENCE_THRESHOLD_PERCENT) <=> 5 * a < 4 * b
BY DEF DivergesBy, Larger, AbsDiff, DEFAULT_DIVERGENCE_THRESHOLD_PERCENT

(* A start that does not warn has a registry with at least four fifths of the
   coins and of the balance that the network shows, and the network shows as
   much of what the registry has: neither a registry that has lost more than
   that, nor one with so many coins that are gone or entered twice, passes
   (consistency_check.rs:51-83). *)
THEOREM NoWarningMeansFourFifths ==
  ASSUME NEW pages, NEW registry,
         registry.balance \in Nat, registry.count \in Nat,
         AggregateCoinStats(pages).balance \in Nat,
         AggregateCoinStats(pages).count \in Nat,
         None \notin Int
  PROVE  LET network == AggregateCoinStats(pages)
         IN  Warnings(registry, pages) = {} <=>
               /\ 5 * registry.balance >= 4 * network.balance
               /\ 5 * network.balance >= 4 * registry.balance
               /\ 5 * registry.count >= 4 * network.count
               /\ 5 * network.count >= 4 * registry.count
<1> DEFINE network == AggregateCoinStats(pages)
<1>1. Warnings(registry, pages) # {} <=>
        \/ DivergesBy(registry.balance, network.balance,
                      DEFAULT_DIVERGENCE_THRESHOLD_PERCENT)
        \/ DivergesBy(registry.count, network.count,
                      DEFAULT_DIVERGENCE_THRESHOLD_PERCENT)
  BY DEF Warnings, LogConsistencyWarnings, HasDivergence, ValidateConsistency, UnwrapOr
<1>2. ASSUME NEW a \in Nat, NEW b \in Nat
      PROVE  ~DivergesBy(a, b, DEFAULT_DIVERGENCE_THRESHOLD_PERCENT) <=>
               5 * a >= 4 * b /\ 5 * b >= 4 * a
  <2>1. CASE a <= b
    BY <2>1, DivergenceIsAFifth
  <2>2. CASE b <= a
    <3>1. DivergesBy(a, b, DEFAULT_DIVERGENCE_THRESHOLD_PERCENT) <=>
            DivergesBy(b, a, DEFAULT_DIVERGENCE_THRESHOLD_PERCENT)
      BY DivergenceIsSymmetric DEF DEFAULT_DIVERGENCE_THRESHOLD_PERCENT
    <3> QED
      BY <2>2, <3>1, DivergenceIsAFifth
  <2> QED
    BY <2>1, <2>2
<1> HIDE DEF network
<1>3. network.balance \in Nat /\ network.count \in Nat
  BY DEF network
<1>4. Warnings(registry, pages) = {} <=>
        /\ 5 * registry.balance >= 4 * network.balance
        /\ 5 * network.balance >= 4 * registry.balance
        /\ 5 * registry.count >= 4 * network.count
        /\ 5 * network.count >= 4 * registry.count
  BY <1>1, <1>2, <1>3
<1> QED
  BY <1>4 DEF network

-----------------------------------------------------------------------------
(* A name with one part more. *)
LEMMA OnePartMore ==
  ASSUME NEW Parts, NEW name \in Seq(Parts), NEW last \in Parts,
         NEW whole, whole = Append(name, last)
  PROVE  /\ whole \in Seq(Parts) /\ Len(whole) = Len(name) + 1
         /\ \A i \in 1 .. Len(name) : whole[i] = name[i]
         /\ whole[Len(name) + 1] = last
  OBVIOUS

(* A name and its parts, for three and for four. *)
LEMMA FourAre ==
  ASSUME NEW Parts, NEW key \in Seq(Parts), NEW a, NEW b, NEW c, NEW d
  PROVE  key = <<a, b, c, d>> <=>
           Len(key) = 4 /\ key[1] = a /\ key[2] = b /\ key[3] = c /\ key[4] = d
  OBVIOUS

LEMMA IsThree ==
  ASSUME NEW Parts, NEW whole, NEW a, NEW b, NEW c,
         whole \in Seq(Parts) /\ Len(whole) = 3 /\ whole[1] = a /\ whole[2] = b /\ whole[3] = c
  PROVE  whole = <<a, b, c>>
  OBVIOUS

LEMMA IsFour ==
  ASSUME NEW Parts, NEW whole, NEW a, NEW b, NEW c, NEW d,
         whole \in Seq(Parts) /\ Len(whole) = 4 /\ whole[1] = a /\ whole[2] = b /\ whole[3] = c /\ whole[4] = d
  PROVE  whole = <<a, b, c, d>>
  BY FourAre

(* A third and a fourth part appended. *)
LEMMA ThreeParts ==
  ASSUME NEW Parts, NEW a \in Parts, NEW b \in Parts, NEW c \in Parts
  PROVE  Append(<<a, b>>, c) = <<a, b, c>>
<1>1. PICK name : name = <<a, b>>
  OBVIOUS
<1>4. name \in Seq(Parts) /\ Len(name) = 2 /\ name[1] = a /\ name[2] = b
  BY <1>1
<1>2. PICK whole : whole = Append(name, c)
  OBVIOUS
<1>3. /\ whole \in Seq(Parts) /\ Len(whole) = Len(name) + 1
      /\ \A i \in 1 .. Len(name) : whole[i] = name[i]
      /\ whole[Len(name) + 1] = c
  BY <1>2, <1>4, OnePartMore
<1>5. whole \in Seq(Parts) /\ Len(whole) = 3 /\ whole[1] = a /\ whole[2] = b /\ whole[3] = c
  BY <1>3, <1>4
<1>6. whole = <<a, b, c>>
  BY <1>5, IsThree
<1> QED
  BY <1>1, <1>2, <1>6

LEMMA FourParts ==
  ASSUME NEW Parts, NEW a \in Parts, NEW b \in Parts, NEW c \in Parts, NEW d \in Parts
  PROVE  Append(<<a, b, c>>, d) = <<a, b, c, d>>
<1>1. PICK name : name = <<a, b, c>>
  OBVIOUS
<1>4. name \in Seq(Parts) /\ Len(name) = 3 /\ name[1] = a /\ name[2] = b /\ name[3] = c
  BY <1>1
<1>2. PICK whole : whole = Append(name, d)
  OBVIOUS
<1>3. /\ whole \in Seq(Parts) /\ Len(whole) = Len(name) + 1
      /\ \A i \in 1 .. Len(name) : whole[i] = name[i]
      /\ whole[Len(name) + 1] = d
  BY <1>2, <1>4, OnePartMore
<1>5. whole \in Seq(Parts) /\ Len(whole) = 4 /\ whole[1] = a /\ whole[2] = b /\ whole[3] = c /\ whole[4] = d
  BY <1>3, <1>4
<1>6. whole = <<a, b, c, d>>
  BY <1>5, IsFour
<1> QED
  BY <1>1, <1>2, <1>6

(* The first three parts of a longer name. *)
LEMMA FirstThree ==
  ASSUME NEW Parts, NEW a \in Parts, NEW b \in Parts, NEW c \in Parts,
         NEW key \in Seq(Parts), Len(key) > 3
  PROVE  SubSeq(key, 1, 3) = <<a, b, c>> <=> key[1] = a /\ key[2] = b /\ key[3] = c
<1>1. PICK front : front = SubSeq(key, 1, 3)
  OBVIOUS
<1>2. /\ front \in Seq(Parts) /\ Len(front) = 3
      /\ front[1] = key[1] /\ front[2] = key[2] /\ front[3] = key[3]
  BY <1>1
<1>3. front = <<a, b, c>> <=> front[1] = a /\ front[2] = b /\ front[3] = c
  BY <1>2
<1> QED
  BY <1>1, <1>2, <1>3

(* What the keys of a station are named with. *)
KeyParts(url, sponsor) ==
  {<<url.host, Port(url)>>, sponsor, "registry", "maintenance_lock", "init_lock",
   "cold_params", "tracker"}

(* What clean_up_coin_registry.lua removes (lines 8-37): of the keys in Redis
   exactly those of the registry of its own host, port and sponsor, except the
   two locks, which the start still holds; nothing, where the host is written
   in brackets. *)
THEOREM CleanUpTakesTheRegistry ==
  ASSUME NEW Parts, NEW url, NEW sponsor, KeyParts(url, sponsor) \subseteq Parts,
         NEW keys \in SUBSET Seq(Parts), NEW key \in keys
  PROVE  key \in CleanedUp(GenerateNamespace(GetStorageNamespace(url, sponsor)), keys)
           <=> /\ url.host \notin Bracketed
               /\ Len(key) > 3
               /\ key[1] = <<url.host, Port(url)>>
               /\ key[2] = sponsor
               /\ key[3] = "registry"
               /\ Len(key) = 4 => key[4] \notin {"maintenance_lock", "init_lock"}
<1>1. PICK node \in Parts : node = <<url.host, Port(url)>>
  BY DEF KeyParts
<1>2. sponsor \in Parts /\ key \in Seq(Parts)
  BY DEF KeyParts
<1>3. PICK registry \in Parts : registry = "registry"
  BY DEF KeyParts
<1>4. PICK maintenance \in Parts : maintenance = "maintenance_lock"
  BY DEF KeyParts
<1>5. PICK init \in Parts : init = "init_lock"
  BY DEF KeyParts
<1>6. PICK namespace : namespace = <<node, sponsor, registry>>
  OBVIOUS
<1>7. GenerateNamespace(GetStorageNamespace(url, sponsor)) = namespace
  BY <1>1, <1>2, <1>3, <1>6, ThreeParts DEF GenerateNamespace, GetStorageNamespace
<1>8. /\ Append(namespace, maintenance) = <<node, sponsor, registry, maintenance>>
      /\ Append(namespace, init) = <<node, sponsor, registry, init>>
  BY <1>2, <1>6, FourParts
<1>9. Len(namespace) = 3 /\ namespace[1][1] = url.host
  BY <1>1, <1>6
<1> DEFINE begins == key[1] = node /\ key[2] = sponsor /\ key[3] = registry
<1>10. ASSUME Len(key) > 3 PROVE SubSeq(key, 1, 3) = namespace <=> begins
  BY <1>2, <1>6, <1>10, FirstThree
<1>11. /\ key = <<node, sponsor, registry, maintenance>>
             <=> Len(key) = 4 /\ begins /\ key[4] = maintenance
       /\ key = <<node, sponsor, registry, init>>
             <=> Len(key) = 4 /\ begins /\ key[4] = init
  BY <1>2, FourAre
<1> HIDE DEF begins
<1>12. IsIn(namespace, key) <=> Len(key) > 3 /\ begins
  BY <1>9, <1>10 DEF IsIn
<1>13. key \in CleanedUp(namespace, keys) <=>
         /\ IsIn(namespace, key) /\ url.host \notin Bracketed
         /\ ~(Len(key) = 4 /\ begins /\ key[4] \in {maintenance, init})
  BY <1>4, <1>5, <1>8, <1>9, <1>11 DEF CleanedUp, Matching
<1> QED
  BY <1>1, <1>3, <1>4, <1>5, <1>7, <1>12, <1>13 DEF begins

(* Stations that differ in host, port or sponsor never clean up each other's
   keys, and nobody's cleanup removes counters, cold parameters or what the
   earlier version left under the sponsor alone (a sponsor is no pair of host
   and port), whatever else the Redis holds. *)
THEOREM CleanUpStaysInItsNamespace ==
  ASSUME NEW Parts, NEW url, NEW sponsor, KeyParts(url, sponsor) \subseteq Parts,
         NEW other, NEW another, KeyParts(other, another) \subseteq Parts,
         NEW keys \in SUBSET Seq(Parts),
         NEW key \in CleanedUp(GenerateNamespace(GetStorageNamespace(url, sponsor)), keys)
  PROVE  /\ key \in CleanedUp(GenerateNamespace(GetStorageNamespace(other, another)), keys)
              => /\ <<url.host, Port(url)>> = <<other.host, Port(other)>>
                 /\ sponsor = another
         /\ ~IsIn(GetTrackerNamespace(GetStorageNamespace(other, another)), key)
         /\ key # GetColdParamsKey(GetStorageNamespace(other, another))
         /\ another # <<url.host, Port(url)>> => ~IsIn(OldNamespace(another), key)
<1>1. key \in keys /\ key \in Seq(Parts)
  BY DEF CleanedUp, Matching
<1>2. ASSUME NEW node, NEW name, KeyParts(node, name) \subseteq Parts,
             key \in CleanedUp(GenerateNamespace(GetStorageNamespace(node, name)), keys)
      PROVE  /\ Len(key) > 3
             /\ key[1] = <<node.host, Port(node)>> /\ key[2] = name
             /\ key[3] = "registry"
  <2>1. key \in CleanedUp(GenerateNamespace(GetStorageNamespace(node, name)), keys)
        <=> /\ node.host \notin Bracketed
            /\ Len(key) > 3
            /\ key[1] = <<node.host, Port(node)>>
            /\ key[2] = name
            /\ key[3] = "registry"
            /\ Len(key) = 4 => key[4] \notin {"maintenance_lock", "init_lock"}
    BY <1>1, <1>2, CleanUpTakesTheRegistry, Zenon
  <2> QED
    BY <1>2, <2>1, Zenon
<1>3. /\ Len(key) > 3
      /\ key[1] = <<url.host, Port(url)>> /\ key[2] = sponsor /\ key[3] = "registry"
  BY <1>2
<1>4. ASSUME key \in
               CleanedUp(GenerateNamespace(GetStorageNamespace(other, another)), keys)
      PROVE  key[1] = <<other.host, Port(other)>> /\ key[2] = another
  BY <1>2, <1>4
<1>5. PICK theirs \in Parts : theirs = <<other.host, Port(other)>>
  BY DEF KeyParts
<1>6. another \in Parts
  BY DEF KeyParts
<1>7. ~IsIn(GetTrackerNamespace(GetStorageNamespace(other, another)), key)
  <2>1. PICK tracker \in Parts : tracker = "tracker"
    BY DEF KeyParts
  <2>2. GetTrackerNamespace(GetStorageNamespace(other, another))
          = <<theirs, another, tracker>>
    BY <1>5, <1>6, <2>1, ThreeParts DEF GetTrackerNamespace, GetStorageNamespace
  <2>3. SubSeq(key, 1, 3) = <<theirs, another, tracker>> => key[3] = tracker
    BY <1>1, <1>3, <1>5, <1>6, <2>1, FirstThree
  <2>4. key[3] # tracker
    BY <1>3, <2>1
  <2>5. Len(<<theirs, another, tracker>>) = 3
    OBVIOUS
  <2> QED
    BY <2>2, <2>3, <2>4, <2>5 DEF IsIn
<1>8. key # GetColdParamsKey(GetStorageNamespace(other, another))
  <2>1. PICK cold \in Parts : cold = "cold_params"
    BY DEF KeyParts
  <2>2. GetColdParamsKey(GetStorageNamespace(other, another)) = <<theirs, another, cold>>
    BY <1>5, <1>6, <2>1, ThreeParts DEF GetColdParamsKey, GetStorageNamespace
  <2>3. PICK params : params = <<theirs, another, cold>>
    OBVIOUS
  <2>4. Len(params) = 3
    BY <2>3
  <2>5. ~(Len(params) > 3)
    BY <2>4
  <2>6. key # params
    BY <1>3, <2>5, Zenon
  <2> QED
    BY <2>2, <2>3, <2>6
<1>9. another # <<url.host, Port(url)>> => ~IsIn(OldNamespace(another), key)
  <2> SUFFICES ASSUME another # key[1], IsIn(OldNamespace(another), key) PROVE FALSE
    BY <1>3
  <2>1. PICK front : front = SubSeq(key, 1, 1)
    OBVIOUS
  <2>2. front[1] = key[1]
    BY <1>1, <1>3, <2>1
  <2>3. front = <<another>>
    BY <2>1 DEF IsIn, OldNamespace
  <2> QED
    BY <2>2, <2>3
<1> QED
  BY <1>3, <1>4, <1>7, <1>8, <1>9
=============================================================================
