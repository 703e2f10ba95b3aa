------------------------- MODULE GasStationProofs -------------------------
(***************************************************************************)
(* Proofs about the gas stations, for any set of coins, tasks and stations: *)
(*                                                                         *)
(*   - TypeOK, by the invariant TInv.  What the ledger sums and compares is  *)
(*     a set of coins, so the sums are shown to be numbers first;            *)
(*   - SingleCustody while no reply of Redis has been lost, by CInv: what a  *)
(*     task or an unlock task is about to give back is its own;              *)
(*   - the refinement of CoinPool under the same condition.  A holder of the *)
(*     model is an owner of the pool, and each step moves coins from one set *)
(*     of holders to another, or moves none;                                 *)
(*   - PoolIsSpendable and NoCoinIsLost under the same condition, by         *)
(*     SpendableInv and KeepInv: what is given back is what the ledger has,  *)
(*     and all that is live of what was held.                                *)
(***************************************************************************)
EXTENDS GasStation, CoinRegistryProofs

LEMMA TotalBalanceIsTotal ==
  ASSUME NEW S, IsFiniteSet(S)
  PROVE  TotalBalance(S) = Total([c \in S |-> c.balance], S)
<1> DEFINE f == [c \in S |-> c.balance]
           Def(g) == g = [s \in SUBSET S |->
                            IF s = {} THEN 0
                            ELSE Taken(s).balance + g[s \ {Taken(s)}]]
           sum == CHOOSE g : Def(g)
<1>1. ASSUME NEW g
      PROVE  Def(g) <=> Sums(g, f, S)
  <2>1. \A s \in SUBSET S : s # {} => f[Taken(s)] = Taken(s).balance
    BY DEF Taken
  <2> HIDE DEF f
  <2> QED
    BY <2>1 DEF Sums
<1>2. TotalBalance(S) = sum[S]
  BY DEF TotalBalance, MapThenSumSet, MapThenFoldSet, Taken
<1>3. \E g : Def(g)
  BY <1>1, SumsExist
<1> HIDE DEF f
<1>4. Sums(sum, f, S)
  BY <1>1, <1>3
<1> HIDE DEF sum
<1> QED
  BY <1>2, <1>4, TotalIsUnique DEF f

LEMMA TotalBalanceType ==
  ASSUME NEW S, IsFiniteSet(S), S \subseteq Coin
  PROVE  TotalBalance(S) \in Nat
<1>1. \A c \in S : [d \in S |-> d.balance][c] \in Nat
  BY DEF Coin
<1> QED
  BY <1>1, TotalBalanceIsTotal, TotalIsNatural

(* Some coin has the latest version. *)
LEMMA LatestVersion ==
  ASSUME NEW P, IsFiniteSet(P), P \subseteq Coin, P # {}
  PROVE  /\ Max({c.version : c \in P}) \in Nat
         /\ \A c \in P : c.version <= Max({d.version : d \in P})
<1> DEFINE Later(c) == {d \in P : d.version > c.version}
           T == {n \in Nat : \E c \in P : Cardinality(Later(c)) = n}
<1>1. \A c \in P : c.version \in Nat
  BY DEF Coin
<1>2. \A c \in P : IsFiniteSet(Later(c)) /\ Cardinality(Later(c)) \in Nat
  BY FS_Subset, FS_CardinalityType
<1>3. PICK m \in T : \A n \in T : m <= n
  <2>1. T \subseteq Nat /\ T # {}
    BY <1>2
  <2> HIDE DEF T
  <2> QED
    BY <2>1, LeastNatural
<1>4. PICK c \in P : Cardinality(Later(c)) = m
  BY <1>3
<1>5. ASSUME NEW d \in P, d.version > c.version PROVE FALSE
  <2>1. Later(d) \subseteq Later(c) /\ Later(d) # Later(c)
    <3>1. d \in Later(c) /\ d \notin Later(d)
      BY <1>1, <1>5
    <3>2. ASSUME NEW e \in Later(d) PROVE e \in Later(c)
      BY <1>1, <1>5
    <3> QED
      BY <3>1, <3>2
  <2>2. Cardinality(Later(d)) < m
    <3> HIDE DEF Later
    <3>1. /\ Cardinality(Later(d)) <= Cardinality(Later(c))
          /\ Cardinality(Later(d)) = Cardinality(Later(c)) => Later(c) = Later(d)
      BY <2>1, <1>2, FS_Subset
    <3> QED
      BY <3>1, <2>1, <1>2, <1>4
  <2>3. Cardinality(Later(d)) \in T
    BY <1>2
  <2> QED
    BY <2>2, <2>3, <1>2, <1>3
<1>6. \A d \in P : c.version >= d.version
  BY <1>1, <1>5
<1> DEFINE V == {d.version : d \in P}
<1>7. V \subseteq Nat /\ c.version \in V /\ \A v \in V : c.version >= v
  BY <1>1, <1>6
<1> HIDE DEF V
<1>8. Max(V) \in V /\ \A v \in V : v <= Max(V)
  BY <1>7 DEF Max
<1> QED
  BY <1>7, <1>8 DEF V

-----------------------------------------------------------------------------
(* TypeOK is not inductive: the sums need finite sets, and the grants payments
   that are not empty. *)
PoolTyped ==
  /\ available \in Seq(Coin)
  /\ nextReservationId \in Nat
  /\ \A r \in DOMAIN reservations :
       /\ r \in Nat
       /\ r <= nextReservationId
       /\ reservations[r] \in Seq(CoinIds)

Payments == {p \in Seq(ObjectRef) : Len(p) > 0}
LateCommits == [paid : SUBSET ObjectRef, left : Coin]

ChainTyped ==
  /\ ledger \subseteq Coin /\ IsFiniteSet(ledger)
  /\ fullnode \subseteq Coin /\ IsFiniteSet(fullnode)
  /\ sent \subseteq Payments
  /\ late \subseteq LateCommits

GrantsTyped ==
  \A g \in granted :
    /\ g \in [reservation : Nat, coins : Seq(ObjectRef)]
    /\ Len(g.coins) > 0

TasksTyped ==
  /\ task \in [Tasks -> [pc : TaskPCs, payment : Seq(ObjectRef),
                         before : Nat, updated : Seq(Coin)]]
  /\ \A t \in Tasks :
       task[t].pc \in {"query", "execute", "latest"} => Len(task[t].payment) > 0

UnlockersTyped ==
  unlocker \in [Stations -> [pc : UnlockerPCs, batch : SUBSET CoinIds,
                             updated : Seq(Coin)]]

ProcessesTyped ==
  /\ rescanQueue \in [Stations -> 0 .. RescanBuffer]
  /\ up \subseteq Stations
  /\ crashes \in Nat
  /\ lostReplies \in Nat

Typed ==
  /\ PoolTyped
  /\ ChainTyped
  /\ GrantsTyped
  /\ TasksTyped
  /\ UnlockersTyped
  /\ ProcessesTyped

(* As long as nobody cleans the registry up, the total is there and the
   reservation ids grow. *)
RegistryKept ==
  /\ availableTotal \in Int
  /\ \A g \in granted : g.reservation <= nextReservationId

TInv == Typed /\ RegistryKept

LEMMA SequencesOfCoins ==
  ASSUME NEW S, IsFiniteSet(S), S \subseteq Coin, NEW s \in SetToSeqs(S)
  PROVE  /\ s \in Seq(Coin)
         /\ \A i \in DOMAIN s : s[i] \in S
         /\ \A i, j \in DOMAIN s : i # j => s[i] # s[j]
<1>1. Cardinality(S) \in Nat
  BY FS_CardinalityType
<1>2. /\ s \in [1 .. Cardinality(S) -> S]
      /\ \A i, j \in 1 .. Cardinality(S) : i # j => s[i] # s[j]
  BY DEF SetToSeqs
<1> QED
  BY <1>1, <1>2

LEMMA LatestAreShown ==
  ASSUME ChainTyped, NEW ids
  PROVE  /\ LatestGasObjects(ids) \subseteq fullnode
         /\ IsFiniteSet(LatestGasObjects(ids))
         /\ \A c \in LatestGasObjects(ids) : c.id \in ids
<1>1. /\ LatestGasObjects(ids) \subseteq fullnode
      /\ \A c \in LatestGasObjects(ids) : c.id \in ids
  BY DEF LatestGasObjects, TryGetIotaCoinBalance
<1> QED
  BY <1>1, FS_Subset DEF ChainTyped

(* What reserve_gas_coins.lua grants is a front part of the list that is not
   empty. *)
LEMMA GrantTakesTheFront ==
  ASSUME PoolTyped, NEW budget \in Nat \ {0}, NEW duration,
         ReserveGranted(budget, duration)
  PROVE  \E n \in 1 .. Len(available) : \E taken \in Seq(Coin) :
           /\ n = PoppedCoins(budget)
           /\ taken = SubSeq(available, 1, n)
           /\ Len(taken) = n
           /\ available = taken \o available'
           /\ available' \in Seq(Coin)
           /\ nextReservationId' = nextReservationId + 1
           /\ reservations' =
                [x \in DOMAIN reservations \cup {nextReservationId + 1} |->
                   IF x = nextReservationId + 1 THEN IdsOf(taken)
                   ELSE reservations[x]]
<1> DEFINE n == PoppedCoins(budget)
           taken == SubSeq(available, 1, n)
<1>1. available \in Seq(Coin) /\ Len(available) \in Nat
  BY DEF PoolTyped
<1>2. n \in 0 .. Len(available)
  BY <1>1, PoppedCoinsProperties
<1>3. n # 0
  <2>1. PrefixBalance(available)[0] = 0
    BY <1>1, PrefixBalanceSums DEF SumsTo
  <2>2. PrefixBalance(available)[n] >= budget
    BY DEF ReserveGranted, EnoughCoins
  <2> QED
    BY <2>1, <2>2
<1>4. /\ taken \in Seq(Coin) /\ Len(taken) = n
      /\ available = taken \o SubSeq(available, n + 1, Len(available))
      /\ SubSeq(available, n + 1, Len(available)) \in Seq(Coin)
  BY <1>1, <1>2, SplitAt
<1> HIDE DEF n, taken
<1>6. /\ available' = SubSeq(available, n + 1, Len(available))
      /\ nextReservationId' = nextReservationId + 1
      /\ reservations' =
           [x \in DOMAIN reservations \cup {nextReservationId + 1} |->
              IF x = nextReservationId + 1 THEN IdsOf(taken)
              ELSE reservations[x]]
  BY DEF ReserveGranted, NewReservationId, n, taken
<1>8. n \in 1 .. Len(available)
  BY <1>1, <1>2, <1>3
<1>9. n = PoppedCoins(budget) /\ taken = SubSeq(available, 1, n)
  BY DEF n, taken
<1>10. available' \in Seq(Coin) /\ available = taken \o available'
  BY <1>4, <1>6
<1> QED
  <2> n \in 1 .. Len(available) /\ taken \in Seq(Coin)
    BY <1>4, <1>8
  <2> WITNESS n \in 1 .. Len(available), taken \in Seq(Coin)
  <2> QED
    BY <1>4, <1>6, <1>9, <1>10, Zenon

LEMMA GasCoinIsTyped ==
  ASSUME ChainTyped, NEW payment \in Payments, NEW gas \in NetGas,
         Commit(payment, gas)
  PROVE  GasCoin(payment, gas) \in Coin
<1> DEFINE paid == PaidCoins(payment)
<1>1. /\ payment \in Seq(ObjectRef) /\ Len(payment) \in Nat /\ Len(payment) > 0
      /\ payment[1] \in ObjectRef
  <2>1. payment \in Seq(ObjectRef) /\ Len(payment) > 0
    BY DEF Payments
  <2> QED
    BY <2>1, ElementOfSeq
<1>2. paid \subseteq ledger /\ paid \subseteq Coin /\ IsFiniteSet(paid)
  <2>1. paid \subseteq ledger
    BY DEF PaidCoins
  <2> QED
    BY <2>1, FS_Subset DEF ChainTyped
<1> HIDE DEF paid
<1>3. Cardinality(paid) = Len(payment) /\ TotalBalance(paid) >= gas
  BY DEF Commit, Executable, paid
<1>4. paid # {}
  <2>1. Cardinality(paid) # 0
    BY <1>1, <1>3
  <2> QED
    BY <2>1, FS_EmptySet, Zenon
<1>5. TotalBalance(paid) \in Nat /\ gas \in Int
  BY <1>2, TotalBalanceType, GasStationAssumption
<1>6. Max({c.version : c \in paid}) \in Nat
  BY <1>2, <1>4, LatestVersion
<1>7. GasCoin(payment, gas) =
        [id |-> payment[1].id, balance |-> TotalBalance(paid) - gas,
         version |-> 1 + Max({c.version : c \in paid})]
  BY DEF GasCoin, paid
<1> QED
  BY <1>1, <1>3, <1>5, <1>6, <1>7 DEF Coin, ObjectRef

LEMMA CommitIsTyped ==
  ASSUME ChainTyped, NEW payment \in Payments, NEW gas \in NetGas,
         Commit(payment, gas), sent' \subseteq Payments, late' \subseteq LateCommits
  PROVE  ChainTyped' /\ GasCoin(payment, gas) \in Coin
<1>1. GasCoin(payment, gas) \in Coin
  BY GasCoinIsTyped
<1>2. ledger' = (ledger \ PaidCoins(payment)) \cup {GasCoin(payment, gas)}
  BY DEF Commit
<1>3. IsFiniteSet(ledger') /\ ledger' \subseteq Coin
  <2>1. IsFiniteSet(ledger \ PaidCoins(payment))
    BY FS_Subset DEF ChainTyped
  <2> QED
    BY <1>1, <1>2, <2>1, FS_AddElement DEF ChainTyped
<1>4. fullnode' = ledger' \/ fullnode' = fullnode
  BY DEF Commit, FullnodeFollows
<1> QED
  BY <1>1, <1>3, <1>4 DEF ChainTyped

LEMMA UpdatedCoinIsTyped ==
  ASSUME TasksTyped, NEW t \in Tasks, NEW gas \in NetGas,
         GasCoin(task[t].payment, gas) \in Coin
  PROVE  UpdatedCoin(t, gas) \in Coin
<1>1. U64 \in Nat \ {0} /\ gas \in Int
  BY GasStationAssumption
<1>2. PICK b \in Nat : b = task[t].before
  BY DEF TasksTyped
<1>3. (b - gas) % U64 \in Nat
  BY <1>1
<1> QED
  BY <1>2, <1>3 DEF UpdatedCoin, Coin

LEMMA TasksPay ==
  ASSUME TasksTyped, NEW t \in Tasks, task[t].pc \in {"query", "execute", "latest"}
  PROVE  task[t].payment \in Payments
BY DEF TasksTyped, Payments

LEMMA AddingIsTyped ==
  ASSUME PoolTyped, NEW coins \in Seq(Coin), PushCoins(coins)
  PROVE  PoolTyped'
BY DEF PushCoins, PoolTyped, reservationVars

(* The total is there, so no addition fails half-way. *)
LEMMA AdditionsSucceed ==
  ASSUME RegistryKept
  PROVE  availableTotal # Absent
BY ConstantsAssumption DEF RegistryKept

LEMMA ReserveIsTyped ==
  ASSUME Typed,
         NEW budget \in Nat \ {0}, NEW duration, Reserve(budget, duration),
         \/ UNCHANGED granted
         \/ granted' = granted \cup
              {[reservation |-> NewReservationId,
                coins |-> [i \in 1 .. PoppedCoins(budget) |-> RefOf(available[i])]]}
  PROVE  Typed'
<1>1. PICK n \in 1 .. Len(available), taken \in Seq(Coin) :
           /\ n = PoppedCoins(budget)
           /\ available' \in Seq(Coin)
           /\ nextReservationId' = nextReservationId + 1
           /\ reservations' =
                [x \in DOMAIN reservations \cup {nextReservationId + 1} |->
                   IF x = nextReservationId + 1 THEN IdsOf(taken)
                   ELSE reservations[x]]
  BY GrantTakesTheFront DEF Reserve, Typed
<1>2. UNCHANGED <<chainVars, processVars>>
  BY DEF Reserve
<1>3. PoolTyped'
  <2>1. IdsOf(taken) \in Seq(CoinIds)
    BY IdsOfProperties
  <2>2. nextReservationId' \in Nat
    BY <1>1 DEF Typed, PoolTyped
  <2>3. ASSUME NEW r \in DOMAIN reservations'
        PROVE  /\ r \in Nat
               /\ r <= nextReservationId'
               /\ reservations'[r] \in Seq(CoinIds)
    <3>1. CASE r = nextReservationId + 1
      BY <1>1, <2>1, <2>2, <3>1
    <3>2. CASE r # nextReservationId + 1
      BY <1>1, <2>3, <3>2 DEF Typed, PoolTyped
    <3> QED
      BY <3>1, <3>2
  <2> QED
    BY <1>1, <2>2, <2>3 DEF PoolTyped
<1>4. GrantsTyped'
  <2> DEFINE new == [reservation |-> NewReservationId,
                     coins |-> [i \in 1 .. n |-> RefOf(available[i])]]
  <2>1. /\ new \in [reservation : Nat, coins : Seq(ObjectRef)]
        /\ Len(new.coins) > 0
    <3>1. available \in Seq(Coin) /\ Len(available) \in Nat
      BY DEF Typed, PoolTyped
    <3>2. \A i \in 1 .. n : RefOf(available[i]) \in ObjectRef
      <4> TAKE i \in 1 .. n
      <4>1. available[i] \in Coin
        BY <3>1, ElementOfSeq
      <4> QED
        BY <4>1 DEF RefOf, ObjectRef, Coin
    <3>3. new.coins \in Seq(ObjectRef) /\ Len(new.coins) = n
      BY <3>1, <3>2
    <3> QED
      BY <3>1, <3>3 DEF NewReservationId, Typed, PoolTyped
  <2> HIDE DEF new
  <2>2. granted' \subseteq granted \cup {new}
    BY <1>1 DEF new
  <2> QED
    BY <2>1, <2>2 DEF Typed, GrantsTyped
<1> QED
  BY <1>2, <1>3, <1>4
     DEF Typed, ChainTyped, TasksTyped, UnlockersTyped, ProcessesTyped,
         chainVars, processVars, faultVars

LEMMA StartExecutionIsTyped ==
  ASSUME Typed, NEW t \in Tasks, NEW g \in granted, StartExecution(t, g)
  PROVE  Typed'
<1>1. /\ g \in [reservation : Nat, coins : Seq(ObjectRef)]
      /\ Len(g.coins) > 0
  BY DEF Typed, GrantsTyped
<1>2. TasksTyped'
  <2>1. CASE UNCHANGED task
    BY <2>1 DEF Typed, TasksTyped
  <2>2. CASE task' = [task EXCEPT ![t].pc = "query", ![t].payment = g.coins]
    BY <1>1, <2>2 DEF Typed, TasksTyped, TaskPCs
  <2> QED
    BY <2>1, <2>2 DEF StartExecution
<1>3. /\ reservations' = Restrict(reservations, DOMAIN reservations \ {g.reservation})
      /\ UNCHANGED <<available, nextReservationId>>
  BY DEF StartExecution, ReadyForExecution, poolVars
<1>4. PoolTyped'
  BY <1>3 DEF Typed, PoolTyped, Restrict
<1>5. lostReplies' \in Nat
  BY DEF Typed, ProcessesTyped, StartExecution, ReplyArrives, ReplyIsLost
<1> QED
  BY <1>2, <1>3, <1>4, <1>5
     DEF Typed, GrantsTyped, ChainTyped, UnlockersTyped, ProcessesTyped,
         StartExecution, chainVars

LEMMA IdleIsTyped ==
  /\ IdleTask \in [pc : TaskPCs, payment : Seq(ObjectRef),
                   before : Nat, updated : Seq(Coin)]
  /\ IdleUnlocker \in [pc : UnlockerPCs, batch : SUBSET CoinIds,
                       updated : Seq(Coin)]
BY DEF IdleTask, IdleUnlocker, TaskPCs, UnlockerPCs

LEMMA TaskStepIsTyped ==
  ASSUME Typed, NEW t \in Tasks, TaskStep(t)
  PROVE  Typed'
<1> USE DEF Typed
<1>1. CASE QueryTotalBalance(t)
  <2>1. TotalBalance(LatestGasObjects(PaymentIds(t))) \in Nat
    BY LatestAreShown, TotalBalanceType DEF ChainTyped
  <2>2. TasksTyped'
    BY <1>1, <2>1 DEF QueryTotalBalance, TasksTyped, TaskPCs
  <2> QED
    BY <1>1, <2>2
       DEF QueryTotalBalance, registryVars, poolVars, reservationVars,
           chainVars, faultVars, PoolTyped, ChainTyped, GrantsTyped,
           UnlockersTyped, ProcessesTyped
<1>2. CASE ExecuteOk(t)
  <2>1. PICK gas \in NetGas :
          /\ Commit(task[t].payment, gas)
          /\ task' = [task EXCEPT ![t].pc = "release",
                                  ![t].updated = <<UpdatedCoin(t, gas)>>]
    BY <1>2 DEF ExecuteOk
  <2>2. task[t].payment \in Payments
    BY <1>2, TasksPay DEF ExecuteOk
  <2>3. ChainTyped' /\ UpdatedCoin(t, gas) \in Coin
    <3>1. sent' \subseteq Payments /\ late' \subseteq LateCommits
      BY <1>2 DEF ExecuteOk, ChainTyped
    <3> QED
      BY <2>1, <2>2, <3>1, CommitIsTyped, UpdatedCoinIsTyped
  <2>4. TasksTyped'
    <3>1. <<UpdatedCoin(t, gas)>> \in Seq(Coin)
      BY <2>3
    <3> QED
      BY <2>1, <3>1 DEF TasksTyped, TaskPCs
  <2> QED
    BY <1>2, <2>3, <2>4
       DEF ExecuteOk, registryVars, poolVars, reservationVars, faultVars,
           PoolTyped, GrantsTyped, UnlockersTyped, ProcessesTyped
<1>3. CASE ExecuteErr(t)
  <2>1. Len(task[t].payment) > 0
    BY <1>3 DEF ExecuteErr, TasksTyped
  <2>2. ChainTyped'
    <3>1. task[t].payment \in Payments
      BY <1>3, TasksPay DEF ExecuteErr
    <3> QED
      BY <1>3, <3>1 DEF ExecuteErr, ChainTyped
  <2>3. TasksTyped'
    BY <1>3, <2>1 DEF ExecuteErr, TasksTyped, TaskPCs
  <2> QED
    BY <1>3, <2>2, <2>3
       DEF ExecuteErr, registryVars, poolVars, reservationVars, faultVars,
           PoolTyped, GrantsTyped, UnlockersTyped, ProcessesTyped
<1>4. CASE QueryLatest(t)
  <2>1. PICK coins \in SetToSeqs(LatestGasObjects(PaymentIds(t))) :
          task' = [task EXCEPT ![t].pc = "release", ![t].updated = coins]
    BY <1>4 DEF QueryLatest
  <2>2. coins \in Seq(Coin)
    BY LatestAreShown, SequencesOfCoins DEF ChainTyped
  <2>3. TasksTyped'
    BY <2>1, <2>2 DEF TasksTyped, TaskPCs
  <2> QED
    BY <1>4, <2>3
       DEF QueryLatest, registryVars, poolVars, reservationVars, chainVars,
           faultVars, PoolTyped, ChainTyped, GrantsTyped, UnlockersTyped,
           ProcessesTyped
<1>5. CASE TriggerRescan(t)
  <2>1. TasksTyped'
    BY <1>5, IdleIsTyped DEF TriggerRescan, TasksTyped, IdleTask
  <2>2. ProcessesTyped'
    BY <1>5, GasStationAssumption
       DEF TriggerRescan, ProcessesTyped, faultVars
  <2> QED
    BY <1>5, <2>1, <2>2
       DEF TriggerRescan, registryVars, poolVars, reservationVars, chainVars,
           PoolTyped, ChainTyped, GrantsTyped, UnlockersTyped
<1>6. CASE ReleaseCoins(t)
  <2>1. PushCoins(task[t].updated)
    BY <1>6 DEF ReleaseCoins, AddNewCoins, AddNewCoinsFailed
  <2>2. task[t].updated \in Seq(Coin)
    BY DEF TasksTyped
  <2>3. PoolTyped'
    BY <2>1, <2>2, AddingIsTyped
  <2>4. TasksTyped'
    <3>1. task' = task \/ task' = [task EXCEPT ![t] = IdleTask]
      BY <1>6 DEF ReleaseCoins
    <3>2. CASE task' = task
      BY <3>2 DEF TasksTyped
    <3>3. CASE task' = [task EXCEPT ![t] = IdleTask]
      BY <3>3, IdleIsTyped DEF TasksTyped, IdleTask
    <3> QED
      BY <3>1, <3>2, <3>3
  <2>5. lostReplies' \in Nat
    BY <1>6 DEF ReleaseCoins, ReplyArrives, ReplyIsLost, ProcessesTyped
  <2> QED
    BY <1>6, <2>3, <2>4, <2>5
       DEF ReleaseCoins, chainVars, ChainTyped, GrantsTyped,
           UnlockersTyped, ProcessesTyped
<1> QED
  BY <1>1, <1>2, <1>3, <1>4, <1>5, <1>6 DEF TaskStep

LEMMA UnlockStepIsTyped ==
  ASSUME Typed, NEW s \in Stations, UnlockStep(s)
  PROVE  Typed'
<1> USE DEF Typed
<1>1. CASE UnlockExpire(s)
  <2> DEFINE ids == UNION {ToSet(reservations[r]) : r \in ExpiredReservations}
  <2>1. ids \subseteq CoinIds
    <3> SUFFICES ASSUME NEW r \in ExpiredReservations
                 PROVE  ToSet(reservations[r]) \subseteq CoinIds
      OBVIOUS
    <3>1. reservations[r] \in Seq(CoinIds)
      BY DEF ExpiredReservations, PoolTyped
    <3> QED
      BY <3>1, ElementOfSeq DEF ToSet
  <2>2. \/ unlocker' = unlocker
        \/ unlocker' = [unlocker EXCEPT ![s].pc = "latest", ![s].batch = ids]
    BY <1>1 DEF UnlockExpire
  <2>3. UnlockersTyped'
    <3> HIDE DEF ids
    <3> QED
      BY <2>1, <2>2 DEF UnlockersTyped, UnlockerPCs
  <2>4. PoolTyped'
    BY <1>1 DEF UnlockExpire, ExpireCoins, PoolTyped, poolVars, Restrict
  <2>5. lostReplies' \in Nat
    BY <1>1 DEF UnlockExpire, ReplyArrives, ReplyIsLost, ProcessesTyped
  <2> QED
    BY <1>1, <2>3, <2>4, <2>5
       DEF UnlockExpire, ExpireCoins, chainVars, ChainTyped, GrantsTyped,
           TasksTyped, ProcessesTyped
<1>2. CASE UnlockQuery(s)
  <2>1. PICK coins \in SetToSeqs(LatestGasObjects(unlocker[s].batch)) :
          unlocker' = [unlocker EXCEPT ![s].pc = "release", ![s].updated = coins]
    BY <1>2 DEF UnlockQuery
  <2>2. coins \in Seq(Coin)
    BY LatestAreShown, SequencesOfCoins DEF ChainTyped
  <2>3. UnlockersTyped'
    BY <2>1, <2>2 DEF UnlockersTyped, UnlockerPCs
  <2> QED
    BY <1>2, <2>3
       DEF UnlockQuery, registryVars, poolVars, reservationVars, chainVars,
           faultVars, PoolTyped, ChainTyped, GrantsTyped, TasksTyped,
           ProcessesTyped
<1>3. CASE UnlockRelease(s)
  <2>1. PushCoins(unlocker[s].updated)
    BY <1>3 DEF UnlockRelease, AddNewCoins, AddNewCoinsFailed
  <2>2. unlocker[s].updated \in Seq(Coin)
    BY DEF UnlockersTyped
  <2>3. PoolTyped'
    BY <2>1, <2>2, AddingIsTyped
  <2>4. UnlockersTyped'
    <3>1. unlocker' = unlocker \/ unlocker' = [unlocker EXCEPT ![s] = IdleUnlocker]
      BY <1>3 DEF UnlockRelease
    <3> QED
      BY <3>1, IdleIsTyped DEF UnlockersTyped
  <2>5. lostReplies' \in Nat
    BY <1>3 DEF UnlockRelease, ReplyArrives, ReplyIsLost, ProcessesTyped
  <2> QED
    BY <1>3, <2>3, <2>4, <2>5
       DEF UnlockRelease, chainVars, ChainTyped, GrantsTyped,
           TasksTyped, ProcessesTyped
<1> QED
  BY <1>1, <1>2, <1>3 DEF UnlockStep

LEMMA InitIsTyped == Init => TInv
<1>1. SUFFICES ASSUME Init PROVE TInv
  OBVIOUS
<1>2. PICK order \in SetToSeqs(CoinIds) :
        LET coins == [i \in DOMAIN order |->
                        [id |-> order[i], balance |-> InitialBalance, version |-> 1]]
        IN  /\ available = coins
            /\ availableTotal = BalanceOf(coins)
            /\ nextReservationId = 0
            /\ reservations = << >>
            /\ ledger = ToSet(coins)
            /\ fullnode = ledger
            /\ sent = {}
            /\ late = {}
            /\ granted = {}
            /\ task = [t \in Tasks |-> IdleTask]
            /\ unlocker = [s \in Stations |-> IdleUnlocker]
            /\ rescanQueue = [s \in Stations |-> 0]
            /\ up = Stations
            /\ crashes = 0
            /\ lostReplies = 0
  BY <1>1 DEF Init
<1> DEFINE n == Cardinality(CoinIds)
           coins == [i \in DOMAIN order |->
                       [id |-> order[i], balance |-> InitialBalance, version |-> 1]]
<1>3. n \in Nat /\ order \in [1 .. n -> CoinIds]
  BY GasStationAssumption, FS_CardinalityType DEF SetToSeqs
<1>4. \A i \in 1 .. n : coins[i] \in Coin
  BY <1>3, GasStationAssumption DEF Coin
<1>5. coins \in Seq(Coin) /\ DOMAIN coins = 1 .. n
  BY <1>3, <1>4
<1> HIDE DEF coins
<1>6. BalanceOf(coins) \in Nat
  BY <1>5, BalanceOfType
<1>7. PoolTyped
  BY <1>2, <1>5, <1>6 DEF PoolTyped, coins
<1>8. IsFiniteSet(ToSet(coins)) /\ ToSet(coins) \subseteq Coin
  <2>1. ToSet(coins) \subseteq Coin
    BY <1>4, <1>5 DEF ToSet
  <2>2. IsFiniteSet(1 .. n)
    BY <1>3, FS_Interval
  <2>3. coins \in Surjection(1 .. n, ToSet(coins))
    BY <1>5 DEF Surjection, ToSet
  <2> QED
    BY <2>1, <2>2, <2>3, FS_Surjection
<1>9. ChainTyped
  BY <1>2, <1>8 DEF ChainTyped, coins
<1>10. TasksTyped
  BY <1>2, IdleIsTyped DEF TasksTyped, IdleTask
<1>11. UnlockersTyped
  BY <1>2, IdleIsTyped DEF UnlockersTyped
<1>12. ProcessesTyped
  BY <1>2, GasStationAssumption DEF ProcessesTyped
<1>13. GrantsTyped
  BY <1>2 DEF GrantsTyped
<1>14. RegistryKept
  BY <1>2, <1>6 DEF RegistryKept, coins
<1> QED
  BY <1>7, <1>9, <1>10, <1>11, <1>12, <1>13, <1>14 DEF Typed, TInv

LEMMA ExecutingPay ==
  ASSUME TasksTyped, NEW s \in Stations
  PROVE  Executing(s) \subseteq Payments
BY TasksPay DEF Executing

LEMMA CrashIsTyped ==
  ASSUME Typed, NEW s \in Stations, Crash(s)
  PROVE  Typed'
<1> USE DEF Typed
<1>1. TasksTyped'
  <2>1. task' = [t \in Tasks |-> IF StationOf[t] = s THEN IdleTask ELSE task[t]]
    BY DEF Crash
  <2> QED
    BY <2>1, IdleIsTyped DEF TasksTyped, IdleTask
<1>2. UnlockersTyped'
  BY IdleIsTyped DEF Crash, UnlockersTyped
<1>3. ProcessesTyped'
  BY GasStationAssumption DEF Crash, ProcessesTyped
<1>4. ChainTyped'
  BY ExecutingPay DEF Crash, ChainTyped
<1> QED
  BY <1>1, <1>2, <1>3, <1>4
     DEF Crash, registryVars, poolVars, reservationVars, PoolTyped, GrantsTyped

LEMMA RestartIsTyped ==
  ASSUME Typed, NEW s \in Stations, Restart(s)
  PROVE  Typed'
<1> USE DEF Typed
<1>1. UNCHANGED <<available, reservationVars>>
  BY DEF Restart, InitCoinStats
<1>2. PoolTyped'
  BY <1>1 DEF PoolTyped, reservationVars
<1> QED
  BY <1>1, <1>2
     DEF Restart, reservationVars, chainVars, ChainTyped, GrantsTyped,
         TasksTyped, UnlockersTyped, ProcessesTyped

LEMMA QuietStepsAreTyped ==
  ASSUME Typed, FullnodeSyncs \/ TimePasses \/ UNCHANGED vars
  PROVE  Typed'
<1> USE DEF Typed, PoolTyped, ChainTyped, GrantsTyped, TasksTyped,
            UnlockersTyped, ProcessesTyped
<1>1. CASE FullnodeSyncs
  BY <1>1
     DEF FullnodeSyncs, registryVars, poolVars, reservationVars, processVars,
         faultVars
<1>2. CASE TimePasses
  BY <1>2
     DEF TimePasses, Tick, poolVars, reservationVars, chainVars, processVars,
         faultVars
<1>3. CASE UNCHANGED vars
  BY <1>3
     DEF vars, registryVars, poolVars, reservationVars, chainVars, processVars,
         faultVars
<1> QED
  BY <1>1, <1>2, <1>3

LEMMA LateCommitIsTyped ==
  ASSUME Typed, NEW payment \in sent, NEW gas \in NetGas, LateCommit(payment, gas)
  PROVE  Typed'
<1> USE DEF Typed
<1>1. payment \in Payments /\ sent' \subseteq Payments
  BY DEF LateCommit, ChainTyped
<1>2. ToSet(payment) \subseteq ObjectRef
  <2>1. payment \in Seq(ObjectRef)
    BY <1>1 DEF Payments
  <2> QED
    BY <2>1, ElementOfSeq DEF ToSet
<1>3. Commit(payment, gas)
  BY DEF LateCommit
<1>4. GasCoin(payment, gas) \in Coin
  <2>1. ChainTyped /\ sent \subseteq Payments /\ late \subseteq LateCommits
    BY DEF ChainTyped
  <2> QED
    BY <1>1, <1>3, <2>1, GasCoinIsTyped
<1>5. late' \subseteq LateCommits
  <2>1. [paid |-> ToSet(payment), left |-> GasCoin(payment, gas)] \in LateCommits
    BY <1>2, <1>4 DEF LateCommits
  <2> QED
    BY <2>1 DEF LateCommit, ChainTyped
<1>6. ChainTyped'
  BY <1>1, <1>3, <1>5, CommitIsTyped
<1> QED
  BY <1>6
     DEF LateCommit, registryVars, poolVars, reservationVars, processVars,
         faultVars, PoolTyped, GrantsTyped, TasksTyped, UnlockersTyped,
         ProcessesTyped

(* What a serving gas station does. *)
ServingStep ==
  \/ \E b \in Budgets, d \in Durations : ReserveGas(b, d)
  \/ DebugCheckHealth
  \/ \E t \in Tasks, grant \in granted : StartExecution(t, grant)
  \/ \E t \in Tasks : TaskStep(t)
  \/ \E s \in Stations : UnlockStep(s)
  \/ \E payment \in sent, gas \in NetGas : LateCommit(payment, gas)
  \/ FullnodeSyncs
  \/ TimePasses

LEMMA ServingIsTyped ==
  ASSUME Typed, ServingStep
  PROVE  Typed'
<1>1. ASSUME NEW b \in Budgets, NEW d \in Durations, ReserveGas(b, d)
      PROVE  Typed'
  <2>1. b \in Nat \ {0}
    BY <1>1, GasStationAssumption DEF ReserveGas, ValidRequest
  <2> QED
    BY <1>1, <2>1, ReserveIsTyped DEF ReserveGas
<1>2. CASE DebugCheckHealth
  <2>1. HealthBudget \in Nat \ {0}
    BY GasStationAssumption
  <2> QED
    BY <1>2, <2>1, ReserveIsTyped DEF DebugCheckHealth
<1>3. ASSUME NEW t \in Tasks, NEW g \in granted, StartExecution(t, g)
      PROVE  Typed'
  BY <1>3, StartExecutionIsTyped
<1>4. ASSUME NEW t \in Tasks, TaskStep(t) PROVE Typed'
  BY <1>4, TaskStepIsTyped
<1>5. ASSUME NEW s \in Stations, UnlockStep(s) PROVE Typed'
  BY <1>5, UnlockStepIsTyped
<1>6. ASSUME NEW payment \in sent, NEW gas \in NetGas, LateCommit(payment, gas)
      PROVE  Typed'
  BY <1>6, LateCommitIsTyped
<1>7. CASE FullnodeSyncs \/ TimePasses
  BY <1>7, QuietStepsAreTyped
<1> QED
  BY <1>1, <1>2, <1>3, <1>4, <1>5, <1>6, <1>7 DEF ServingStep

(* Only reserve_gas_coins.lua and add_new_coins.lua change the total, and only
   the former counts reservations. *)
LEMMA ReserveKeepsRegistry ==
  ASSUME TInv, NEW budget \in Nat \ {0}, NEW duration, Reserve(budget, duration),
         \A g \in granted' : g \in granted \/ g.reservation = NewReservationId
  PROVE  RegistryKept'
<1>1. \E taken \in Seq(Coin) : taken = SubSeq(available, 1, PoppedCoins(budget))
  BY GrantTakesTheFront DEF Reserve, TInv, Typed
<1>2. /\ BalanceOf(SubSeq(available, 1, PoppedCoins(budget))) \in Nat
      /\ nextReservationId' = nextReservationId + 1
      /\ availableTotal' =
           availableTotal - BalanceOf(SubSeq(available, 1, PoppedCoins(budget)))
  BY <1>1, BalanceOfType DEF Reserve, ReserveGranted, NewReservationId
<1>3. nextReservationId \in Nat /\ \A g \in granted : g.reservation \in Nat
  BY DEF TInv, Typed, PoolTyped, GrantsTyped
<1> QED
  BY <1>2, <1>3 DEF TInv, RegistryKept, NewReservationId

LEMMA StepsKeepRegistry ==
  ASSUME TInv, [Next]_vars
  PROVE  RegistryKept'
<1> USE DEF TInv
<1>1. ASSUME NEW coins \in Seq(Coin), AddNewCoins(coins), UNCHANGED granted
      PROVE  RegistryKept'
  BY <1>1, BalanceOfType DEF AddNewCoins, PushCoins, reservationVars, RegistryKept
<1>2. ASSUME NEW b \in Budgets, NEW d \in Durations, ReserveGas(b, d)
      PROVE  RegistryKept'
  <2>1. b \in Nat \ {0}
    BY <1>2, GasStationAssumption DEF ReserveGas, ValidRequest
  <2> QED
    BY <1>2, <2>1, ReserveKeepsRegistry DEF ReserveGas
<1>3. CASE DebugCheckHealth
  <2>1. HealthBudget \in Nat \ {0}
    BY GasStationAssumption
  <2> QED
    BY <1>3, <2>1, ReserveKeepsRegistry DEF DebugCheckHealth
<1>4. ASSUME NEW t \in Tasks, TaskStep(t) PROVE RegistryKept'
  <2>1. CASE ReleaseCoins(t)
    <3>1. task[t].updated \in Seq(Coin)
      BY DEF Typed, TasksTyped
    <3>2. AddNewCoins(task[t].updated) /\ UNCHANGED granted
      BY <2>1, AdditionsSucceed DEF ReleaseCoins, AddNewCoinsFailed
    <3> QED
      BY <1>1, <3>1, <3>2
  <2> QED
    BY <1>4, <2>1
       DEF TaskStep, QueryTotalBalance, ExecuteOk, ExecuteErr, QueryLatest,
           TriggerRescan, registryVars, poolVars, reservationVars, RegistryKept
<1>5. ASSUME NEW s \in Stations, UnlockStep(s) PROVE RegistryKept'
  <2>1. CASE UnlockRelease(s)
    <3>1. unlocker[s].updated \in Seq(Coin)
      BY DEF Typed, UnlockersTyped
    <3>2. AddNewCoins(unlocker[s].updated) /\ UNCHANGED granted
      BY <2>1, AdditionsSucceed DEF UnlockRelease, AddNewCoinsFailed
    <3> QED
      BY <1>1, <3>1, <3>2
  <2> QED
    BY <1>5, <2>1
       DEF UnlockStep, UnlockExpire, UnlockQuery, ExpireCoins, registryVars,
           poolVars, reservationVars, RegistryKept
<1>6. ASSUME NEW s \in Stations, Restart(s) PROVE RegistryKept'
  BY <1>6, AdditionsSucceed
     DEF Restart, InitCoinStats, reservationVars, RegistryKept
<1> QED
  BY <1>2, <1>3, <1>4, <1>5, <1>6
     DEF Next, StartExecution, ReadyForExecution, Crash, LateCommit,
         FullnodeSyncs, TimePasses, Tick, vars, registryVars, poolVars, reservationVars,
         RegistryKept

LEMMA StepsAreTyped ==
  ASSUME TInv, [Next]_vars
  PROVE  TInv'
<1>1. Typed'
  BY ServingIsTyped, QuietStepsAreTyped, CrashIsTyped, RestartIsTyped
     DEF TInv, Next, ServingStep
<1> QED
  BY <1>1, StepsKeepRegistry DEF TInv

(* Whatever is lost or crashes, the keys, the tasks and the chain keep their
   types: a balance that is derived from an earlier read wraps around, but no
   payment is empty and no total is missing (gas_station_core.rs:159-202). *)
THEOREM GasStationIsTyped == Spec => []TypeOK
<1>1. TInv => TypeOK
  BY DEF TInv, Typed, PoolTyped, ChainTyped, Payments, LateCommits, GrantsTyped,
         TasksTyped, UnlockersTyped,
         ProcessesTyped, TypeOK
<1> QED
  BY <1>1, InitIsTyped, StepsAreTyped, PTL DEF Spec

-----------------------------------------------------------------------------
(* What a list holds, and that it holds it once, in terms of two parts. *)
LEMMA ConcatIsInjective ==
  ASSUME NEW S, NEW u \in Seq(S), NEW v \in Seq(S)
  PROVE  /\ ToSet(u \o v) = ToSet(u) \cup ToSet(v)
         /\ IsInjective(u \o v) <=> /\ IsInjective(u) /\ IsInjective(v)
                                    /\ ToSet(u) \cap ToSet(v) = {}
<1> DEFINE m == Len(u)
           n == Len(v)
           w == u \o v
<1>1. /\ m \in Nat /\ n \in Nat
      /\ DOMAIN u = 1 .. m /\ DOMAIN v = 1 .. n /\ DOMAIN w = 1 .. m + n
      /\ \A i \in 1 .. m : w[i] = u[i]
      /\ \A i \in 1 .. n : w[m + i] = v[i]
  OBVIOUS
<1>2. \A i \in 1 .. m + n : i \in 1 .. m \/ \E j \in 1 .. n : i = m + j
  <2> TAKE i \in 1 .. m + n
  <2>1. CASE i > m
    <3>1. i - m \in 1 .. n /\ i = m + (i - m)
      BY <1>1, <2>1
    <3> QED
      BY <3>1
  <2>2. CASE i <= m
    BY <1>1, <2>2
  <2> QED
    BY <1>1, <2>1, <2>2
<1>3. \A i \in 1 .. m : i \in 1 .. m + n
  BY <1>1
<1>4. \A j \in 1 .. n : m + j \in 1 .. m + n
  BY <1>1
<1>5. \A i \in 1 .. m, j \in 1 .. n : i # m + j
  BY <1>1
<1>6. \A i, j \in 1 .. n : m + i = m + j => i = j
  BY <1>1
<1> HIDE DEF m, n, w
<1>7. ToSet(w) = ToSet(u) \cup ToSet(v)
  <2>1. ASSUME NEW i \in 1 .. m + n PROVE w[i] \in ToSet(u) \cup ToSet(v)
    <3>1. CASE i \in 1 .. m
      BY <1>1, <3>1 DEF ToSet
    <3>2. ASSUME NEW j \in 1 .. n, i = m + j PROVE w[i] \in ToSet(v)
      BY <1>1, <3>2 DEF ToSet
    <3> QED
      BY <1>2, <3>1, <3>2
  <2>2. ASSUME NEW i \in 1 .. m PROVE u[i] \in ToSet(w)
    BY <1>1, <1>3 DEF ToSet
  <2>3. ASSUME NEW j \in 1 .. n PROVE v[j] \in ToSet(w)
    BY <1>1, <1>4 DEF ToSet
  <2>4. ToSet(u) \subseteq ToSet(w) /\ ToSet(v) \subseteq ToSet(w)
    BY <1>1, <2>2, <2>3 DEF ToSet
  <2>5. ToSet(w) \subseteq ToSet(u) \cup ToSet(v)
    <3> SUFFICES ASSUME NEW x \in ToSet(w) PROVE x \in ToSet(u) \cup ToSet(v)
      OBVIOUS
    <3>1. PICK i \in 1 .. m + n : x = w[i]
      BY <1>1 DEF ToSet
    <3> QED
      BY <2>1, <3>1
  <2> QED
    BY <2>4, <2>5
<1>8. ASSUME IsInjective(w)
      PROVE  IsInjective(u) /\ IsInjective(v) /\ ToSet(u) \cap ToSet(v) = {}
  <2>1. IsInjective(u)
    BY <1>1, <1>3, <1>8 DEF IsInjective
  <2>2. IsInjective(v)
    BY <1>1, <1>4, <1>6, <1>8 DEF IsInjective
  <2>3. ASSUME NEW i \in 1 .. m, NEW j \in 1 .. n, u[i] = v[j] PROVE FALSE
    <3>1. w[i] = w[m + j]
      BY <1>1, <2>3
    <3>2. i \in DOMAIN w /\ m + j \in DOMAIN w
      BY <1>1, <1>3, <1>4
    <3> QED
      BY <3>1, <3>2, <1>5, <1>8 DEF IsInjective
  <2> QED
    BY <1>1, <2>1, <2>2, <2>3 DEF ToSet
<1>9. ASSUME IsInjective(u), IsInjective(v), ToSet(u) \cap ToSet(v) = {}
      PROVE  IsInjective(w)
  <2>1. \A i \in 1 .. m, j \in 1 .. n : u[i] # v[j]
    BY <1>1, <1>9 DEF ToSet
  <2>2. SUFFICES ASSUME NEW i \in 1 .. m + n, NEW j \in 1 .. m + n, w[i] = w[j]
                 PROVE  i = j
    BY <1>1 DEF IsInjective
  <2>3. CASE i \in 1 .. m /\ j \in 1 .. m
    BY <1>1, <1>9, <2>2, <2>3 DEF IsInjective
  <2>4. ASSUME NEW k \in 1 .. n, i = m + k PROVE i = j
    <3>1. CASE j \in 1 .. m
      BY <1>1, <2>1, <2>2, <2>4, <3>1
    <3>2. ASSUME NEW l \in 1 .. n, j = m + l PROVE i = j
      BY <1>1, <1>9, <2>2, <2>4, <3>2 DEF IsInjective
    <3> QED
      BY <1>2, <3>1, <3>2
  <2>5. ASSUME NEW l \in 1 .. n, j = m + l, i \in 1 .. m PROVE i = j
    BY <1>1, <2>1, <2>2, <2>5
  <2> QED
    BY <1>2, <2>3, <2>4, <2>5
<1> QED
  BY <1>7, <1>8, <1>9 DEF w

LEMMA IdsOfConcatIsInjective ==
  ASSUME NEW s \in Seq(Coin), NEW t \in Seq(Coin)
  PROVE  /\ ToSet(IdsOf(s \o t)) = ToSet(IdsOf(s)) \cup ToSet(IdsOf(t))
         /\ IsInjective(IdsOf(s \o t)) <=>
              /\ IsInjective(IdsOf(s)) /\ IsInjective(IdsOf(t))
              /\ ToSet(IdsOf(s)) \cap ToSet(IdsOf(t)) = {}
<1>1. /\ IdsOf(s) \in Seq(CoinIds) /\ IdsOf(t) \in Seq(CoinIds)
      /\ IdsOf(s \o t) = IdsOf(s) \o IdsOf(t)
  BY IdsOfProperties, IdsOfConcat
<1> QED
  BY <1>1, ConcatIsInjective

(* The coins of each kind of holder, before and after a step. *)
LEMMA CoinsOfHolders ==
  /\ CoinsOf(<<"pool">>) = ToSet(IdsOf(available))
  /\ CoinsOf(<<"pool">>)' = ToSet(IdsOf(available'))
  /\ \A r : /\ CoinsOf(<<"reservation", r>>) = ToSet(reservations[r])
            /\ CoinsOf(<<"reservation", r>>)' = ToSet(reservations'[r])
  /\ \A t : /\ CoinsOf(<<"task", t>>) = PaymentIds(t)
            /\ CoinsOf(<<"task", t>>)' = PaymentIds(t)'
  /\ \A s : /\ CoinsOf(<<"unlocker", s>>) = unlocker[s].batch
            /\ CoinsOf(<<"unlocker", s>>)' = unlocker'[s].batch
BY DEF CoinsOf, PaymentIds

(* Coins that move, if at all, from the holders src to the holder dst. *)
LEMMA CoinsMove ==
  ASSUME \A g, h \in Holders : g # h => CoinsOf(g) \cap CoinsOf(h) = {},
         NEW dst, NEW src \in SUBSET Holders,
         \A h \in Holders' \ {dst} : h \in Holders /\ CoinsOf(h)' \subseteq CoinsOf(h),
         \A x \in CoinsOf(dst)' :
           \/ dst \in Holders /\ x \in CoinsOf(dst)
           \/ \E k \in src : x \in CoinsOf(k),
         \A k \in (src \cap Holders') \ {dst} : CoinsOf(k)' \cap CoinsOf(dst)' = {}
  PROVE  (\A g, h \in Holders : g # h => CoinsOf(g) \cap CoinsOf(h) = {})'
<1>1. ASSUME NEW h \in Holders' \ {dst}, NEW x,
             x \in CoinsOf(h)', x \in CoinsOf(dst)'
      PROVE  FALSE
  <2>1. h \in Holders /\ x \in CoinsOf(h)
    BY <1>1
  <2>2. CASE dst \in Holders /\ x \in CoinsOf(dst)
    BY <1>1, <2>1, <2>2
  <2>3. ASSUME NEW k \in src, x \in CoinsOf(k) PROVE FALSE
    BY <1>1, <2>1, <2>3
  <2> QED
    BY <1>1, <2>2, <2>3
<1>2. ASSUME NEW g \in Holders' \ {dst}, NEW h \in Holders' \ {dst}, g # h
      PROVE  CoinsOf(g)' \cap CoinsOf(h)' = {}
  BY <1>2
<1> QED
  BY <1>1, <1>2

-----------------------------------------------------------------------------
(* SingleCustody is not inductive either: what a task or an unlock task is
   about to give back must be its own, each coin once, which needs that the
   chain has one object of an id; and what a client was told must be what its
   reservation holds. *)
ChainIsUnique ==
  /\ \A c, d \in ledger : c.id = d.id => c = d
  /\ \A c, d \in fullnode : c.id = d.id => c = d

GrantsMatch ==
  \A g \in granted : g.reservation \in DOMAIN reservations =>
    {g.coins[i].id : i \in DOMAIN g.coins} = ToSet(reservations[g.reservation])

TasksHoldWhatTheyRelease ==
  \A t \in Tasks : task[t].pc = "release" =>
    /\ IsInjective(IdsOf(task[t].updated))
    /\ ToSet(IdsOf(task[t].updated)) \subseteq PaymentIds(t)

UnlockersHoldWhatTheyRelease ==
  \A s \in Stations : unlocker[s].pc = "release" =>
    /\ IsInjective(IdsOf(unlocker[s].updated))
    /\ ToSet(IdsOf(unlocker[s].updated)) \subseteq unlocker[s].batch

CInv ==
  /\ SingleCustody
  /\ ChainIsUnique
  /\ GrantsMatch
  /\ TasksHoldWhatTheyRelease
  /\ UnlockersHoldWhatTheyRelease

LEMMA IdleHandsHold ==
  ASSUME UNCHANGED <<task, unlocker>>,
         TasksHoldWhatTheyRelease, UnlockersHoldWhatTheyRelease
  PROVE  TasksHoldWhatTheyRelease' /\ UnlockersHoldWhatTheyRelease'
<1>1. TasksHoldWhatTheyRelease'
  BY Zenon DEF TasksHoldWhatTheyRelease, PaymentIds
<1>2. UnlockersHoldWhatTheyRelease'
  BY Zenon DEF UnlockersHoldWhatTheyRelease
<1> QED
  BY <1>1, <1>2

LEMMA LatestIdsAreDistinct ==
  ASSUME ChainTyped, ChainIsUnique, NEW ids,
         NEW s \in SetToSeqs(LatestGasObjects(ids))
  PROVE  /\ IsInjective(IdsOf(s))
         /\ ToSet(IdsOf(s)) \subseteq ids
<1>1. /\ LatestGasObjects(ids) \subseteq fullnode
      /\ \A c \in LatestGasObjects(ids) : c.id \in ids
  BY LatestAreShown
<1>2. /\ s \in Seq(Coin)
      /\ \A i \in DOMAIN s : s[i] \in LatestGasObjects(ids)
      /\ \A i, j \in DOMAIN s : i # j => s[i] # s[j]
  BY LatestAreShown, SequencesOfCoins DEF ChainTyped
<1>3. \A i, j \in DOMAIN s : s[i].id = s[j].id => i = j
  BY <1>1, <1>2 DEF ChainIsUnique
<1>4. DOMAIN IdsOf(s) = DOMAIN s /\ \A i \in DOMAIN s : IdsOf(s)[i] = s[i].id
  BY DEF IdsOf
<1> QED
  BY <1>1, <1>2, <1>3, <1>4 DEF IsInjective, ToSet

(* A grant names the coins of its reservation, and no older grant has its id. *)
LEMMA ReserveKeepsGrants ==
  ASSUME Typed, GrantsMatch, \A g \in granted : g.reservation <= nextReservationId,
         NEW budget \in Nat \ {0}, NEW duration, Reserve(budget, duration),
         \/ UNCHANGED granted
         \/ granted' = granted \cup
              {[reservation |-> NewReservationId,
                coins |-> [i \in 1 .. PoppedCoins(budget) |-> RefOf(available[i])]]}
  PROVE  /\ GrantsMatch'
         /\ \A g \in granted' : g.reservation <= nextReservationId'
<1>1. PICK id \in Nat : id = nextReservationId + 1
  BY DEF Typed, PoolTyped
<1>2. PICK n \in 1 .. Len(available), taken \in Seq(Coin) :
           /\ n = PoppedCoins(budget)
           /\ taken = SubSeq(available, 1, n)
           /\ Len(taken) = n
           /\ nextReservationId' = nextReservationId + 1
           /\ reservations' =
                [x \in DOMAIN reservations \cup {nextReservationId + 1} |->
                   IF x = nextReservationId + 1 THEN IdsOf(taken)
                   ELSE reservations[x]]
  BY GrantTakesTheFront DEF Reserve, Typed
<1>3. id \notin DOMAIN reservations
  BY <1>1 DEF Typed, PoolTyped
<1>4. /\ reservations'[id] = IdsOf(taken)
      /\ \A r \in DOMAIN reservations : reservations'[r] = reservations[r]
      /\ DOMAIN reservations' = DOMAIN reservations \cup {id}
      /\ nextReservationId' = id
  BY <1>1, <1>2, <1>3
<1> DEFINE new == [reservation |-> id,
                   coins |-> [i \in 1 .. n |-> RefOf(available[i])]]
<1>5. {new.coins[i].id : i \in DOMAIN new.coins} = ToSet(IdsOf(taken))
  <2>1. DOMAIN IdsOf(taken) = 1 .. n /\ DOMAIN new.coins = 1 .. n
    BY <1>2 DEF IdsOf
  <2>2. \A i \in 1 .. n : IdsOf(taken)[i] = new.coins[i].id
    <3> TAKE i \in 1 .. n
    <3>1. taken[i] = available[i]
      BY <1>2 DEF Typed, PoolTyped
    <3> QED
      BY <1>2, <3>1 DEF IdsOf, RefOf
  <2> HIDE DEF new
  <2> QED
    BY <2>1, <2>2 DEF ToSet
<1>6. new.reservation = id
  OBVIOUS
<1>7. granted' \subseteq granted \cup {new}
  BY <1>1, <1>2 DEF NewReservationId
<1>8. ASSUME NEW g \in granted
      PROVE  g.reservation # id /\ g.reservation <= id
  BY <1>1, <1>8 DEF Typed, GrantsTyped, PoolTyped
<1> HIDE DEF new
<1>9. reservations'[new.reservation] = IdsOf(taken)
  BY <1>4, <1>6
<1>10. ASSUME NEW g \in granted, g.reservation \in DOMAIN reservations'
       PROVE  {g.coins[i].id : i \in DOMAIN g.coins}
                = ToSet(reservations'[g.reservation])
  <2>1. g.reservation \in DOMAIN reservations
    BY <1>4, <1>8, <1>10
  <2>2. {g.coins[i].id : i \in DOMAIN g.coins} = ToSet(reservations[g.reservation])
    BY <2>1 DEF GrantsMatch
  <2> QED
    BY <1>4, <2>1, <2>2
<1>11. \A g \in granted' : g.reservation <= nextReservationId'
  BY <1>1, <1>4, <1>6, <1>7, <1>8
<1> QED
  BY <1>5, <1>7, <1>9, <1>10, <1>11 DEF GrantsMatch

LEMMA ReserveKeepsCustody ==
  ASSUME TInv, CInv,
         NEW budget \in Nat \ {0}, NEW duration, Reserve(budget, duration),
         \/ UNCHANGED granted
         \/ granted' = granted \cup
              {[reservation |-> NewReservationId,
                coins |-> [i \in 1 .. PoppedCoins(budget) |-> RefOf(available[i])]]}
  PROVE  CInv'
<1>0. PICK id \in Nat : id = nextReservationId + 1
  BY DEF TInv, Typed, PoolTyped
<1> DEFINE dst == <<"reservation", id>>
<1>1. PICK n \in 1 .. Len(available), taken \in Seq(Coin) :
           /\ n = PoppedCoins(budget)
           /\ taken = SubSeq(available, 1, n)
           /\ Len(taken) = n
           /\ available = taken \o available'
           /\ available' \in Seq(Coin)
           /\ reservations' =
                [x \in DOMAIN reservations \cup {nextReservationId + 1} |->
                   IF x = nextReservationId + 1 THEN IdsOf(taken)
                   ELSE reservations[x]]
  BY GrantTakesTheFront DEF Reserve, TInv, Typed
<1>2. /\ UNCHANGED <<ledger, fullnode>>
      /\ UNCHANGED <<task, unlocker>>
  BY DEF Reserve, chainVars, processVars
<1>3. /\ ToSet(IdsOf(available)) = ToSet(IdsOf(taken)) \cup ToSet(IdsOf(available'))
      /\ IsInjective(IdsOf(taken)) /\ IsInjective(IdsOf(available'))
      /\ ToSet(IdsOf(taken)) \cap ToSet(IdsOf(available')) = {}
  <2>1. taken \in Seq(Coin) /\ available' \in Seq(Coin)
    BY <1>1
  <2>2. available = taken \o available'
    BY <1>1
  <2>3. IsInjective(IdsOf(taken \o available'))
    BY <2>2 DEF CInv, SingleCustody
  <2>4. PICK rest \in Seq(Coin) : rest = available'
    BY <2>1
  <2> QED
    BY <2>1, <2>2, <2>3, <2>4, IdsOfConcatIsInjective
<1>4. id \notin DOMAIN reservations
  BY <1>0 DEF TInv, Typed, PoolTyped
<1>5. /\ reservations'[id] = IdsOf(taken)
      /\ \A r \in DOMAIN reservations : reservations'[r] = reservations[r]
      /\ DOMAIN reservations' = DOMAIN reservations \cup {id}
  BY <1>0, <1>1, <1>4
<1>6. \A r \in DOMAIN reservations' : IsInjective(reservations'[r])
  BY <1>3, <1>5 DEF CInv, SingleCustody
<1>7. (\A g, h \in Holders : g # h => CoinsOf(g) \cap CoinsOf(h) = {})'
  <2>1. Holders' = Holders \cup {dst}
    BY <1>5 DEF Holders
  <2>2. ASSUME NEW h \in Holders PROVE CoinsOf(h)' \subseteq CoinsOf(h)
    <3>1. CASE h = <<"pool">>
      BY <1>3, <3>1, CoinsOfHolders
    <3>2. ASSUME NEW r \in DOMAIN reservations, h = <<"reservation", r>>
          PROVE  CoinsOf(h)' \subseteq CoinsOf(h)
      BY <1>5, <3>2, CoinsOfHolders
    <3>3. ASSUME NEW t \in Tasks, h = <<"task", t>>
          PROVE  CoinsOf(h)' \subseteq CoinsOf(h)
      BY <1>2, <3>3, CoinsOfHolders DEF PaymentIds
    <3>4. ASSUME NEW s \in Stations, h = <<"unlocker", s>>
          PROVE  CoinsOf(h)' \subseteq CoinsOf(h)
      BY <1>2, <3>4, CoinsOfHolders
    <3> QED
      BY <3>1, <3>2, <3>3, <3>4 DEF Holders
  <2>3. CoinsOf(dst)' = ToSet(IdsOf(taken))
    <3>1. CoinsOf(dst)' = ToSet(reservations'[id])
      BY CoinsOfHolders
    <3> QED
      BY <1>5, <3>1
  <2>4. {<<"pool">>} \in SUBSET Holders
    BY DEF Holders
  <2> HIDE DEF dst
  <2>5. \A h \in Holders' \ {dst} : h \in Holders /\ CoinsOf(h)' \subseteq CoinsOf(h)
    BY <2>1, <2>2
  <2>6. \A x \in CoinsOf(dst)' : \E k \in {<<"pool">>} : x \in CoinsOf(k)
    BY <1>3, <2>3, CoinsOfHolders
  <2>7. \A k \in {<<"pool">>} : CoinsOf(k)' \cap CoinsOf(dst)' = {}
    BY <1>3, <2>3, CoinsOfHolders
  <2> QED
    BY <2>4, <2>5, <2>6, <2>7, CoinsMove DEF CInv, SingleCustody
<1>8. GrantsMatch'
  BY ReserveKeepsGrants DEF CInv, TInv, RegistryKept
<1>9. ChainIsUnique'
  <2>1. ChainIsUnique
    BY DEF CInv
  <2> QED
    BY <1>2, <2>1, Zenon DEF ChainIsUnique
<1>10. TasksHoldWhatTheyRelease' /\ UnlockersHoldWhatTheyRelease'
  BY <1>2, IdleHandsHold DEF CInv
<1> QED
  BY <1>3, <1>6, <1>7, <1>8, <1>9, <1>10 DEF CInv, SingleCustody

(* Steps in which no holder gets a coin. *)
LEMMA NobodyGetsACoin ==
  ASSUME SingleCustody, UNCHANGED <<available, reservations>>,
         \A t \in Tasks : PaymentIds(t)' \subseteq PaymentIds(t),
         \A s \in Stations : unlocker'[s].batch \subseteq unlocker[s].batch
  PROVE  SingleCustody'
<1>1. Holders' = Holders
  BY DEF Holders
<1>2. ASSUME NEW h \in Holders PROVE CoinsOf(h)' \subseteq CoinsOf(h)
  <2>1. CASE h = <<"pool">>
    BY <2>1, CoinsOfHolders
  <2>2. ASSUME NEW r \in DOMAIN reservations, h = <<"reservation", r>>
        PROVE  CoinsOf(h)' \subseteq CoinsOf(h)
    BY <2>2, CoinsOfHolders
  <2>3. ASSUME NEW t \in Tasks, h = <<"task", t>>
        PROVE  CoinsOf(h)' \subseteq CoinsOf(h)
    BY <2>3, CoinsOfHolders
  <2>4. ASSUME NEW s \in Stations, h = <<"unlocker", s>>
        PROVE  CoinsOf(h)' \subseteq CoinsOf(h)
    BY <2>4, CoinsOfHolders
  <2> QED
    BY <2>1, <2>2, <2>3, <2>4 DEF Holders
<1>3. (\A g, h \in Holders : g # h => CoinsOf(g) \cap CoinsOf(h) = {})'
  BY <1>1, <1>2 DEF SingleCustody
<1> QED
  BY <1>3 DEF SingleCustody

LEMMA StartExecutionKeepsCustody ==
  ASSUME TInv, CInv, NEW t \in Tasks, NEW g \in granted,
         StartExecution(t, g), lostReplies = 0, lostReplies' = 0
  PROVE  CInv'
<1> DEFINE r == g.reservation
           dst == <<"task", t>>
           src == {<<"reservation", r>>}
<1>1. /\ r \in DOMAIN reservations
      /\ reservations' = Restrict(reservations, DOMAIN reservations \ {r})
      /\ task' = [task EXCEPT ![t].pc = "query", ![t].payment = g.coins]
      /\ UNCHANGED <<available, unlocker, granted, ledger, fullnode>>
  BY DEF StartExecution, ReadyForExecution, ReplyIsLost, poolVars, chainVars
<1>2. /\ task'[t].payment = g.coins /\ task'[t].pc = "query"
      /\ \A u \in Tasks \ {t} : task'[u] = task[u]
  BY <1>1 DEF TInv, Typed, TasksTyped
<1>3. /\ DOMAIN reservations' = DOMAIN reservations \ {r}
      /\ \A q \in DOMAIN reservations' : reservations'[q] = reservations[q]
  BY <1>1 DEF Restrict
<1>4. (\A a, h \in Holders : a # h => CoinsOf(a) \cap CoinsOf(h) = {})'
  <2>1. src \in SUBSET Holders
    BY <1>1 DEF Holders
  <2>2. Holders' \subseteq Holders /\ src \cap Holders' = {}
    BY <1>3 DEF Holders
  <2>3. ASSUME NEW h \in Holders' \ {dst} PROVE CoinsOf(h)' \subseteq CoinsOf(h)
    <3>1. CASE h = <<"pool">>
      BY <1>1, <3>1, CoinsOfHolders
    <3>2. ASSUME NEW q \in DOMAIN reservations', h = <<"reservation", q>>
          PROVE  CoinsOf(h)' \subseteq CoinsOf(h)
      BY <1>3, <3>2, CoinsOfHolders
    <3>3. ASSUME NEW u \in Tasks \ {t}, h = <<"task", u>>
          PROVE  CoinsOf(h)' \subseteq CoinsOf(h)
      BY <1>2, <3>3, CoinsOfHolders DEF PaymentIds
    <3>4. ASSUME NEW s \in Stations, h = <<"unlocker", s>>
          PROVE  CoinsOf(h)' \subseteq CoinsOf(h)
      BY <1>1, <3>4, CoinsOfHolders
    <3> QED
      BY <3>1, <3>2, <3>3, <3>4 DEF Holders
  <2>4. \A x \in CoinsOf(dst)' : \E k \in src : x \in CoinsOf(k)
    <3>1. CoinsOf(dst)' = PaymentIds(t)'
      BY CoinsOfHolders
    <3>2. PaymentIds(t)' = {g.coins[i].id : i \in DOMAIN g.coins}
      BY <1>2 DEF PaymentIds
    <3>3. PaymentIds(t)' = ToSet(reservations[r])
      BY <1>1, <3>2 DEF CInv, GrantsMatch
    <3>4. CoinsOf(<<"reservation", r>>) = ToSet(reservations[r])
      BY CoinsOfHolders
    <3> QED
      BY <3>1, <3>3, <3>4
  <2> HIDE DEF dst, src
  <2> QED
    BY <2>1, <2>2, <2>3, <2>4, CoinsMove DEF CInv, SingleCustody
<1>5. SingleCustody'
  BY <1>1, <1>3, <1>4 DEF CInv, SingleCustody
<1>6. GrantsMatch'
  BY <1>1, <1>3 DEF CInv, GrantsMatch
<1>7. ChainIsUnique'
  BY <1>1 DEF CInv, ChainIsUnique
<1>8. TasksHoldWhatTheyRelease'
  <2> SUFFICES ASSUME NEW u \in Tasks, task'[u].pc = "release"
               PROVE  /\ IsInjective(IdsOf(task'[u].updated))
                      /\ ToSet(IdsOf(task'[u].updated)) \subseteq PaymentIds(u)'
    BY DEF TasksHoldWhatTheyRelease
  <2> QED
    BY <1>2 DEF CInv, TasksHoldWhatTheyRelease, PaymentIds
<1>9. UnlockersHoldWhatTheyRelease'
  BY <1>1 DEF CInv, UnlockersHoldWhatTheyRelease
<1> QED
  BY <1>5, <1>6, <1>7, <1>8, <1>9 DEF CInv

(* As many coins of the ledger are paid as the payment names, so each coin that
   it names is among them. *)
LEMMA PaymentIsPaid ==
  ASSUME ChainIsUnique, NEW payment \in Payments, NEW gas, Commit(payment, gas)
  PROVE  \A i \in DOMAIN payment :
           \E c \in PaidCoins(payment) : payment[i] = RefOf(c)
<1> DEFINE paid == PaidCoins(payment)
           D == 1 .. Len(payment)
           Names(i, c) == payment[i] = RefOf(c)
           f == [c \in paid |-> CHOOSE i \in D : Names(i, c)]
<1>1. payment \in Seq(ObjectRef) /\ Len(payment) \in Nat /\ DOMAIN payment = D
  <2>1. payment \in Seq(ObjectRef)
    BY DEF Payments
  <2> QED
    BY <2>1
<1>2. \A c \in paid : c \in ledger /\ \E i \in D : Names(i, c)
  BY <1>1 DEF PaidCoins
<1>3. f \in [paid -> D] /\ \A c \in paid : Names(f[c], c)
  BY <1>2
<1> HIDE DEF f
<1>4. \A c, d \in paid : f[c] = f[d] => c = d
  <2> SUFFICES ASSUME NEW c \in paid, NEW d \in paid, f[c] = f[d] PROVE c = d
    OBVIOUS
  <2>1. RefOf(c) = RefOf(d)
    <3>1. Names(f[c], c) /\ Names(f[d], d)
      BY <1>3
    <3> QED
      BY <3>1
  <2>2. c.id = d.id
    BY <2>1 DEF RefOf
  <2> QED
    BY <1>2, <2>2 DEF ChainIsUnique
<1>5. f \in Injection(paid, D)
  BY <1>3, <1>4 DEF Injection, IsInjective
<1>6. IsFiniteSet(D) /\ Cardinality(D) = Len(payment)
  <2>1. \A k \in Nat : /\ IsFiniteSet(1 .. k)
                        /\ Cardinality(1 .. k) = IF 1 > k THEN 0 ELSE k - 1 + 1
    BY FS_Interval
  <2>2. \A k \in Nat : IsFiniteSet(1 .. k) /\ Cardinality(1 .. k) = k
    BY <2>1
  <2> QED
    BY <1>1, <2>2
<1>7. Cardinality(paid) = Len(payment)
  BY DEF Commit, Executable
<1>8. f \in Surjection(paid, D)
  <2> HIDE DEF paid, D
  <2> QED
    BY <1>5, <1>6, <1>7, FS_Injection
<1>9. \A i \in D : \E c \in paid : f[c] = i
  BY <1>8 DEF Surjection
<1> QED
  BY <1>1, <1>3, <1>9

(* A transaction replaces the coins it pays with by one of them. *)
LEMMA CommitKeepsChainUnique ==
  ASSUME ChainIsUnique, NEW payment \in Payments, NEW gas \in NetGas,
         Commit(payment, gas)
  PROVE  ChainIsUnique'
<1> DEFINE paid == PaidCoins(payment)
<1>1. payment \in Seq(ObjectRef) /\ 1 \in DOMAIN payment
  BY DEF Payments
<1>2. \A c \in paid : c \in ledger
  BY DEF PaidCoins
<1>3. PICK first \in paid : first.id = payment[1].id
  <2>1. PICK c \in paid : payment[1] = RefOf(c)
    BY <1>1, PaymentIsPaid
  <2> QED
    BY <2>1 DEF RefOf
<1>4. ledger' = (ledger \ paid) \cup {GasCoin(payment, gas)}
  BY DEF Commit
<1>5. GasCoin(payment, gas).id = first.id
  BY <1>3 DEF GasCoin
<1>6. \A c \in ledger \ paid : c.id # GasCoin(payment, gas).id
  BY <1>2, <1>3, <1>5 DEF ChainIsUnique
<1>7. \A c, d \in ledger' : c.id = d.id => c = d
  <2> HIDE DEF paid
  <2> QED
    BY <1>4, <1>6 DEF ChainIsUnique
<1>8. fullnode' = ledger' \/ fullnode' = fullnode
  BY DEF Commit, FullnodeFollows
<1> QED
  BY <1>7, <1>8 DEF ChainIsUnique

(* add_new_coins of what one holder had, and has no more. *)
LEMMA ReleaseKeepsCustody ==
  ASSUME PoolTyped, SingleCustody, NEW giver \in Holders, giver # <<"pool">>,
         NEW coins \in Seq(Coin), AddNewCoins(coins),
         IsInjective(IdsOf(coins)), ToSet(IdsOf(coins)) \subseteq CoinsOf(giver),
         CoinsOf(giver)' = {},
         \A t \in Tasks : giver = <<"task", t>> \/ PaymentIds(t)' = PaymentIds(t),
         \A s \in Stations : \/ giver = <<"unlocker", s>>
                             \/ unlocker'[s].batch = unlocker[s].batch
  PROVE  SingleCustody'
<1> DEFINE pool == <<"pool">>
           src == {giver}
<1>1. available' = available \o coins /\ reservations' = reservations
  BY DEF AddNewCoins, PushCoins, reservationVars
<1>2. Holders' = Holders
  BY <1>1 DEF Holders
<1>3. pool \in Holders /\ CoinsOf(pool) = ToSet(IdsOf(available))
  BY CoinsOfHolders DEF Holders
<1>4. CoinsOf(pool) \cap CoinsOf(giver) = {}
  BY <1>3 DEF SingleCustody
<1>5. /\ ToSet(IdsOf(available')) = ToSet(IdsOf(available)) \cup ToSet(IdsOf(coins))
      /\ IsInjective(IdsOf(available'))
  <2>1. available \in Seq(Coin) /\ IsInjective(IdsOf(available))
    BY DEF PoolTyped, SingleCustody
  <2>2. ToSet(IdsOf(available)) \cap ToSet(IdsOf(coins)) = {}
    BY <1>3, <1>4
  <2> QED
    BY <1>1, <2>1, <2>2, IdsOfConcatIsInjective
<1>6. ASSUME NEW h \in Holders' \ {pool} PROVE CoinsOf(h)' \subseteq CoinsOf(h)
  <2>1. CASE h = giver
    BY <2>1
  <2>2. ASSUME NEW r \in DOMAIN reservations, h = <<"reservation", r>>
        PROVE  CoinsOf(h)' \subseteq CoinsOf(h)
    BY <1>1, <2>2, CoinsOfHolders
  <2>3. ASSUME NEW t \in Tasks, h = <<"task", t>>, h # giver
        PROVE  CoinsOf(h)' \subseteq CoinsOf(h)
    BY <2>3, CoinsOfHolders
  <2>4. ASSUME NEW s \in Stations, h = <<"unlocker", s>>, h # giver
        PROVE  CoinsOf(h)' \subseteq CoinsOf(h)
    BY <2>4, CoinsOfHolders
  <2> QED
    BY <1>2, <2>1, <2>2, <2>3, <2>4 DEF Holders
<1>7. \A x \in CoinsOf(pool)' : x \in CoinsOf(pool) \/ \E k \in src : x \in CoinsOf(k)
  BY <1>3, <1>5, CoinsOfHolders
<1>8. (\A g, h \in Holders : g # h => CoinsOf(g) \cap CoinsOf(h) = {})'
  <2>1. \A h \in Holders' \ {pool} : h \in Holders /\ CoinsOf(h)' \subseteq CoinsOf(h)
    BY <1>2, <1>6
  <2>2. \A k \in (src \cap Holders') \ {pool} : CoinsOf(k)' \cap CoinsOf(pool)' = {}
    OBVIOUS
  <2>3. src \in SUBSET Holders
    OBVIOUS
  <2> HIDE DEF pool, src
  <2> QED
    BY <1>3, <1>7, <2>1, <2>2, <2>3, CoinsMove DEF SingleCustody
<1> QED
  BY <1>1, <1>5, <1>8 DEF SingleCustody

LEMMA TaskStepKeepsCustody ==
  ASSUME TInv, CInv, NEW t \in Tasks, TaskStep(t),
         lostReplies = 0, lostReplies' = 0
  PROVE  CInv'
<1>0. task \in [Tasks -> [pc : TaskPCs, payment : Seq(ObjectRef),
                          before : Nat, updated : Seq(Coin)]]
  BY DEF TInv, Typed, TasksTyped
<1>1. CASE QueryTotalBalance(t)
  <2>1. /\ UNCHANGED <<available, reservations, granted, unlocker, ledger, fullnode>>
        /\ task'[t].pc = "execute" /\ task'[t].payment = task[t].payment
        /\ \A u \in Tasks \ {t} : task'[u] = task[u]
    BY <1>0, <1>1
       DEF QueryTotalBalance, registryVars, poolVars, reservationVars, chainVars
  <2>2. \A u \in Tasks : PaymentIds(u)' = PaymentIds(u)
    BY <2>1 DEF PaymentIds
  <2>3. SingleCustody'
    BY <2>1, <2>2, NobodyGetsACoin DEF CInv
  <2>4. TasksHoldWhatTheyRelease'
    BY <2>1, <2>2 DEF CInv, TasksHoldWhatTheyRelease
  <2> QED
    BY <2>1, <2>3, <2>4
       DEF CInv, ChainIsUnique, GrantsMatch, UnlockersHoldWhatTheyRelease
<1>2. CASE ExecuteOk(t)
  <2>1. PICK gas \in NetGas :
          /\ Commit(task[t].payment, gas)
          /\ task' = [task EXCEPT ![t].pc = "release",
                                  ![t].updated = <<UpdatedCoin(t, gas)>>]
    BY <1>2 DEF ExecuteOk
  <2>2. task[t].payment \in Payments /\ task[t].payment \in Seq(ObjectRef)
    BY <1>0, <1>2, TasksPay DEF ExecuteOk, TInv, Typed
  <2>3. ChainIsUnique'
    BY <2>1, <2>2, CommitKeepsChainUnique DEF CInv
  <2>4. /\ UNCHANGED <<available, reservations, granted, unlocker>>
        /\ task'[t].payment = task[t].payment
        /\ task'[t].updated = <<UpdatedCoin(t, gas)>>
        /\ \A u \in Tasks \ {t} : task'[u] = task[u]
    BY <1>0, <1>2, <2>1 DEF ExecuteOk, registryVars, poolVars, reservationVars
  <2>5. \A u \in Tasks : PaymentIds(u)' = PaymentIds(u)
    BY <2>4 DEF PaymentIds
  <2>6. UpdatedCoin(t, gas).id \in PaymentIds(t)
    BY <2>2 DEF UpdatedCoin, GasCoin, PaymentIds, Payments
  <2>7. /\ IsInjective(IdsOf(task'[t].updated))
        /\ ToSet(IdsOf(task'[t].updated)) = {UpdatedCoin(t, gas).id}
    BY <2>4 DEF IdsOf, IsInjective, ToSet
  <2>8. TasksHoldWhatTheyRelease'
    BY <2>4, <2>5, <2>6, <2>7 DEF CInv, TasksHoldWhatTheyRelease
  <2>9. SingleCustody'
    BY <2>4, <2>5, NobodyGetsACoin DEF CInv
  <2> QED
    BY <2>3, <2>4, <2>8, <2>9
       DEF CInv, GrantsMatch, UnlockersHoldWhatTheyRelease
<1>3. CASE ExecuteErr(t)
  <2>1. /\ UNCHANGED <<available, reservations, granted, unlocker>>
        /\ task'[t].pc = "latest" /\ task'[t].payment = task[t].payment
        /\ \A u \in Tasks \ {t} : task'[u] = task[u]
    BY <1>0, <1>3 DEF ExecuteErr, registryVars, poolVars, reservationVars
  <2>2. ChainIsUnique'
    BY <1>3 DEF ExecuteErr, CInv, ChainIsUnique
  <2>3. \A u \in Tasks : PaymentIds(u)' = PaymentIds(u)
    BY <2>1 DEF PaymentIds
  <2>4. SingleCustody'
    BY <2>1, <2>3, NobodyGetsACoin DEF CInv
  <2>5. TasksHoldWhatTheyRelease'
    BY <2>1, <2>3 DEF CInv, TasksHoldWhatTheyRelease
  <2> QED
    BY <2>1, <2>2, <2>4, <2>5
       DEF CInv, GrantsMatch, UnlockersHoldWhatTheyRelease
<1>4. CASE QueryLatest(t)
  <2>1. PICK coins \in SetToSeqs(LatestGasObjects(PaymentIds(t))) :
          task' = [task EXCEPT ![t].pc = "release", ![t].updated = coins]
    BY <1>4 DEF QueryLatest
  <2>2. IsInjective(IdsOf(coins)) /\ ToSet(IdsOf(coins)) \subseteq PaymentIds(t)
    BY LatestIdsAreDistinct DEF TInv, Typed, CInv
  <2>3. /\ UNCHANGED <<available, reservations, granted, unlocker, ledger, fullnode>>
        /\ task'[t].updated = coins /\ task'[t].payment = task[t].payment
        /\ \A u \in Tasks \ {t} : task'[u] = task[u]
    BY <1>0, <1>4, <2>1
       DEF QueryLatest, registryVars, poolVars, reservationVars, chainVars
  <2>4. \A u \in Tasks : PaymentIds(u)' = PaymentIds(u)
    BY <2>3 DEF PaymentIds
  <2>5. SingleCustody'
    BY <2>3, <2>4, NobodyGetsACoin DEF CInv
  <2>6. TasksHoldWhatTheyRelease'
    BY <2>2, <2>3, <2>4 DEF CInv, TasksHoldWhatTheyRelease
  <2> QED
    BY <2>3, <2>5, <2>6
       DEF CInv, ChainIsUnique, GrantsMatch, UnlockersHoldWhatTheyRelease
<1>5. CASE TriggerRescan(t) \/ ReleaseCoins(t)
  <2>1. ASSUME task' = [task EXCEPT ![t] = IdleTask]
        PROVE  /\ PaymentIds(t)' = {} /\ task'[t].pc = "idle"
               /\ \A u \in Tasks \ {t} :
                    task'[u] = task[u] /\ PaymentIds(u)' = PaymentIds(u)
    BY <1>0, <2>1 DEF IdleTask, PaymentIds
  <2>2. task' = [task EXCEPT ![t] = IdleTask]
    BY <1>5, AdditionsSucceed
       DEF TriggerRescan, ReleaseCoins, ReplyIsLost, AddNewCoinsFailed, TInv, Typed
  <2>3. /\ UNCHANGED <<reservations, granted, unlocker, ledger, fullnode>>
        /\ task[t].pc = "release"
    BY <1>5
       DEF TriggerRescan, ReleaseCoins, AddNewCoins, AddNewCoinsFailed, PushCoins,
           registryVars, reservationVars, chainVars
  <2>4. TasksHoldWhatTheyRelease'
    BY <2>1, <2>2 DEF CInv, TasksHoldWhatTheyRelease
  <2>5. SingleCustody'
    <3>1. CASE TriggerRescan(t)
      <4>1. UNCHANGED available
        BY <3>1 DEF TriggerRescan, registryVars, poolVars
      <4>2. \A u \in Tasks : PaymentIds(u)' \subseteq PaymentIds(u)
        BY <2>1, <2>2
      <4> QED
        BY <4>1, <4>2, <2>3, NobodyGetsACoin DEF CInv
    <3>2. CASE ReleaseCoins(t)
      <4> DEFINE giver == <<"task", t>>
      <4>1. AddNewCoins(task[t].updated) /\ task[t].updated \in Seq(Coin)
        BY <1>0, <3>2, AdditionsSucceed DEF ReleaseCoins, AddNewCoinsFailed, TInv, Typed
      <4>2. /\ giver \in Holders /\ giver # <<"pool">>
            /\ CoinsOf(giver) = PaymentIds(t) /\ CoinsOf(giver)' = PaymentIds(t)'
        BY CoinsOfHolders DEF Holders
      <4>3. /\ IsInjective(IdsOf(task[t].updated))
            /\ ToSet(IdsOf(task[t].updated)) \subseteq PaymentIds(t)
        BY <2>3 DEF CInv, TasksHoldWhatTheyRelease
      <4>4. \A u \in Tasks : giver = <<"task", u>> \/ PaymentIds(u)' = PaymentIds(u)
        BY <2>1, <2>2
      <4> HIDE DEF giver
      <4> QED
        BY <2>1, <2>2, <2>3, <4>1, <4>2, <4>3, <4>4, ReleaseKeepsCustody
           DEF TInv, Typed, CInv
    <3> QED
      BY <1>5, <3>1, <3>2
  <2> QED
    BY <2>3, <2>4, <2>5
       DEF CInv, ChainIsUnique, GrantsMatch, UnlockersHoldWhatTheyRelease
<1> QED
  BY <1>1, <1>2, <1>3, <1>4, <1>5 DEF TaskStep

LEMMA ExpiryKeepsCustody ==
  ASSUME TInv, CInv, NEW s \in Stations, UnlockExpire(s),
         lostReplies = 0, lostReplies' = 0
  PROVE  CInv'
<1> DEFINE ids == UNION {ToSet(reservations[r]) : r \in ExpiredReservations}
           dst == <<"unlocker", s>>
<1>1. /\ reservations' = Restrict(reservations, DOMAIN reservations \ DueReservations)
      /\ \/ unlocker' = unlocker
         \/ unlocker' = [unlocker EXCEPT ![s].pc = "latest", ![s].batch = ids]
      /\ UNCHANGED <<available, task, granted, ledger, fullnode>>
  BY DEF UnlockExpire, ExpireCoins, poolVars, chainVars
<1>2. /\ DOMAIN reservations' = DOMAIN reservations \ DueReservations
      /\ \A r \in DOMAIN reservations' : reservations'[r] = reservations[r]
  BY <1>1 DEF Restrict
<1> HIDE DEF ids
<1>3. /\ \A u \in Stations \ {s} : unlocker'[u] = unlocker[u]
      /\ \/ unlocker'[s] = unlocker[s]
         \/ unlocker'[s].pc = "latest" /\ unlocker'[s].batch = ids
  BY <1>1 DEF TInv, Typed, UnlockersTyped
<1> USE DEF ids
<1>4. PICK src : src = {<<"reservation", r>> : r \in ExpiredReservations}
  OBVIOUS
<1>5. /\ src \in SUBSET Holders
      /\ Holders' \subseteq Holders
      /\ src \cap Holders' = {}
      /\ dst \in Holders
  BY <1>2, <1>4 DEF Holders, ExpiredReservations
<1>6. ASSUME NEW h \in Holders' \ {dst} PROVE CoinsOf(h)' \subseteq CoinsOf(h)
  <2>1. CASE h = <<"pool">>
    BY <1>1, <2>1, CoinsOfHolders
  <2>2. ASSUME NEW r \in DOMAIN reservations', h = <<"reservation", r>>
        PROVE  CoinsOf(h)' \subseteq CoinsOf(h)
    BY <1>2, <2>2, CoinsOfHolders
  <2>3. ASSUME NEW t \in Tasks, h = <<"task", t>>
        PROVE  CoinsOf(h)' \subseteq CoinsOf(h)
    BY <1>1, <2>3, CoinsOfHolders DEF PaymentIds
  <2>4. ASSUME NEW u \in Stations \ {s}, h = <<"unlocker", u>>
        PROVE  CoinsOf(h)' \subseteq CoinsOf(h)
    BY <1>3, <2>4, CoinsOfHolders
  <2> QED
    BY <2>1, <2>2, <2>3, <2>4 DEF Holders
<1>7. ASSUME NEW x \in CoinsOf(dst)'
      PROVE  x \in CoinsOf(dst) \/ \E k \in src : x \in CoinsOf(k)
  <2>1. CoinsOf(dst) = unlocker[s].batch /\ CoinsOf(dst)' = unlocker'[s].batch
    BY CoinsOfHolders
  <2>2. ASSUME x \in ids PROVE \E k \in src : x \in CoinsOf(k)
    <3>1. PICK r \in ExpiredReservations : x \in ToSet(reservations[r])
      BY <2>2
    <3>2. CoinsOf(<<"reservation", r>>) = ToSet(reservations[r])
      BY CoinsOfHolders
    <3> QED
      BY <1>4, <3>1, <3>2
  <2> QED
    BY <1>3, <1>7, <2>1, <2>2
<1>8. (\A g, h \in Holders : g # h => CoinsOf(g) \cap CoinsOf(h) = {})'
  <2> HIDE DEF dst
  <2> QED
    BY <1>5, <1>6, <1>7, CoinsMove DEF CInv, SingleCustody
<1>9. SingleCustody'
  BY <1>1, <1>2, <1>8 DEF CInv, SingleCustody
<1>10. GrantsMatch'
  BY <1>1, <1>2 DEF CInv, GrantsMatch
<1>11. TasksHoldWhatTheyRelease'
  BY <1>1 DEF CInv, TasksHoldWhatTheyRelease, PaymentIds
<1>12. UnlockersHoldWhatTheyRelease'
  BY <1>3 DEF CInv, UnlockersHoldWhatTheyRelease
<1> QED
  BY <1>1, <1>9, <1>10, <1>11, <1>12 DEF CInv, ChainIsUnique

LEMMA UnlockStepKeepsCustody ==
  ASSUME TInv, CInv, NEW s \in Stations, UnlockStep(s),
         lostReplies = 0, lostReplies' = 0
  PROVE  CInv'
<1>0. unlocker \in [Stations -> [pc : UnlockerPCs, batch : SUBSET CoinIds,
                                 updated : Seq(Coin)]]
  BY DEF TInv, Typed, UnlockersTyped
<1>1. CASE UnlockExpire(s)
  BY <1>1, ExpiryKeepsCustody
<1>2. CASE UnlockQuery(s)
  <2>1. PICK coins \in SetToSeqs(LatestGasObjects(unlocker[s].batch)) :
          unlocker' = [unlocker EXCEPT ![s].pc = "release", ![s].updated = coins]
    BY <1>2 DEF UnlockQuery
  <2>2. IsInjective(IdsOf(coins)) /\ ToSet(IdsOf(coins)) \subseteq unlocker[s].batch
    BY LatestIdsAreDistinct DEF TInv, Typed, CInv
  <2>3. /\ UNCHANGED <<available, reservations, granted, task, ledger, fullnode>>
        /\ unlocker'[s].updated = coins /\ unlocker'[s].batch = unlocker[s].batch
        /\ \A u \in Stations \ {s} : unlocker'[u] = unlocker[u]
    BY <1>0, <1>2, <2>1
       DEF UnlockQuery, registryVars, poolVars, reservationVars, chainVars
  <2>4. \A u \in Stations : unlocker'[u].batch = unlocker[u].batch
    BY <2>3
  <2>5. SingleCustody'
    BY <2>3, <2>4, NobodyGetsACoin DEF CInv, PaymentIds
  <2>6. UnlockersHoldWhatTheyRelease'
    BY <2>2, <2>3, <2>4 DEF CInv, UnlockersHoldWhatTheyRelease
  <2> QED
    BY <2>3, <2>5, <2>6
       DEF CInv, ChainIsUnique, GrantsMatch, TasksHoldWhatTheyRelease, PaymentIds
<1>3. CASE UnlockRelease(s)
  <2> DEFINE giver == <<"unlocker", s>>
  <2>1. /\ AddNewCoins(unlocker[s].updated)
        /\ unlocker' = [unlocker EXCEPT ![s] = IdleUnlocker]
    BY <1>3, AdditionsSucceed
       DEF UnlockRelease, AddNewCoinsFailed, ReplyIsLost, TInv, Typed
  <2>2. /\ unlocker'[s].batch = {} /\ unlocker'[s].pc = "idle"
        /\ \A u \in Stations \ {s} : unlocker'[u] = unlocker[u]
    BY <1>0, <2>1 DEF IdleUnlocker
  <2>3. /\ UNCHANGED <<reservations, granted, task, ledger, fullnode>>
        /\ unlocker[s].pc = "release"
    BY <1>3, <2>1 DEF UnlockRelease, AddNewCoins, PushCoins, reservationVars, chainVars
  <2>4. SingleCustody'
    <3>1. /\ giver \in Holders /\ giver # <<"pool">>
          /\ CoinsOf(giver) = unlocker[s].batch
          /\ CoinsOf(giver)' = unlocker'[s].batch
      BY CoinsOfHolders DEF Holders
    <3>2. /\ IsInjective(IdsOf(unlocker[s].updated))
          /\ ToSet(IdsOf(unlocker[s].updated)) \subseteq unlocker[s].batch
          /\ unlocker[s].updated \in Seq(Coin)
      BY <1>0, <2>3 DEF CInv, UnlockersHoldWhatTheyRelease
    <3>3. /\ \A u \in Stations : \/ giver = <<"unlocker", u>>
                                 \/ unlocker'[u].batch = unlocker[u].batch
          /\ \A t \in Tasks : PaymentIds(t)' = PaymentIds(t)
      BY <2>2, <2>3 DEF PaymentIds
    <3> HIDE DEF giver
    <3> QED
      BY <2>1, <2>2, <3>1, <3>2, <3>3, ReleaseKeepsCustody DEF TInv, Typed, CInv
  <2>5. UnlockersHoldWhatTheyRelease'
    BY <2>2 DEF CInv, UnlockersHoldWhatTheyRelease
  <2> QED
    BY <2>3, <2>4, <2>5
       DEF CInv, ChainIsUnique, GrantsMatch, TasksHoldWhatTheyRelease, PaymentIds
<1> QED
  BY <1>1, <1>2, <1>3 DEF UnlockStep

LEMMA InitialCustody == Init => CInv
<1>1. SUFFICES ASSUME Init PROVE CInv
  OBVIOUS
<1>2. PICK order \in SetToSeqs(CoinIds) :
        LET coins == [i \in DOMAIN order |->
                        [id |-> order[i], balance |-> InitialBalance, version |-> 1]]
        IN  /\ available = coins
            /\ reservations = << >>
            /\ ledger = ToSet(coins)
            /\ fullnode = ledger
            /\ sent = {}
            /\ late = {}
            /\ granted = {}
            /\ task = [t \in Tasks |-> IdleTask]
            /\ unlocker = [s \in Stations |-> IdleUnlocker]
  BY <1>1 DEF Init
<1> DEFINE coins == [i \in DOMAIN order |->
                       [id |-> order[i], balance |-> InitialBalance, version |-> 1]]
<1>3. \A i, j \in DOMAIN order : order[i] = order[j] => i = j
  BY DEF SetToSeqs
<1>4. ChainIsUnique
  <2>1. \A c, d \in ToSet(coins) : c.id = d.id => c = d
    BY <1>3 DEF ToSet
  <2> QED
    BY <1>2, <2>1 DEF ChainIsUnique
<1>5. IsInjective(IdsOf(available))
  BY <1>2, <1>3 DEF IdsOf, IsInjective
<1>6. DOMAIN reservations = {}
  BY <1>2
<1>7. \A h \in Holders : h = <<"pool">> \/ CoinsOf(h) = {}
  <2>1. ASSUME NEW t \in Tasks PROVE CoinsOf(<<"task", t>>) = {}
    <3>1. PaymentIds(t) = {}
      BY <1>2 DEF PaymentIds, IdleTask
    <3> QED
      BY <3>1, CoinsOfHolders
  <2>2. ASSUME NEW s \in Stations PROVE CoinsOf(<<"unlocker", s>>) = {}
    BY <1>2, CoinsOfHolders DEF IdleUnlocker
  <2> QED
    BY <1>6, <2>1, <2>2 DEF Holders
<1>8. SingleCustody
  BY <1>5, <1>6, <1>7 DEF SingleCustody
<1>9. GrantsMatch /\ TasksHoldWhatTheyRelease /\ UnlockersHoldWhatTheyRelease
  BY <1>2 DEF GrantsMatch, TasksHoldWhatTheyRelease, UnlockersHoldWhatTheyRelease,
              IdleTask, IdleUnlocker
<1> QED
  BY <1>4, <1>8, <1>9 DEF CInv

LEMMA CrashKeepsCustody ==
  ASSUME TInv, CInv, NEW s \in Stations, Crash(s)
  PROVE  CInv'
<1>1. /\ UNCHANGED <<available, reservations, granted, ledger, fullnode>>
      /\ \A t \in Tasks : task'[t] = task[t] \/ task'[t] = IdleTask
      /\ \A u \in Stations : unlocker'[u] = unlocker[u] \/ unlocker'[u] = IdleUnlocker
  BY DEF Crash, registryVars, poolVars, reservationVars, chainVars, TInv, Typed,
         UnlockersTyped
<1>2. ASSUME NEW t \in Tasks, task'[t] = IdleTask
      PROVE  PaymentIds(t)' = {} /\ task'[t].pc = "idle"
  BY <1>2 DEF PaymentIds, IdleTask
<1>3. ASSUME NEW t \in Tasks, task'[t] = task[t]
      PROVE  PaymentIds(t)' = PaymentIds(t)
  BY <1>3 DEF PaymentIds
<1>4. \A t \in Tasks : PaymentIds(t)' \subseteq PaymentIds(t)
  BY <1>1, <1>2, <1>3
<1>5. \A u \in Stations : unlocker'[u].batch \subseteq unlocker[u].batch
  BY <1>1 DEF IdleUnlocker
<1>6. SingleCustody'
  BY <1>1, <1>4, <1>5, NobodyGetsACoin DEF CInv
<1>7. TasksHoldWhatTheyRelease'
  BY <1>1, <1>2, <1>3 DEF CInv, TasksHoldWhatTheyRelease
<1>8. UnlockersHoldWhatTheyRelease'
  BY <1>1 DEF CInv, UnlockersHoldWhatTheyRelease, IdleUnlocker
<1> QED
  BY <1>1, <1>6, <1>7, <1>8 DEF CInv, ChainIsUnique, GrantsMatch

(* Steps that touch no coin and no holder. *)
LEMMA OtherStepsKeepCustody ==
  ASSUME CInv, UNCHANGED <<available, reservations, granted, task, unlocker, ledger>>,
         fullnode' = fullnode \/ fullnode' = ledger
  PROVE  CInv'
<1>1. SingleCustody'
  BY NobodyGetsACoin DEF CInv, PaymentIds
<1> QED
  BY <1>1
     DEF CInv, ChainIsUnique, GrantsMatch, TasksHoldWhatTheyRelease,
         UnlockersHoldWhatTheyRelease, PaymentIds

LEMMA LateCommitKeepsCustody ==
  ASSUME TInv, CInv, NEW payment \in sent, NEW gas \in NetGas,
         LateCommit(payment, gas)
  PROVE  CInv'
<1>1. UNCHANGED <<available, reservations, granted, task, unlocker>>
  BY DEF LateCommit, registryVars, poolVars, reservationVars, processVars
<1>2. SingleCustody'
  BY <1>1, NobodyGetsACoin DEF CInv, PaymentIds
<1>3. ChainIsUnique'
  <2>1. payment \in Payments
    BY DEF TInv, Typed, ChainTyped
  <2> QED
    BY <2>1, CommitKeepsChainUnique DEF CInv, LateCommit
<1>4. TasksHoldWhatTheyRelease' /\ UnlockersHoldWhatTheyRelease'
  BY <1>1, IdleHandsHold DEF CInv
<1>5. GrantsMatch'
  BY <1>1 DEF CInv, GrantsMatch
<1> QED
  BY <1>2, <1>3, <1>4, <1>5 DEF CInv

IInv == TInv /\ (lostReplies = 0 => CInv)

LEMMA RepliesStayLost ==
  ASSUME TInv, [Next]_vars, lostReplies' = 0
  PROVE  lostReplies = 0
<1>1. lostReplies \in Nat
  BY DEF TInv, Typed, ProcessesTyped
<1>2. lostReplies' = lostReplies \/ lostReplies' = lostReplies + 1
  BY DEF Next, ReserveGas, DebugCheckHealth, Reserve, StartExecution, TaskStep,
         QueryTotalBalance, ExecuteOk, ExecuteErr, QueryLatest, TriggerRescan,
         ReleaseCoins, UnlockStep, UnlockExpire, UnlockQuery, UnlockRelease,
         Crash, Restart, LateCommit, FullnodeSyncs, TimePasses, ReplyArrives,
         ReplyIsLost, processVars, faultVars, vars
<1> QED
  BY <1>1, <1>2

LEMMA StepsKeepCustody ==
  ASSUME TInv, CInv, [Next]_vars, lostReplies = 0, lostReplies' = 0
  PROVE  CInv'
<1>1. ASSUME NEW b \in Budgets, NEW d \in Durations, ReserveGas(b, d)
      PROVE  CInv'
  <2>1. b \in Nat \ {0}
    BY <1>1, GasStationAssumption DEF ReserveGas, ValidRequest
  <2> QED
    BY <1>1, <2>1, ReserveKeepsCustody DEF ReserveGas
<1>2. CASE DebugCheckHealth
  <2>1. HealthBudget \in Nat \ {0}
    BY GasStationAssumption
  <2> QED
    BY <1>2, <2>1, ReserveKeepsCustody DEF DebugCheckHealth
<1>3. ASSUME NEW t \in Tasks, NEW g \in granted, StartExecution(t, g)
      PROVE  CInv'
  BY <1>3, StartExecutionKeepsCustody
<1>4. ASSUME NEW t \in Tasks, TaskStep(t) PROVE CInv'
  BY <1>4, TaskStepKeepsCustody
<1>5. ASSUME NEW s \in Stations, UnlockStep(s) PROVE CInv'
  BY <1>5, UnlockStepKeepsCustody
<1>6. ASSUME NEW s \in Stations, Crash(s) PROVE CInv'
  BY <1>6, CrashKeepsCustody
<1>7. ASSUME NEW s \in Stations, Restart(s) PROVE CInv'
  BY <1>7, OtherStepsKeepCustody
     DEF Restart, InitCoinStats, reservationVars, chainVars
<1>8. CASE FullnodeSyncs
  BY <1>8, OtherStepsKeepCustody
     DEF FullnodeSyncs, registryVars, poolVars, reservationVars, processVars
<1>9. CASE TimePasses
  BY <1>9, OtherStepsKeepCustody
     DEF TimePasses, Tick, poolVars, reservationVars, chainVars, processVars
<1>10. CASE UNCHANGED vars
  BY <1>10, OtherStepsKeepCustody
     DEF vars, registryVars, poolVars, reservationVars, chainVars, processVars
<1>11. ASSUME NEW payment \in sent, NEW gas \in NetGas, LateCommit(payment, gas)
       PROVE  CInv'
  BY <1>11, LateCommitKeepsCustody
<1> QED
  BY <1>1, <1>2, <1>3, <1>4, <1>5, <1>6, <1>7, <1>8, <1>9, <1>10, <1>11 DEF Next

(* "It never returns the same coin to multiple callers" (storage/mod.rs:26),
   for any number of coins, clients, tasks and gas stations, whatever crashes,
   expires, fails or lags: as long as no reply of Redis has been lost after its
   script ran.  release_gas_coins, which then repeats add_new_coins
   (gas_station_core.rs:337), puts a coin into the list twice in the run
   lost_reply. *)
THEOREM CustodyLastsUntilAReplyIsLost ==
  Spec => [](lostReplies = 0 => SingleCustody)
<1>1. Init => IInv
  BY InitIsTyped, InitialCustody DEF IInv
<1>2. IInv /\ [Next]_vars => IInv'
  BY StepsAreTyped, RepliesStayLost, StepsKeepCustody DEF IInv
<1>3. IInv => (lostReplies = 0 => SingleCustody)
  BY DEF IInv, CInv
<1> QED
  BY <1>1, <1>2, <1>3, PTL DEF Spec

-----------------------------------------------------------------------------
(* The owners of CoinPool are the holders that have a coin: reservations are
   numbered from 1 to the bound, and who is idle holds nothing. *)
KnownOwners ==
  /\ nextReservationId <= MaxReservations
  /\ \A r \in DOMAIN reservations : r # 0
  /\ \A t \in Tasks : task[t].pc = "idle" => task[t].payment = << >>
  /\ \A s \in Stations : unlocker[s].pc = "idle" => unlocker[s].batch = {}

Owns(h, id) == h \in Holders /\ id \in CoinsOf(h)

LEMMA InitialOwners == Init => KnownOwners
<1>1. SUFFICES ASSUME Init PROVE KnownOwners
  OBVIOUS
<1>2. /\ nextReservationId = 0 /\ reservations = << >>
      /\ task = [t \in Tasks |-> IdleTask]
      /\ unlocker = [s \in Stations |-> IdleUnlocker]
  BY <1>1 DEF Init
<1> QED
  BY <1>2, GasStationAssumption DEF KnownOwners, IdleTask, IdleUnlocker

LEMMA StepsKeepOwnersKnown ==
  ASSUME TInv, KnownOwners, [Next]_vars
  PROVE  KnownOwners'
<1> USE DEF KnownOwners
<1>0. /\ task \in [Tasks -> [pc : TaskPCs, payment : Seq(ObjectRef),
                             before : Nat, updated : Seq(Coin)]]
      /\ unlocker \in [Stations -> [pc : UnlockerPCs, batch : SUBSET CoinIds,
                                    updated : Seq(Coin)]]
      /\ nextReservationId \in Nat /\ MaxReservations \in Nat
      /\ \A r \in DOMAIN reservations : r \in Nat
  BY GasStationAssumption DEF TInv, Typed, TasksTyped, UnlockersTyped, PoolTyped
<1>1. ASSUME NEW b, NEW d, Reserve(b, d) PROVE KnownOwners'
  BY <1>0, <1>1
     DEF Reserve, ReserveGranted, NewReservationId, processVars
<1>2. ASSUME NEW t \in Tasks, NEW g \in granted, StartExecution(t, g)
      PROVE  KnownOwners'
  BY <1>0, <1>2
     DEF StartExecution, ReadyForExecution, Restrict
<1>3. ASSUME NEW t \in Tasks, TaskStep(t) PROVE KnownOwners'
  <2>1. UNCHANGED <<nextReservationId, reservations, unlocker>>
    BY <1>3
       DEF TaskStep, QueryTotalBalance, ExecuteOk, ExecuteErr, QueryLatest,
           TriggerRescan, ReleaseCoins, AddNewCoins, AddNewCoinsFailed,
           PushCoins, registryVars, reservationVars
  <2>2. /\ \A u \in Tasks \ {t} : task'[u] = task[u]
        /\ \/ task'[t].pc # "idle" \/ task'[t] = IdleTask
           \/ task'[t] = task[t]
    BY <1>0, <1>3
       DEF TaskStep, QueryTotalBalance, ExecuteOk, ExecuteErr, QueryLatest,
           TriggerRescan, ReleaseCoins
  <2>3. ASSUME NEW u \in Tasks, task'[u].pc = "idle"
        PROVE  task'[u].payment = << >>
    <3>1. task'[u] = task[u] \/ task'[u] = IdleTask
      BY <2>2, <2>3
    <3>2. IdleTask.payment = << >>
      BY DEF IdleTask
    <3> QED
      BY <2>3, <3>1, <3>2
  <2> QED
    BY <2>1, <2>3
<1>4. ASSUME NEW s \in Stations, UnlockStep(s) PROVE KnownOwners'
  <2>1. /\ UNCHANGED <<nextReservationId, task>>
        /\ DOMAIN reservations' \subseteq DOMAIN reservations
    BY <1>4
       DEF UnlockStep, UnlockExpire, UnlockQuery, UnlockRelease, ExpireCoins,
           AddNewCoins, AddNewCoinsFailed, PushCoins, registryVars,
           reservationVars, Restrict
  <2>2. /\ \A u \in Stations \ {s} : unlocker'[u] = unlocker[u]
        /\ \/ unlocker'[s].pc # "idle" \/ unlocker'[s] = IdleUnlocker
           \/ unlocker'[s] = unlocker[s]
    <3>1. CASE UnlockExpire(s)
      BY <1>0, <3>1 DEF UnlockExpire
    <3>2. CASE UnlockQuery(s)
      BY <1>0, <3>2 DEF UnlockQuery
    <3>3. CASE UnlockRelease(s)
      BY <1>0, <3>3 DEF UnlockRelease
    <3> QED
      BY <1>4, <3>1, <3>2, <3>3 DEF UnlockStep
  <2> QED
    BY <1>0, <2>1, <2>2 DEF IdleUnlocker
<1>5. ASSUME NEW s \in Stations, Crash(s) PROVE KnownOwners'
  <2>1. /\ UNCHANGED <<nextReservationId, reservations>>
        /\ \A t \in Tasks : task'[t] = task[t] \/ task'[t] = IdleTask
        /\ \A u \in Stations : unlocker'[u] = unlocker[u] \/ unlocker'[u] = IdleUnlocker
    BY <1>0, <1>5 DEF Crash, registryVars, reservationVars
  <2>2. IdleTask.payment = << >> /\ IdleUnlocker.batch = {}
    BY DEF IdleTask, IdleUnlocker
  <2>3. ASSUME NEW t \in Tasks, task'[t].pc = "idle"
        PROVE  task'[t].payment = << >>
    BY <2>1, <2>2, <2>3
  <2>4. ASSUME NEW u \in Stations, unlocker'[u].pc = "idle"
        PROVE  unlocker'[u].batch = {}
    BY <2>1, <2>2, <2>4
  <2> QED
    BY <2>1, <2>3, <2>4
<1>6. ASSUME NEW s \in Stations, Restart(s) PROVE KnownOwners'
  BY <1>6 DEF Restart, InitCoinStats, reservationVars
<1>7. CASE FullnodeSyncs \/ TimePasses \/ UNCHANGED vars
  BY <1>7 DEF FullnodeSyncs, TimePasses, Tick, vars, registryVars,
              reservationVars, processVars
<1>8. ASSUME NEW payment \in sent, NEW gas \in NetGas, LateCommit(payment, gas)
      PROVE  KnownOwners'
  BY <1>8 DEF LateCommit, registryVars, reservationVars, processVars
<1> QED
  BY <1>1, <1>2, <1>3, <1>4, <1>5, <1>6, <1>7, <1>8
     DEF Next, ReserveGas, DebugCheckHealth

(* What each kind of holder owns, before and after a step. *)
LEMMA OwnsByKind ==
  /\ \A id : /\ Owns(<<"pool">>, id) <=> id \in ToSet(IdsOf(available))
             /\ Owns(<<"pool">>, id)' <=> id \in ToSet(IdsOf(available'))
  /\ \A r, id :
       /\ Owns(<<"reservation", r>>, id) <=>
            r \in DOMAIN reservations /\ id \in ToSet(reservations[r])
       /\ Owns(<<"reservation", r>>, id)' <=>
            r \in DOMAIN reservations' /\ id \in ToSet(reservations'[r])
  /\ \A t, id :
       /\ Owns(<<"task", t>>, id) <=> t \in Tasks /\ id \in PaymentIds(t)
       /\ Owns(<<"task", t>>, id)' <=> t \in Tasks /\ id \in PaymentIds(t)'
  /\ \A s, id :
       /\ Owns(<<"unlocker", s>>, id) <=> s \in Stations /\ id \in unlocker[s].batch
       /\ Owns(<<"unlocker", s>>, id)' <=> s \in Stations /\ id \in unlocker'[s].batch
BY CoinsOfHolders DEF Owns, Holders

(* Who is not touched by a step owns what it owned. *)
LEMMA UntouchedOwners ==
  ASSUME NEW touched,
         <<"pool">> \in touched \/ available' = available,
         \A r : \/ <<"reservation", r>> \in touched
                \/ /\ r \in DOMAIN reservations' <=> r \in DOMAIN reservations
                   /\ r \in DOMAIN reservations => reservations'[r] = reservations[r],
         \A t \in Tasks : \/ <<"task", t>> \in touched
                          \/ PaymentIds(t)' = PaymentIds(t),
         \A s \in Stations : \/ <<"unlocker", s>> \in touched
                             \/ unlocker'[s].batch = unlocker[s].batch
  PROVE  \A h : h \notin touched => \A id : Owns(h, id)' <=> Owns(h, id)
<1> SUFFICES ASSUME NEW h, h \notin touched, NEW id
             PROVE  Owns(h, id)' <=> Owns(h, id)
  OBVIOUS
<1>1. CASE h = <<"pool">>
  BY <1>1, OwnsByKind
<1>2. ASSUME NEW r, h = <<"reservation", r>> PROVE Owns(h, id)' <=> Owns(h, id)
  BY <1>2, OwnsByKind
<1>3. ASSUME NEW t \in Tasks, h = <<"task", t>> PROVE Owns(h, id)' <=> Owns(h, id)
  BY <1>3, OwnsByKind
<1>4. ASSUME NEW s \in Stations, h = <<"unlocker", s>>
      PROVE  Owns(h, id)' <=> Owns(h, id)
  BY <1>4, OwnsByKind
<1>5. /\ h \in Holders => \/ h = <<"pool">>
                          \/ \E r : h = <<"reservation", r>>
                          \/ \E t \in Tasks : h = <<"task", t>>
                          \/ \E s \in Stations : h = <<"unlocker", s>>
      /\ h \in Holders' => \/ h = <<"pool">>
                           \/ \E r : h = <<"reservation", r>>
                           \/ \E t \in Tasks : h = <<"task", t>>
                           \/ \E s \in Stations : h = <<"unlocker", s>>
  BY DEF Holders
<1>6. (Owns(h, id) => h \in Holders) /\ (Owns(h, id)' => h \in Holders')
  BY DEF Owns
<1> QED
  BY <1>1, <1>2, <1>3, <1>4, <1>5, <1>6

(* In single custody the owner of a coin is the one holder that owns it. *)
LEMMA OwnerIsTheHolder ==
  ASSUME SingleCustody, SingleCustody'
  PROVE  \A id, h : h # <<"nobody">> =>
           /\ (OwnerOf(id) = h) <=> Owns(h, id)
           /\ (OwnerOf(id)' = h) <=> Owns(h, id)'
<1> SUFFICES ASSUME NEW id, NEW h, h # <<"nobody">>
             PROVE  /\ (OwnerOf(id) = h) <=> Owns(h, id)
                    /\ (OwnerOf(id)' = h) <=> Owns(h, id)'
  OBVIOUS
<1>1. (OwnerOf(id) = h) <=> Owns(h, id)
  <2>1. \A a, b \in Holders : a # b => CoinsOf(a) \cap CoinsOf(b) = {}
    BY DEF SingleCustody
  <2> QED
    BY <2>1 DEF OwnerOf, Owns
<1>2. (OwnerOf(id)' = h) <=> Owns(h, id)'
  <2>1. \A a, b \in Holders' : a # b => CoinsOf(a)' \cap CoinsOf(b)' = {}
    BY DEF SingleCustody
  <2> QED
    BY <2>1 DEF OwnerOf, Owns
<1> QED
  BY <1>1, <1>2

LEMMA OwnersAreKnown ==
  ASSUME TInv', KnownOwners', NEW id
  PROVE  OwnerOf(id)' \in Abstract!Owners
<1>1. \/ OwnerOf(id)' = <<"nobody">>
      \/ OwnerOf(id)' \in Holders'
  BY DEF OwnerOf
<1>2. \A r \in DOMAIN reservations' : r \in 1 .. MaxReservations
  <2>1. MaxReservations \in Nat
    BY GasStationAssumption
  <2> QED
    BY <2>1 DEF KnownOwners, TInv, Typed, PoolTyped
<1>3. Holders' \subseteq Abstract!Owners
  BY <1>2 DEF Holders, Abstract!Owners
<1>4. <<"nobody">> \in Abstract!Owners
  BY DEF Abstract!Owners
<1> QED
  BY <1>1, <1>3, <1>4

(* A step in which only members of From lose coins and only members of To get
   them, or nobody does. *)
LEMMA CoinsAreTransferred ==
  ASSUME TInv', KnownOwners', SingleCustody, SingleCustody', NEW From, NEW To,
         <<"nobody">> \notin From,
         \A h : h \notin From \cup To => \A id : Owns(h, id)' <=> Owns(h, id),
         \A h \in From : \A id : Owns(h, id)' => Owns(h, id),
         \A h \in To : \A id : Owns(h, id) => Owns(h, id)',
         \A h \in To : \A id : Owns(h, id)' =>
           Owns(h, id) \/ \E g \in From : Owns(g, id),
         \A g \in From : \A id : Owns(g, id) =>
           \/ Owns(g, id)'
           \/ \E h \in To : Owns(h, id)'
           \/ <<"nobody">> \in To
  PROVE  Abstract!Transfer(From, To)
<1>1. ASSUME NEW id, OwnerOf(id)' # OwnerOf(id)
      PROVE  OwnerOf(id) \in From /\ OwnerOf(id)' \in To
  <2>1. PICK g : g = OwnerOf(id)
    OBVIOUS
  <2>2. PICK h : h = OwnerOf(id)'
    OBVIOUS
  <2>3. \A k : k # <<"nobody">> => /\ (g = k) <=> Owns(k, id)
                                   /\ (h = k) <=> Owns(k, id)'
    BY <2>1, <2>2, OwnerIsTheHolder
  <2>4. \A k : Owns(k, id) => k # <<"nobody">>
    BY DEF Owns, Holders
  <2>5. g \in From
    <3>1. CASE g = <<"nobody">>
      <4>1. h # <<"nobody">> /\ Owns(h, id)' /\ ~Owns(h, id)
        BY <1>1, <2>1, <2>2, <2>3, <3>1
      <4>2. PICK k \in From : Owns(k, id)
        BY <4>1
      <4> QED
        BY <2>3, <2>4, <3>1, <4>2
    <3>2. CASE g # <<"nobody">>
      <4>1. Owns(g, id) /\ ~Owns(g, id)'
        BY <1>1, <2>1, <2>2, <2>3, <3>2
      <4> QED
        BY <4>1
    <3> QED
      BY <3>1, <3>2
  <2>6. h \in To
    <3>1. g # <<"nobody">> /\ Owns(g, id) /\ ~Owns(g, id)'
      BY <1>1, <2>1, <2>2, <2>3, <2>5
    <3>2. CASE h = <<"nobody">>
      <4>1. \A k : k # <<"nobody">> => ~Owns(k, id)'
        BY <2>3, <3>2
      <4> QED
        BY <2>5, <3>1, <3>2, <4>1
    <3>3. CASE h # <<"nobody">>
      <4>1. Owns(h, id)' /\ ~Owns(h, id)
        BY <1>1, <2>1, <2>2, <2>3, <3>1, <3>3
      <4> QED
        BY <4>1
    <3> QED
      BY <3>2, <3>3
  <2> QED
    BY <2>1, <2>2, <2>5, <2>6
<1>2. \A id \in CoinIds : OwnerOf(id)' \in Abstract!Owners
  BY OwnersAreKnown
<1> QED
  BY <1>1, <1>2 DEF Abstract!Transfer

LEMMA OwnersStay ==
  ASSUME SingleCustody, SingleCustody', UNCHANGED <<available, reservations>>,
         \A t \in Tasks : PaymentIds(t)' = PaymentIds(t),
         \A s \in Stations : unlocker'[s].batch = unlocker[s].batch
  PROVE  \A id : OwnerOf(id)' = OwnerOf(id)
<1>1. \A h, id : Owns(h, id)' <=> Owns(h, id)
  <2>1. PICK none : none = {}
    OBVIOUS
  <2>2. \A h : h \notin none => \A id : Owns(h, id)' <=> Owns(h, id)
    BY UntouchedOwners
  <2> QED
    BY <2>1, <2>2
<1> SUFFICES ASSUME NEW id PROVE OwnerOf(id)' = OwnerOf(id)
  OBVIOUS
<1>2. PICK g : g = OwnerOf(id)
  OBVIOUS
<1>3. PICK h : h = OwnerOf(id)'
  OBVIOUS
<1>4. \A k : k # <<"nobody">> => ((g = k) <=> (h = k))
  BY <1>1, <1>2, <1>3, OwnerIsTheHolder
<1> QED
  BY <1>2, <1>3, <1>4

LEMMA OwnersOf ==
  ASSUME SingleCustody, SingleCustody', NEW a, a # <<"nobody">>
  PROVE  /\ (\A id : ~Owns(a, id)) => Abstract!OwnsNothing(a)
         /\ (\A id : ~Owns(a, id)') => \A c \in CoinIds : OwnerOf(c)' # a
BY OwnerIsTheHolder DEF Abstract!OwnsNothing

(* Reservations that end with one agent end as a whole. *)
LEMMA WholeReservations ==
  ASSUME SingleCustody, SingleCustody', NEW src, NEW a, a # <<"nobody">>,
         <<"nobody">> \notin src,
         Abstract!Transfer(src, {a}),
         \A k \in src : \A id : Owns(k, id) => Owns(a, id)'
  PROVE  \A c, d \in CoinIds :
           OwnerOf(c) = OwnerOf(d) => OwnerOf(c)' = OwnerOf(d)'
<1> SUFFICES ASSUME NEW c \in CoinIds, NEW d \in CoinIds, OwnerOf(c) = OwnerOf(d)
             PROVE  OwnerOf(c)' = OwnerOf(d)'
  OBVIOUS
<1>1. PICK g : g = OwnerOf(c) /\ g = OwnerOf(d)
  OBVIOUS
<1>2. CASE g \in src
  <2>1. Owns(g, c) /\ Owns(g, d)
    BY <1>1, <1>2, OwnerIsTheHolder
  <2>2. Owns(a, c)' /\ Owns(a, d)'
    BY <1>2, <2>1
  <2> QED
    BY <2>2, OwnerIsTheHolder
<1>3. CASE g \notin src
  BY <1>1, <1>3 DEF Abstract!Transfer
<1> QED
  BY <1>2, <1>3

LEMMA ReserveImplements ==
  ASSUME TInv, CInv, KnownOwners, TInv', CInv', KnownOwners',
         NEW budget \in Nat \ {0}, NEW duration, Reserve(budget, duration)
  PROVE  \E r \in 1 .. MaxReservations : Abstract!Reserve(<<"reservation", r>>)
<1>0. PICK r \in Nat : r = nextReservationId + 1
  BY DEF TInv, Typed, PoolTyped
<1> DEFINE dst == <<"reservation", r>>
           From == {<<"pool">>}
           To == {dst}
<1>1. PICK n \in 1 .. Len(available), taken \in Seq(Coin) :
           /\ available = taken \o available'
           /\ available' \in Seq(Coin)
           /\ nextReservationId' = nextReservationId + 1
           /\ reservations' =
                [x \in DOMAIN reservations \cup {nextReservationId + 1} |->
                   IF x = nextReservationId + 1 THEN IdsOf(taken)
                   ELSE reservations[x]]
  BY GrantTakesTheFront DEF Reserve, TInv, Typed
<1>2. r \in 1 .. MaxReservations
  BY <1>0, <1>1, GasStationAssumption DEF KnownOwners, TInv, Typed, PoolTyped
<1>3. r \notin DOMAIN reservations
  BY <1>0 DEF TInv, Typed, PoolTyped
<1>4. /\ reservations'[r] = IdsOf(taken)
      /\ \A q \in DOMAIN reservations : reservations'[q] = reservations[q]
      /\ DOMAIN reservations' = DOMAIN reservations \cup {r}
  BY <1>0, <1>1, <1>3
<1>5. ToSet(IdsOf(available)) = ToSet(IdsOf(taken)) \cup ToSet(IdsOf(available'))
  <2>1. ToSet(IdsOf(taken \o available'))
          = ToSet(IdsOf(taken)) \cup ToSet(IdsOf(available'))
    BY <1>1, IdsOfConcatIsInjective
  <2> QED
    BY <1>1, <2>1
<1>6. UNCHANGED <<task, unlocker>>
  BY DEF Reserve, processVars
<1>7. /\ \A id : Owns(<<"pool">>, id) <=> id \in ToSet(IdsOf(available))
      /\ \A id : Owns(<<"pool">>, id)' <=> id \in ToSet(IdsOf(available'))
      /\ \A id : Owns(dst, id)' <=> id \in ToSet(IdsOf(taken))
      /\ \A id : ~Owns(dst, id)
  BY <1>3, <1>4, OwnsByKind
<1>8. \A h : h \notin From \cup To => \A id : Owns(h, id)' <=> Owns(h, id)
  <2>1. <<"pool">> \in From \cup To
    OBVIOUS
  <2>2. \A q : \/ <<"reservation", q>> \in From \cup To
               \/ /\ q \in DOMAIN reservations' <=> q \in DOMAIN reservations
                  /\ q \in DOMAIN reservations => reservations'[q] = reservations[q]
    BY <1>4
  <2> HIDE DEF From, To
  <2> QED
    BY <1>6, <2>1, <2>2, UntouchedOwners DEF PaymentIds
<1>9. Abstract!Transfer(From, To)
  <2>1. /\ <<"nobody">> \notin From
        /\ \A h \in From : h = <<"pool">>
        /\ \A h \in To : h = dst
        /\ <<"pool">> \in From /\ dst \in To
    OBVIOUS
  <2> HIDE DEF From, To, dst
  <2> QED
    BY <1>5, <1>7, <1>8, <2>1, CoinsAreTransferred DEF CInv
<1>10. Abstract!OwnsNothing(dst)
  <2>1. dst # <<"nobody">>
    OBVIOUS
  <2> HIDE DEF dst
  <2> QED
    BY <1>7, <2>1, OwnersOf DEF CInv
<1> QED
  BY <1>2, <1>9, <1>10 DEF Abstract!Reserve

LEMMA StartExecutionImplements ==
  ASSUME TInv, CInv, KnownOwners, TInv', CInv', KnownOwners',
         NEW t \in Tasks, NEW g \in granted, StartExecution(t, g),
         lostReplies = 0, lostReplies' = 0
  PROVE  Abstract!TakeOver(<<"task", t>>)
<1>0. PICK r : r = g.reservation
  OBVIOUS
<1> DEFINE dst == <<"task", t>>
           src == <<"reservation", r>>
           From == {src}
           To == {dst}
<1>1. /\ r \in DOMAIN reservations
      /\ reservations' = Restrict(reservations, DOMAIN reservations \ {r})
      /\ task' = [task EXCEPT ![t].pc = "query", ![t].payment = g.coins]
      /\ task[t].pc = "idle"
      /\ UNCHANGED <<available, unlocker>>
  BY <1>0 DEF StartExecution, ReadyForExecution, ReplyIsLost, poolVars
<1>2. task'[t].payment = g.coins /\ \A u \in Tasks \ {t} : task'[u] = task[u]
  BY <1>1 DEF TInv, Typed, TasksTyped
<1>3. /\ DOMAIN reservations' = DOMAIN reservations \ {r}
      /\ \A q \in DOMAIN reservations' : reservations'[q] = reservations[q]
  BY <1>1 DEF Restrict
<1>4. PaymentIds(t)' = ToSet(reservations[r])
  <2>1. PaymentIds(t)' = {g.coins[i].id : i \in DOMAIN g.coins}
    BY <1>2 DEF PaymentIds
  <2> QED
    BY <1>0, <1>1, <2>1 DEF CInv, GrantsMatch
<1>5. PaymentIds(t) = {}
  <2>1. task[t].payment = << >>
    BY <1>1 DEF KnownOwners
  <2> QED
    BY <2>1 DEF PaymentIds
<1>6. /\ \A id : Owns(src, id) <=> id \in ToSet(reservations[r])
      /\ \A id : ~Owns(src, id)'
      /\ \A id : Owns(dst, id)' <=> id \in ToSet(reservations[r])
      /\ \A id : ~Owns(dst, id)
  BY <1>1, <1>3, <1>4, <1>5, OwnsByKind
<1>7. \A h : h \notin From \cup To => \A id : Owns(h, id)' <=> Owns(h, id)
  <2>1. \A q : \/ <<"reservation", q>> \in From \cup To
               \/ /\ q \in DOMAIN reservations' <=> q \in DOMAIN reservations
                  /\ q \in DOMAIN reservations => reservations'[q] = reservations[q]
    BY <1>3
  <2>2. \A u \in Tasks : \/ <<"task", u>> \in From \cup To
                         \/ PaymentIds(u)' = PaymentIds(u)
    BY <1>2 DEF PaymentIds
  <2> HIDE DEF From, To
  <2> QED
    BY <1>1, <2>1, <2>2, UntouchedOwners
<1>8. /\ <<"nobody">> \notin From /\ dst # <<"nobody">>
      /\ \A h \in From : h = src
      /\ \A h \in To : h = dst
      /\ src \in From /\ dst \in To
  OBVIOUS
<1>9. Abstract!Transfer(From, To)
  <2> HIDE DEF From, To, dst, src
  <2> QED
    BY <1>6, <1>7, <1>8, CoinsAreTransferred DEF CInv
<1>10. r \in 1 .. MaxReservations
  BY <1>1, GasStationAssumption DEF KnownOwners, TInv, Typed, PoolTyped
<1>11. \A c, d \in CoinIds : OwnerOf(c) = OwnerOf(d) => OwnerOf(c)' = OwnerOf(d)'
  <2>1. Abstract!Transfer(From, {dst})
    BY <1>9
  <2> HIDE DEF From, To, dst, src
  <2> QED
    BY <1>6, <1>8, <2>1, WholeReservations DEF CInv
<1>12. Abstract!OwnsNothing(dst)
  <2> HIDE DEF From, To, dst, src
  <2> QED
    BY <1>6, <1>8, OwnersOf DEF CInv
<1>13. Abstract!Transfer({<<"reservation", q>> : q \in 1 .. MaxReservations}, {dst})
  BY <1>9, <1>10 DEF Abstract!Transfer
<1> QED
  BY <1>11, <1>12, <1>13 DEF Abstract!TakeOver

LEMMA ExpiryImplements ==
  ASSUME TInv, CInv, KnownOwners, TInv', CInv', KnownOwners',
         NEW s \in Stations, UnlockExpire(s), lostReplies = 0, lostReplies' = 0
  PROVE  Abstract!TakeOver(<<"unlocker", s>>)
<1> DEFINE ids == UNION {ToSet(reservations[r]) : r \in ExpiredReservations}
           dst == <<"unlocker", s>>
           To == {dst}
<1>1. /\ reservations' = Restrict(reservations, DOMAIN reservations \ DueReservations)
      /\ unlocker[s].pc = "idle"
      /\ unlocker' = IF ids = {} THEN unlocker
                     ELSE [unlocker EXCEPT ![s].pc = "latest", ![s].batch = ids]
      /\ UNCHANGED <<available, task>>
  BY DEF UnlockExpire, ExpireCoins, ReplyIsLost, poolVars
<1>2. /\ DOMAIN reservations' = DOMAIN reservations \ DueReservations
      /\ \A r \in DOMAIN reservations' : reservations'[r] = reservations[r]
  BY <1>1 DEF Restrict
<1>3. PICK From : From = {<<"reservation", r>> : r \in ExpiredReservations}
  OBVIOUS
<1>4. unlocker[s].batch = {}
  BY <1>1 DEF KnownOwners
<1> HIDE DEF ids
<1>5. /\ unlocker'[s].batch = ids
      /\ \A u \in Stations \ {s} : unlocker'[u] = unlocker[u]
  BY <1>1, <1>4 DEF TInv, Typed, UnlockersTyped
<1>6. \A id : id \in ids <=> \E k \in From : Owns(k, id)
  <2>1. ASSUME NEW id \in ids PROVE \E k \in From : Owns(k, id)
    <3>1. PICK r \in ExpiredReservations : id \in ToSet(reservations[r])
      BY DEF ids
    <3>2. r \in DOMAIN reservations
      BY DEF ExpiredReservations
    <3>3. Owns(<<"reservation", r>>, id)
      BY <3>1, <3>2, OwnsByKind
    <3> QED
      BY <1>3, <3>3
  <2>2. ASSUME NEW id, NEW k \in From, Owns(k, id) PROVE id \in ids
    <3>1. PICK r \in ExpiredReservations : k = <<"reservation", r>>
      BY <1>3
    <3>2. id \in ToSet(reservations[r])
      BY <2>2, <3>1, OwnsByKind
    <3> QED
      BY <3>2 DEF ids
  <2> QED
    BY <2>1, <2>2
<1>7. /\ \A id : Owns(dst, id)' <=> id \in ids
      /\ \A id : ~Owns(dst, id)
  BY <1>4, <1>5, OwnsByKind
<1>8. \A k \in From : \A id : ~Owns(k, id)'
  <2> SUFFICES ASSUME NEW r \in ExpiredReservations, NEW id
               PROVE  ~Owns(<<"reservation", r>>, id)'
    BY <1>3
  <2>1. r \notin DOMAIN reservations'
    BY <1>2 DEF ExpiredReservations
  <2> QED
    BY <2>1, OwnsByKind
<1>9. \A h : h \notin From \cup To => \A id : Owns(h, id)' <=> Owns(h, id)
  <2>1. \A q : \/ <<"reservation", q>> \in From \cup To
               \/ /\ q \in DOMAIN reservations' <=> q \in DOMAIN reservations
                  /\ q \in DOMAIN reservations => reservations'[q] = reservations[q]
    BY <1>2, <1>3 DEF ExpiredReservations
  <2>2. \A u \in Stations : \/ <<"unlocker", u>> \in From \cup To
                            \/ unlocker'[u].batch = unlocker[u].batch
    BY <1>5
  <2>3. \A t \in Tasks : PaymentIds(t)' = PaymentIds(t)
    BY <1>1 DEF PaymentIds
  <2>4. PICK touched : touched = From \cup To
    OBVIOUS
  <2> HIDE DEF To
  <2> QED
    BY <1>1, <2>1, <2>2, <2>3, <2>4, UntouchedOwners
<1>10. /\ <<"nobody">> \notin From /\ dst # <<"nobody">>
       /\ \A h \in To : h = dst
       /\ dst \in To
  BY <1>3
<1>11. Abstract!Transfer(From, To)
  <2> HIDE DEF To, dst
  <2> QED
    BY <1>6, <1>7, <1>8, <1>9, <1>10, CoinsAreTransferred DEF CInv
<1>12. \A c, d \in CoinIds : OwnerOf(c) = OwnerOf(d) => OwnerOf(c)' = OwnerOf(d)'
  <2>1. Abstract!Transfer(From, {dst})
    BY <1>11
  <2>2. \A k \in From : \A id : Owns(k, id) => Owns(dst, id)'
    BY <1>6, <1>7
  <2> HIDE DEF To, dst
  <2> QED
    BY <1>10, <2>1, <2>2, WholeReservations DEF CInv
<1>13. Abstract!OwnsNothing(dst)
  <2> HIDE DEF To, dst
  <2> QED
    BY <1>7, <1>10, OwnersOf DEF CInv
<1>14. From \subseteq {<<"reservation", q>> : q \in 1 .. MaxReservations}
  <2>1. ExpiredReservations \subseteq 1 .. MaxReservations
    BY GasStationAssumption DEF ExpiredReservations, KnownOwners, TInv, Typed, PoolTyped
  <2> QED
    BY <1>3, <2>1
<1>15. Abstract!Transfer({<<"reservation", q>> : q \in 1 .. MaxReservations}, {dst})
  BY <1>11, <1>14 DEF Abstract!Transfer
<1> QED
  BY <1>12, <1>13, <1>15 DEF Abstract!TakeOver

LEMMA ReleaseImplements ==
  ASSUME TInv, CInv, KnownOwners, TInv', CInv', KnownOwners',
         NEW a, NEW coins \in Seq(Coin),
         \/ \E t \in Tasks : a = <<"task", t>>
         \/ \E s \in Stations : a = <<"unlocker", s>>,
         UNCHANGED reservations,
         \/ available' = available
         \/ /\ available' = available \o coins
            /\ \A id \in ToSet(IdsOf(coins)) : Owns(a, id),
         \A id : ~Owns(a, id)',
         \A t \in Tasks : a = <<"task", t>> \/ PaymentIds(t)' = PaymentIds(t),
         \A s \in Stations : \/ a = <<"unlocker", s>>
                             \/ unlocker'[s].batch = unlocker[s].batch
  PROVE  Abstract!GiveBack(a)
<1> DEFINE From == {a}
           To == {<<"pool">>, <<"nobody">>}
<1>1. /\ \A id : Owns(<<"pool">>, id) => Owns(<<"pool">>, id)'
      /\ \A id : Owns(<<"pool">>, id)' => Owns(<<"pool">>, id) \/ Owns(a, id)
  <2>1. CASE available' = available
    BY <2>1, OwnsByKind
  <2>2. CASE available' # available
    <3>1. ToSet(IdsOf(available')) = ToSet(IdsOf(available)) \cup ToSet(IdsOf(coins))
      <4>1. available \in Seq(Coin)
        BY DEF TInv, Typed, PoolTyped
      <4> QED
        BY <2>2, <4>1, IdsOfConcatIsInjective
    <3>2. \A id \in ToSet(IdsOf(coins)) : Owns(a, id)
      BY <2>2
    <3> QED
      BY <3>1, <3>2, OwnsByKind
  <2> QED
    BY <2>1, <2>2
<1>2. \A id : ~Owns(<<"nobody">>, id) /\ ~Owns(<<"nobody">>, id)'
  BY DEF Owns, Holders
<1>3. PICK touched : touched = From \cup To
  OBVIOUS
<1>4. \A h : h \notin touched => \A id : Owns(h, id)' <=> Owns(h, id)
  <2>1. <<"pool">> \in touched /\ a \in touched
    BY <1>3
  <2> HIDE DEF From, To
  <2> QED
    BY <2>1, UntouchedOwners
<1>5. a # <<"nobody">>
  OBVIOUS
<1>6. Abstract!Transfer(From, To)
  <2>1. /\ <<"nobody">> \notin From
        /\ \A h \in From : h = a
        /\ \A h \in To : h = <<"pool">> \/ h = <<"nobody">>
        /\ a \in From /\ <<"nobody">> \in To
    BY <1>5
  <2> HIDE DEF From, To
  <2> QED
    BY <1>1, <1>2, <1>3, <1>4, <2>1, CoinsAreTransferred DEF CInv
<1>7. \A c \in CoinIds : OwnerOf(c)' # a
  BY <1>5, OwnersOf DEF CInv
<1> QED
  BY <1>6, <1>7 DEF Abstract!GiveBack

LEMMA CrashImplements ==
  ASSUME TInv, CInv, KnownOwners, TInv', CInv', KnownOwners',
         NEW s \in Stations, Crash(s)
  PROVE  Abstract!Stop
<1>1. PICK From : From = {<<"task", t>> : t \in Tasks}
                           \cup {<<"unlocker", u>> : u \in Stations}
  OBVIOUS
<1> DEFINE To == {<<"nobody">>}
<1>2. /\ UNCHANGED <<available, reservations>>
      /\ \A t \in Tasks : task'[t] = task[t] \/ task'[t] = IdleTask
      /\ \A u \in Stations : unlocker'[u] = unlocker[u] \/ unlocker'[u] = IdleUnlocker
  BY DEF Crash, registryVars, poolVars, reservationVars, TInv, Typed, UnlockersTyped
<1>3. ASSUME NEW h \in From, NEW id, Owns(h, id)' PROVE Owns(h, id)
  <2>1. ASSUME NEW t \in Tasks, h = <<"task", t>> PROVE Owns(h, id)
    <3>1. id \in PaymentIds(t)'
      BY <1>3, <2>1, OwnsByKind
    <3>2. task'[t] = task[t]
      <4>1. task'[t] # IdleTask
        BY <3>1 DEF PaymentIds, IdleTask
      <4> QED
        BY <1>2, <4>1
    <3>3. id \in PaymentIds(t)
      BY <3>1, <3>2 DEF PaymentIds
    <3> QED
      BY <2>1, <3>3, OwnsByKind
  <2>2. ASSUME NEW u \in Stations, h = <<"unlocker", u>> PROVE Owns(h, id)
    <3>1. id \in unlocker'[u].batch
      BY <1>3, <2>2, OwnsByKind
    <3>2. id \in unlocker[u].batch
      BY <1>2, <3>1 DEF IdleUnlocker
    <3> QED
      BY <2>2, <3>2, OwnsByKind
  <2> QED
    BY <1>1, <2>1, <2>2
<1>4. \A id : ~Owns(<<"nobody">>, id) /\ ~Owns(<<"nobody">>, id)'
  BY DEF Owns, Holders
<1>5. PICK touched : touched = From \cup To
  OBVIOUS
<1>6. \A h : h \notin touched => \A id : Owns(h, id)' <=> Owns(h, id)
  <2>1. /\ \A t \in Tasks : <<"task", t>> \in touched
        /\ \A u \in Stations : <<"unlocker", u>> \in touched
    BY <1>1, <1>5
  <2> HIDE DEF To
  <2> QED
    BY <1>2, <2>1, UntouchedOwners
<1>7. Abstract!Transfer(From, To)
  <2>1. /\ <<"nobody">> \notin From
        /\ \A h \in To : h = <<"nobody">>
        /\ <<"nobody">> \in To
    BY <1>1
  <2> HIDE DEF To
  <2> QED
    BY <1>3, <1>4, <1>5, <1>6, <2>1, CoinsAreTransferred DEF CInv
<1> QED
  BY <1>1, <1>7 DEF Abstract!Stop

LEMMA TaskStepImplements ==
  ASSUME TInv, CInv, KnownOwners, TInv', CInv', KnownOwners',
         NEW t \in Tasks, TaskStep(t), lostReplies = 0, lostReplies' = 0
  PROVE  Abstract!GiveBack(<<"task", t>>) \/ \A id : OwnerOf(id)' = OwnerOf(id)
<1>0. task \in [Tasks -> [pc : TaskPCs, payment : Seq(ObjectRef),
                          before : Nat, updated : Seq(Coin)]]
  BY DEF TInv, Typed, TasksTyped
<1>1. UNCHANGED <<reservations, unlocker>>
  BY DEF TaskStep, QueryTotalBalance, ExecuteOk, ExecuteErr, QueryLatest,
         TriggerRescan, ReleaseCoins, AddNewCoins, AddNewCoinsFailed, PushCoins,
         registryVars, reservationVars
<1>2. CASE TriggerRescan(t) \/ ReleaseCoins(t)
  <2> DEFINE a == <<"task", t>>
  <2>1. task' = [task EXCEPT ![t] = IdleTask]
    BY <1>2, AdditionsSucceed
       DEF TriggerRescan, ReleaseCoins, ReplyIsLost, AddNewCoinsFailed, TInv, Typed
  <2>2. PaymentIds(t)' = {}
    BY <1>0, <2>1 DEF IdleTask, PaymentIds
  <2>3. \A u \in Tasks : a = <<"task", u>> \/ PaymentIds(u)' = PaymentIds(u)
    BY <1>0, <2>1 DEF PaymentIds
  <2>4. PICK coins \in Seq(Coin) : coins = task[t].updated
    BY <1>0
  <2>5. \/ available' = available
        \/ /\ available' = available \o coins
           /\ \A id \in ToSet(IdsOf(coins)) : Owns(a, id)
    <3>1. CASE TriggerRescan(t)
      BY <3>1 DEF TriggerRescan, registryVars, poolVars
    <3>2. CASE ReleaseCoins(t)
      <4>1. available' = available \o coins
        BY <2>4, <3>2, AdditionsSucceed
           DEF ReleaseCoins, AddNewCoins, AddNewCoinsFailed, PushCoins, TInv, Typed
      <4>2. ToSet(IdsOf(coins)) \subseteq PaymentIds(t)
        BY <2>4, <3>2 DEF ReleaseCoins, CInv, TasksHoldWhatTheyRelease
      <4> QED
        BY <4>1, <4>2, OwnsByKind
    <3> QED
      BY <1>2, <3>1, <3>2
  <2>6. \A id : ~Owns(a, id)'
    BY <2>2, OwnsByKind
  <2>7. \E u \in Tasks : a = <<"task", u>>
    OBVIOUS
  <2> HIDE DEF a
  <2>8. Abstract!GiveBack(a)
    BY <1>1, <2>3, <2>5, <2>6, <2>7, ReleaseImplements
  <2> QED
    BY <2>8 DEF a
<1>3. CASE QueryTotalBalance(t) \/ ExecuteOk(t) \/ ExecuteErr(t) \/ QueryLatest(t)
  <2>1. UNCHANGED available
    BY <1>3 DEF QueryTotalBalance, ExecuteOk, ExecuteErr, QueryLatest,
                registryVars, poolVars
  <2>2. \A u \in Tasks : task'[u].payment = task[u].payment
    <3>1. CASE ExecuteOk(t)
      <4>1. PICK gas \in NetGas :
              task' = [task EXCEPT ![t].pc = "release",
                                   ![t].updated = <<UpdatedCoin(t, gas)>>]
        BY <3>1 DEF ExecuteOk
      <4> QED
        BY <1>0, <4>1
    <3>2. CASE QueryTotalBalance(t)
      BY <1>0, <3>2 DEF QueryTotalBalance
    <3>3. CASE ExecuteErr(t)
      BY <1>0, <3>3 DEF ExecuteErr
    <3>4. CASE QueryLatest(t)
      BY <1>0, <3>4 DEF QueryLatest
    <3> QED
      BY <1>3, <3>1, <3>2, <3>3, <3>4
  <2>3. \A u \in Tasks : PaymentIds(u)' = PaymentIds(u)
    BY <2>2 DEF PaymentIds
  <2> QED
    BY <1>1, <2>1, <2>3, OwnersStay DEF CInv
<1> QED
  BY <1>2, <1>3 DEF TaskStep

LEMMA UnlockStepImplements ==
  ASSUME TInv, CInv, KnownOwners, TInv', CInv', KnownOwners',
         NEW s \in Stations, UnlockStep(s), lostReplies = 0, lostReplies' = 0
  PROVE  \/ Abstract!TakeOver(<<"unlocker", s>>)
         \/ Abstract!GiveBack(<<"unlocker", s>>)
         \/ \A id : OwnerOf(id)' = OwnerOf(id)
<1>0. unlocker \in [Stations -> [pc : UnlockerPCs, batch : SUBSET CoinIds,
                                 updated : Seq(Coin)]]
  BY DEF TInv, Typed, UnlockersTyped
<1>1. CASE UnlockExpire(s)
  BY <1>1, ExpiryImplements
<1>2. CASE UnlockQuery(s)
  <2>1. UNCHANGED <<available, reservations, task>>
    BY <1>2 DEF UnlockQuery, registryVars, poolVars, reservationVars
  <2>2. \A u \in Stations : unlocker'[u].batch = unlocker[u].batch
    BY <1>0, <1>2 DEF UnlockQuery
  <2>3. \A t \in Tasks : PaymentIds(t)' = PaymentIds(t)
    BY <2>1 DEF PaymentIds
  <2> QED
    BY <2>1, <2>2, <2>3, OwnersStay DEF CInv
<1>3. CASE UnlockRelease(s)
  <2> DEFINE a == <<"unlocker", s>>
  <2>1. PICK coins \in Seq(Coin) : coins = unlocker[s].updated
    BY <1>0
  <2>2. /\ unlocker' = [unlocker EXCEPT ![s] = IdleUnlocker]
        /\ available' = available \o coins
        /\ UNCHANGED <<reservations, task>>
    BY <1>3, <2>1, AdditionsSucceed
       DEF UnlockRelease, ReplyIsLost, AddNewCoins, AddNewCoinsFailed, PushCoins,
           reservationVars, TInv, Typed
  <2>3. unlocker'[s].batch = {}
    BY <1>0, <2>2 DEF IdleUnlocker
  <2>4. \A id \in ToSet(IdsOf(coins)) : Owns(a, id)
    <3>1. ToSet(IdsOf(coins)) \subseteq unlocker[s].batch
      BY <1>3, <2>1 DEF UnlockRelease, CInv, UnlockersHoldWhatTheyRelease
    <3> QED
      BY <3>1, OwnsByKind
  <2>5. \A id : ~Owns(a, id)'
    BY <2>3, OwnsByKind
  <2>6. \A t \in Tasks : PaymentIds(t)' = PaymentIds(t)
    BY <2>2 DEF PaymentIds
  <2>7. \A u \in Stations : \/ a = <<"unlocker", u>>
                            \/ unlocker'[u].batch = unlocker[u].batch
    BY <1>0, <2>2
  <2>8. \E u \in Stations : a = <<"unlocker", u>>
    OBVIOUS
  <2> HIDE DEF a
  <2>9. Abstract!GiveBack(a)
    BY <2>2, <2>4, <2>5, <2>6, <2>7, <2>8, ReleaseImplements
  <2> QED
    BY <2>9 DEF a
<1> QED
  BY <1>1, <1>2, <1>3 DEF UnlockStep

LEMMA InitImplements == Init => Abstract!Init
<1>1. SUFFICES ASSUME Init PROVE Abstract!Init
  OBVIOUS
<1>2. PICK order \in SetToSeqs(CoinIds) :
        available = [i \in DOMAIN order |->
                       [id |-> order[i], balance |-> InitialBalance, version |-> 1]]
  BY <1>1 DEF Init
<1> DEFINE n == Cardinality(CoinIds)
<1>3. /\ n \in Nat /\ order \in [1 .. n -> CoinIds]
      /\ \A i, j \in 1 .. n : order[i] = order[j] => i = j
  BY GasStationAssumption, FS_CardinalityType DEF SetToSeqs
<1>4. order \in Surjection(1 .. n, CoinIds)
  <2>1. order \in Injection(1 .. n, CoinIds)
    BY <1>3 DEF Injection, IsInjective
  <2>2. IsFiniteSet(CoinIds)
    BY GasStationAssumption
  <2>3. Cardinality(1 .. n) = n
    <3>1. \A k \in Nat : Cardinality(1 .. k) = IF 1 > k THEN 0 ELSE k - 1 + 1
      BY FS_Interval
    <3>2. \A k \in Nat : Cardinality(1 .. k) = k
      BY <3>1
    <3> QED
      BY <1>3, <3>2
  <2> QED
    BY <2>1, <2>2, <2>3, FS_Injection
<1>5. CoinIds \subseteq ToSet(IdsOf(available))
  <2> SUFFICES ASSUME NEW id \in CoinIds PROVE id \in ToSet(IdsOf(available))
    OBVIOUS
  <2>1. PICK i \in 1 .. n : order[i] = id
    BY <1>4 DEF Surjection
  <2>2. DOMAIN order = 1 .. n
    BY <1>3
  <2>3. i \in DOMAIN IdsOf(available) /\ IdsOf(available)[i] = id
    BY <1>2, <2>1, <2>2 DEF IdsOf
  <2> QED
    BY <2>3 DEF ToSet
<1>6. \A id \in CoinIds : OwnerOf(id) = <<"pool">>
  <2> SUFFICES ASSUME NEW id \in CoinIds PROVE OwnerOf(id) = <<"pool">>
    OBVIOUS
  <2>1. <<"pool">> \in Holders /\ id \in CoinsOf(<<"pool">>)
    BY <1>5, CoinsOfHolders DEF Holders
  <2>2. \A g, h \in Holders : g # h => CoinsOf(g) \cap CoinsOf(h) = {}
    BY <1>1, InitialCustody DEF CInv, SingleCustody
  <2> QED
    BY <2>1, <2>2 DEF OwnerOf
<1> QED
  BY <1>6 DEF Abstract!Init

LEMMA StepsImplement ==
  ASSUME TInv, CInv, KnownOwners, TInv', CInv', KnownOwners', [Next]_vars,
         lostReplies = 0, lostReplies' = 0
  PROVE  [Abstract!Next]_[id \in CoinIds |-> OwnerOf(id)]
<1> SUFFICES Abstract!Next \/ \A id : OwnerOf(id)' = OwnerOf(id)
  OBVIOUS
<1>1. ASSUME NEW b \in Nat \ {0}, NEW d, Reserve(b, d) PROVE Abstract!Next
  BY <1>1, ReserveImplements DEF Abstract!Next
<1>2. ASSUME NEW b \in Budgets, NEW d \in Durations, ReserveGas(b, d)
      PROVE  Abstract!Next
  <2>1. b \in Nat \ {0}
    BY <1>2, GasStationAssumption DEF ReserveGas, ValidRequest
  <2> QED
    BY <1>1, <1>2, <2>1 DEF ReserveGas
<1>3. CASE DebugCheckHealth
  <2>1. HealthBudget \in Nat \ {0}
    BY GasStationAssumption
  <2> QED
    BY <1>1, <1>3, <2>1 DEF DebugCheckHealth
<1>4. ASSUME NEW t \in Tasks, NEW g \in granted, StartExecution(t, g)
      PROVE  Abstract!Next
  BY <1>4, StartExecutionImplements DEF Abstract!Next
<1>5. ASSUME NEW t \in Tasks, TaskStep(t)
      PROVE  Abstract!Next \/ \A id : OwnerOf(id)' = OwnerOf(id)
  BY <1>5, TaskStepImplements DEF Abstract!Next
<1>6. ASSUME NEW s \in Stations, UnlockStep(s)
      PROVE  Abstract!Next \/ \A id : OwnerOf(id)' = OwnerOf(id)
  BY <1>6, UnlockStepImplements DEF Abstract!Next
<1>7. ASSUME NEW s \in Stations, Crash(s) PROVE Abstract!Next
  BY <1>7, CrashImplements DEF Abstract!Next
<1>8. ASSUME NEW s \in Stations, Restart(s)
      PROVE  \A id : OwnerOf(id)' = OwnerOf(id)
  BY <1>8, OwnersStay DEF Restart, InitCoinStats, reservationVars, PaymentIds, CInv
<1>9. CASE FullnodeSyncs \/ TimePasses \/ UNCHANGED vars
  <2>1. UNCHANGED <<available, reservations, task, unlocker>>
    BY <1>9 DEF FullnodeSyncs, TimePasses, Tick, vars, registryVars, poolVars,
                reservationVars, processVars
  <2> QED
    BY <2>1, OwnersStay DEF PaymentIds, CInv
<1>10. ASSUME NEW payment \in sent, NEW gas \in NetGas, LateCommit(payment, gas)
       PROVE  \A id : OwnerOf(id)' = OwnerOf(id)
  <2>1. UNCHANGED <<available, reservations, task, unlocker>>
    BY <1>10 DEF LateCommit, registryVars, poolVars, reservationVars, processVars
  <2> QED
    BY <2>1, OwnersStay DEF PaymentIds, CInv
<1> QED
  BY <1>2, <1>3, <1>4, <1>5, <1>6, <1>7, <1>8, <1>9, <1>10 DEF Next

(* The gas stations keep what storage/mod.rs:24-30 promises of the coins, and
   through every expiry, failure and crash move them only in the ways of the
   abstract pool: a reservation ends whole and with one agent, and a coin that
   was given up does not come back.  A behaviour in which a reply of Redis is
   lost is not covered. *)
THEOREM GasStationImplementsCoinPool ==
  Spec /\ [](lostReplies = 0) => ImplementsCoinPool
<1> DEFINE NoReplyLost == lostReplies = 0
           OwnersInv == IInv /\ KnownOwners
<1>1. Init => Abstract!Init
  BY InitImplements
<1>2. /\ Init => OwnersInv
      /\ OwnersInv /\ [Next]_vars => OwnersInv'
  <2>1. Init => IInv
    BY InitIsTyped, InitialCustody DEF IInv
  <2>2. IInv /\ [Next]_vars => IInv'
    BY StepsAreTyped, RepliesStayLost, StepsKeepCustody DEF IInv
  <2> QED
    BY <2>1, <2>2, InitialOwners, StepsKeepOwnersKnown DEF IInv
<1>3. OwnersInv /\ OwnersInv' /\ NoReplyLost /\ NoReplyLost' /\ [Next]_vars
        => [Abstract!Next]_[id \in CoinIds |-> OwnerOf(id)]
  BY StepsImplement DEF IInv
<1> HIDE DEF NoReplyLost, OwnersInv
<1> QED
  BY <1>1, <1>2, <1>3, PTL DEF Spec, ImplementsCoinPool, Abstract!Spec, NoReplyLost

-----------------------------------------------------------------------------
(* The pool and the ledger. *)
PaidIds(payment) == {payment[i].id : i \in DOMAIN payment}

LiveOf(ids) == {c \in ledger : c.id \in ids}

(* No coin has a balance that a u64 does not hold, as all of IOTA is less. *)
BalancesFit == \A c \in ledger : c.balance < U64

(* A coin is known as the ledger has it, or a late commit has spent it. *)
AllKnown(coins) ==
  \A i \in DOMAIN coins : coins[i] \in ledger \/ RefOf(coins[i]) \in SpentLate

(* Versions grow: no payment names a version that is yet to come, and what a
   commit has replaced never becomes payable again. *)
Old(ref) == \A c \in ledger : c.id = ref.id => ref.version <= c.version

AllOld(payment) == \A i \in DOMAIN payment : Old(payment[i])

Payable(payment) ==
  \A i \in DOMAIN payment : \E c \in ledger : payment[i] = RefOf(c)

HandsKnown ==
  /\ AllKnown(available)
  /\ \A t \in Tasks : task[t].pc = "release" => AllKnown(task[t].updated)
  /\ \A s \in Stations :
       unlocker[s].pc = "release" => AllKnown(unlocker[s].updated)

PaymentsOld ==
  /\ \A ref \in SpentLate : Old(ref)
  /\ \A g \in granted : AllOld(g.coins)
  /\ \A t \in Tasks : AllOld(task[t].payment)
  /\ \A p \in sent : AllOld(p)

BalancesRead ==
  \A t \in Tasks : task[t].pc = "execute" /\ Payable(task[t].payment) =>
    task[t].before = TotalBalance(LiveOf(PaidIds(task[t].payment)))

(* Unless the fullnode has lagged, what a task or an unlock task is about to
   give back is what the ledger has, late commits excepted, and the balance
   that a task has read is the one its transaction pays with. *)
SpendableInv ==
  ~lagged =>
    /\ fullnode = ledger
    /\ HandsKnown
    /\ PaymentsOld
    /\ BalancesRead

(* The latest objects are those of the ledger, in any order, all of them. *)
LEMMA LatestAreLive ==
  ASSUME ChainTyped, fullnode = ledger, NEW ids
  PROVE  /\ LatestGasObjects(ids) = LiveOf(ids)
         /\ \A s \in SetToSeqs(LatestGasObjects(ids)) :
              /\ \A i \in DOMAIN s : s[i] \in ledger
              /\ \A c \in LiveOf(ids) : \E i \in DOMAIN s : s[i] = c
<1>1. LatestGasObjects(ids) = LiveOf(ids)
  BY DEF LatestGasObjects, TryGetIotaCoinBalance, LiveOf
<1> DEFINE S == LiveOf(ids)
<1>2. S \subseteq ledger /\ S \subseteq Coin /\ IsFiniteSet(S) /\ Cardinality(S) \in Nat
  <2>1. S \subseteq ledger
    BY DEF LiveOf
  <2> QED
    BY <2>1, FS_Subset, FS_CardinalityType DEF ChainTyped
<1> HIDE DEF S
<1>3. ASSUME NEW s \in SetToSeqs(S)
      PROVE  /\ \A i \in DOMAIN s : s[i] \in ledger
             /\ \A c \in S : \E i \in DOMAIN s : s[i] = c
  <2>1. /\ s \in [1 .. Cardinality(S) -> S]
        /\ \A i, j \in 1 .. Cardinality(S) : i # j => s[i] # s[j]
    BY DEF SetToSeqs
  <2>2. s \in Injection(1 .. Cardinality(S), S)
    BY <2>1 DEF Injection, IsInjective
  <2>3. s \in Surjection(1 .. Cardinality(S), S)
    <3>1. Cardinality(1 .. Cardinality(S)) = Cardinality(S)
      BY <1>2, FS_Interval
    <3> QED
      BY <1>2, <2>2, <3>1, FS_Injection
  <2> QED
    BY <1>2, <2>1, <2>3 DEF Surjection
<1> QED
  BY <1>1, <1>3 DEF S

(* A commit replaces all coins of the ledger that its payment names by one of
   a later version, and touches no other. *)
LEMMA CommitIsExact ==
  ASSUME ChainTyped, ChainIsUnique, NEW payment \in Payments, NEW gas \in NetGas,
         Commit(payment, gas)
  PROVE  /\ Payable(payment)
         /\ PaidCoins(payment) = LiveOf(PaidIds(payment))
         /\ GasCoin(payment, gas).id \in PaidIds(payment)
         /\ ledger' = (ledger \ LiveOf(PaidIds(payment))) \cup {GasCoin(payment, gas)}
         /\ \A c \in LiveOf(PaidIds(payment)) :
              /\ \E i \in DOMAIN payment : payment[i] = RefOf(c)
              /\ c.version < GasCoin(payment, gas).version
<1>1. payment \in Seq(ObjectRef) /\ 1 \in DOMAIN payment
  BY DEF Payments
<1>2. Payable(payment)
  BY PaymentIsPaid DEF Payable, PaidCoins
<1>3. PaidCoins(payment) = LiveOf(PaidIds(payment))
  <2>1. ASSUME NEW c \in PaidCoins(payment) PROVE c \in LiveOf(PaidIds(payment))
    BY DEF PaidCoins, LiveOf, PaidIds, RefOf
  <2>2. ASSUME NEW c \in LiveOf(PaidIds(payment)) PROVE c \in PaidCoins(payment)
    <3>1. c \in ledger
      BY DEF LiveOf
    <3>2. PICK i \in DOMAIN payment : payment[i].id = c.id
      BY DEF LiveOf, PaidIds
    <3>3. PICK d \in PaidCoins(payment) : payment[i] = RefOf(d)
      BY <3>2, PaymentIsPaid
    <3>4. d \in ledger /\ d.id = c.id
      BY <3>2, <3>3 DEF PaidCoins, RefOf
    <3> QED
      BY <3>1, <3>3, <3>4 DEF ChainIsUnique
  <2> QED
    BY <2>1, <2>2
<1>4. GasCoin(payment, gas).id \in PaidIds(payment)
  BY <1>1 DEF GasCoin, PaidIds
<1>5. ledger' = (ledger \ LiveOf(PaidIds(payment))) \cup {GasCoin(payment, gas)}
  BY <1>3 DEF Commit
<1>6. ASSUME NEW c \in PaidCoins(payment)
      PROVE  /\ \E i \in DOMAIN payment : payment[i] = RefOf(c)
             /\ c.version < GasCoin(payment, gas).version
  <2> DEFINE paid == PaidCoins(payment)
  <2>1. paid \subseteq ledger /\ paid \subseteq Coin /\ IsFiniteSet(paid) /\ paid # {}
    <3>1. paid \subseteq ledger
      BY DEF PaidCoins
    <3> QED
      BY <3>1, <1>6, FS_Subset DEF ChainTyped
  <2>2. GasCoin(payment, gas).version = 1 + Max({d.version : d \in paid})
    BY DEF GasCoin
  <2> HIDE DEF paid
  <2>3. /\ Max({d.version : d \in paid}) \in Nat
        /\ \A d \in paid : d.version <= Max({e.version : e \in paid})
    BY <2>1, LatestVersion
  <2>4. c.version \in Nat /\ c.version <= Max({d.version : d \in paid})
    BY <1>6, <2>1, <2>3 DEF Coin, paid
  <2>5. c.version < GasCoin(payment, gas).version
    BY <2>2, <2>3, <2>4
  <2> QED
    BY <2>5, <1>6 DEF PaidCoins
<1> QED
  BY <1>2, <1>3, <1>4, <1>5, <1>6

LEMMA CommitSparesOthers ==
  ASSUME ChainTyped, ChainIsUnique, NEW payment \in Payments, NEW gas \in NetGas,
         Commit(payment, gas), NEW ids, ids \cap PaidIds(payment) = {}
  PROVE  {c \in ledger' : c.id \in ids} = LiveOf(ids)
<1>1. /\ GasCoin(payment, gas).id \in PaidIds(payment)
      /\ ledger' = (ledger \ LiveOf(PaidIds(payment))) \cup {GasCoin(payment, gas)}
  BY CommitIsExact
<1> QED
  BY <1>1 DEF LiveOf

(* What is old stays so. *)
LEMMA CommitKeepsOld ==
  ASSUME ChainTyped, ChainIsUnique, NEW payment \in Payments, NEW gas \in NetGas,
         Commit(payment, gas), NEW ref, ref.version \in Nat, Old(ref)
  PROVE  Old(ref)'
<1> SUFFICES ASSUME NEW c \in ledger', c.id = ref.id PROVE ref.version <= c.version
  BY DEF Old
<1>1. /\ ledger' = (ledger \ LiveOf(PaidIds(payment))) \cup {GasCoin(payment, gas)}
      /\ Payable(payment)
      /\ \A d \in LiveOf(PaidIds(payment)) : d.version < GasCoin(payment, gas).version
  BY CommitIsExact
<1>2. CASE c \in ledger
  BY <1>2 DEF Old
<1>3. CASE c = GasCoin(payment, gas)
  <2>1. PICK d \in ledger : payment[1] = RefOf(d)
    <3>1. 1 \in DOMAIN payment
      BY DEF Payments
    <3> QED
      BY <1>1, <3>1 DEF Payable
  <2>2. d.id = c.id /\ d.id \in PaidIds(payment)
    <3>1. 1 \in DOMAIN payment /\ d.id = payment[1].id
      BY <2>1 DEF Payments, RefOf
    <3>2. GasCoin(payment, gas).id = payment[1].id
      BY DEF GasCoin
    <3> QED
      BY <1>3, <3>1, <3>2 DEF PaidIds
  <2>3. d.version < c.version
    BY <1>1, <1>3, <2>2 DEF LiveOf
  <2>4. ref.version <= d.version
    BY <2>2 DEF Old
  <2>5. d.version \in Nat /\ c.version \in Nat
    BY <1>3, GasCoinIsTyped DEF ChainTyped, Coin
  <2> QED
    BY <2>3, <2>4, <2>5
<1> QED
  BY <1>1, <1>2, <1>3

(* A payment that shares an id with one that was committed is spent by it. *)
LEMMA CommitSpendsOthers ==
  ASSUME ChainTyped, ChainIsUnique, NEW payment \in Payments, NEW gas \in NetGas,
         Commit(payment, gas), NEW other \in Seq(ObjectRef), AllOld(other),
         Payable(other)'
  PROVE  PaidIds(other) \cap PaidIds(payment) = {}
<1> SUFFICES ASSUME NEW i \in DOMAIN other, other[i].id \in PaidIds(payment)
             PROVE  FALSE
  BY DEF PaidIds
<1>1. /\ ledger' = (ledger \ LiveOf(PaidIds(payment))) \cup {GasCoin(payment, gas)}
      /\ Payable(payment)
      /\ \A d \in LiveOf(PaidIds(payment)) : d.version < GasCoin(payment, gas).version
  BY CommitIsExact
<1>2. PICK c \in ledger' : other[i] = RefOf(c)
  BY DEF Payable
<1>3. c.id = other[i].id /\ c.version = other[i].version
  BY <1>2 DEF RefOf
<1>4. c = GasCoin(payment, gas)
  BY <1>1, <1>3 DEF LiveOf
<1>5. PICK d \in ledger : d.id = c.id
  <2>1. PICK j \in DOMAIN payment : payment[j].id = c.id
    BY <1>3 DEF PaidIds
  <2>2. PICK d \in ledger : payment[j] = RefOf(d)
    BY <1>1, <2>1 DEF Payable
  <2> QED
    BY <2>1, <2>2 DEF RefOf
<1>6. d.version < c.version
  BY <1>1, <1>3, <1>4, <1>5 DEF LiveOf
<1>7. c.version <= d.version
  BY <1>3, <1>5 DEF AllOld, Old
<1>8. d.version \in Nat /\ c.version \in Nat
  BY <1>4, GasCoinIsTyped DEF ChainTyped, Coin
<1> QED
  BY <1>6, <1>7, <1>8

(* Every coin a task or an unlock task may give back is its own, so that a
   commit of another task spares it. *)
LEMMA OthersHoldOtherCoins ==
  ASSUME CInv, NEW t \in Tasks
  PROVE  /\ ToSet(IdsOf(available)) \cap PaymentIds(t) = {}
         /\ \A u \in Tasks \ {t} :
              /\ PaymentIds(u) \cap PaymentIds(t) = {}
              /\ task[u].pc = "release" =>
                   ToSet(IdsOf(task[u].updated)) \cap PaymentIds(t) = {}
         /\ \A s \in Stations :
              /\ unlocker[s].batch \cap PaymentIds(t) = {}
              /\ unlocker[s].pc = "release" =>
                   ToSet(IdsOf(unlocker[s].updated)) \cap PaymentIds(t) = {}
         /\ \A r \in DOMAIN reservations :
              ToSet(reservations[r]) \cap PaymentIds(t) = {}
<1>1. /\ <<"pool">> \in Holders
      /\ \A u \in Tasks : <<"task", u>> \in Holders
      /\ \A s \in Stations : <<"unlocker", s>> \in Holders
      /\ \A r \in DOMAIN reservations : <<"reservation", r>> \in Holders
  BY DEF Holders
<1>2. \A g, h \in Holders : g # h => CoinsOf(g) \cap CoinsOf(h) = {}
  BY DEF CInv, SingleCustody
<1>3. ToSet(IdsOf(available)) \cap PaymentIds(t) = {}
  BY <1>1, <1>2, CoinsOfHolders
<1>4. ASSUME NEW u \in Tasks \ {t}
      PROVE  PaymentIds(u) \cap PaymentIds(t) = {}
  <2>1. <<"task", u>> # <<"task", t>>
    OBVIOUS
  <2> QED
    BY <1>1, <1>2, <2>1, CoinsOfHolders
<1>5. ASSUME NEW s \in Stations
      PROVE  unlocker[s].batch \cap PaymentIds(t) = {}
  <2>1. <<"unlocker", s>> # <<"task", t>>
    OBVIOUS
  <2> QED
    BY <1>1, <1>2, <2>1, CoinsOfHolders
<1>6. ASSUME NEW r \in DOMAIN reservations
      PROVE  ToSet(reservations[r]) \cap PaymentIds(t) = {}
  <2>1. <<"reservation", r>> # <<"task", t>>
    OBVIOUS
  <2> QED
    BY <1>1, <1>2, <2>1, CoinsOfHolders
<1> QED
  BY <1>3, <1>4, <1>5, <1>6
     DEF CInv, TasksHoldWhatTheyRelease, UnlockersHoldWhatTheyRelease

LEMMA CommitKeepsAllOld ==
  ASSUME ChainTyped, ChainIsUnique, NEW payment \in Payments, NEW gas \in NetGas,
         Commit(payment, gas), NEW other \in Seq(ObjectRef), AllOld(other)
  PROVE  AllOld(other)'
<1> SUFFICES ASSUME NEW i \in DOMAIN other PROVE Old(other[i])'
  BY DEF AllOld
<1>1. other[i] \in ObjectRef
  BY ElementOfSeq
<1>2. PICK ref \in ObjectRef : ref = other[i]
  BY <1>1
<1>3. Old(ref) /\ ref.version \in Nat
  BY <1>2 DEF AllOld, ObjectRef
<1>4. Old(ref)'
  BY <1>3, CommitKeepsOld
<1> QED
  BY <1>2, <1>4 DEF Old

(* The balance that a task has read stays the one its payment has, unless the
   payment has been spent. *)
LEMMA CommitKeepsBalance ==
  ASSUME ChainTyped, ChainIsUnique, NEW payment \in Payments, NEW gas \in NetGas,
         Commit(payment, gas), NEW other \in Seq(ObjectRef), AllOld(other),
         NEW before,
         Payable(other) => before = TotalBalance(LiveOf(PaidIds(other))),
         Payable(other)'
  PROVE  before = TotalBalance({c \in ledger' : c.id \in PaidIds(other)})
<1>1. PaidIds(other) \cap PaidIds(payment) = {}
  BY CommitSpendsOthers
<1>2. {c \in ledger' : c.id \in PaidIds(other)} = LiveOf(PaidIds(other))
  BY <1>1, CommitSparesOthers
<1>3. ASSUME NEW i \in DOMAIN other
      PROVE  \E c \in ledger : other[i] = RefOf(c)
  <2>1. PICK c \in ledger' : other[i] = RefOf(c)
    BY DEF Payable
  <2>2. c.id \in PaidIds(other)
    BY <2>1 DEF PaidIds, RefOf
  <2>3. c \in ledger
    BY <1>2, <2>2 DEF LiveOf
  <2> QED
    BY <2>1, <2>3
<1> QED
  BY <1>2, <1>3 DEF Payable

(* What somebody is about to give back, or has given back, stays known: it is
   not what the commit pays with, or the commit is remembered as late. *)
LEMMA CommitKeepsKnown ==
  ASSUME ChainTyped, ChainIsUnique, NEW payment \in Payments, NEW gas \in NetGas,
         Commit(payment, gas), NEW coins, AllKnown(coins), SpentLate \subseteq SpentLate',
         \/ ToSet(IdsOf(coins)) \cap PaidIds(payment) = {}
         \/ ToSet(payment) \subseteq SpentLate'
  PROVE  \A i \in DOMAIN coins :
           coins[i] \in ledger' \/ RefOf(coins[i]) \in SpentLate'
<1> SUFFICES ASSUME NEW i \in DOMAIN coins, RefOf(coins[i]) \notin SpentLate'
             PROVE  coins[i] \in ledger'
  OBVIOUS
<1>1. coins[i] \in ledger
  BY DEF AllKnown
<1>2. /\ ledger' = (ledger \ LiveOf(PaidIds(payment))) \cup {GasCoin(payment, gas)}
      /\ \A c \in LiveOf(PaidIds(payment)) :
           \E j \in DOMAIN payment : payment[j] = RefOf(c)
  BY CommitIsExact
<1>3. CASE ToSet(IdsOf(coins)) \cap PaidIds(payment) = {}
  <2>1. coins[i].id \in ToSet(IdsOf(coins))
    BY DEF ToSet, IdsOf
  <2> QED
    BY <1>1, <1>2, <1>3, <2>1 DEF LiveOf
<1>4. CASE ToSet(payment) \subseteq SpentLate'
  <2>1. coins[i] \notin LiveOf(PaidIds(payment))
    BY <1>2, <1>4 DEF ToSet
  <2> QED
    BY <1>1, <1>2, <2>1
<1> QED
  BY <1>3, <1>4

LEMMA CommitKeepsPayments ==
  ASSUME TInv, CInv, PaymentsOld, NEW payment \in Payments, NEW gas \in NetGas,
         Commit(payment, gas)
  PROVE  /\ \A ref \in SpentLate : Old(ref)'
         /\ \A g \in granted : AllOld(g.coins)'
         /\ \A t \in Tasks : \A i \in DOMAIN task[t].payment :
              \A c \in ledger' : c.id = task[t].payment[i].id =>
                task[t].payment[i].version <= c.version
         /\ \A p \in sent : AllOld(p)'
<1>0. ChainTyped /\ ChainIsUnique
  BY DEF TInv, Typed, CInv
<1>1. ASSUME NEW ref \in SpentLate PROVE Old(ref)'
  <2>1. PICK commit \in late : ref \in commit.paid
    BY DEF SpentLate
  <2>2. ref.version \in Nat
    BY <1>0, <2>1 DEF ChainTyped, LateCommits, ObjectRef
  <2> QED
    BY <1>0, <2>2, CommitKeepsOld DEF PaymentsOld
<1>2. ASSUME NEW g \in granted PROVE AllOld(g.coins)'
  <2>1. g.coins \in Seq(ObjectRef)
    BY DEF TInv, Typed, GrantsTyped
  <2>2. PICK p \in Seq(ObjectRef) : p = g.coins
    BY <2>1
  <2>3. AllOld(p)
    BY <2>2 DEF PaymentsOld
  <2>4. AllOld(p)'
    BY <1>0, <2>3, CommitKeepsAllOld
  <2> QED
    BY <2>2, <2>4
<1>3. ASSUME NEW t \in Tasks
      PROVE  \A i \in DOMAIN task[t].payment : \A c \in ledger' :
               c.id = task[t].payment[i].id => task[t].payment[i].version <= c.version
  <2>1. task[t].payment \in Seq(ObjectRef)
    BY DEF TInv, Typed, TasksTyped
  <2>2. PICK p \in Seq(ObjectRef) : p = task[t].payment
    BY <2>1
  <2>3. AllOld(p)
    BY <2>2 DEF PaymentsOld
  <2>4. AllOld(p)'
    BY <1>0, <2>3, CommitKeepsAllOld
  <2> QED
    BY <2>2, <2>4 DEF AllOld, Old
<1>4. ASSUME NEW p \in sent PROVE AllOld(p)'
  <2>1. p \in Seq(ObjectRef)
    BY <1>0 DEF ChainTyped, Payments
  <2> QED
    BY <1>0, <2>1, CommitKeepsAllOld DEF PaymentsOld
<1> QED
  BY <1>1, <1>2, <1>3, <1>4

(* The balance that execute_transaction derives is what the ledger leaves. *)
LEMMA UpdatedCoinIsLive ==
  ASSUME TInv, CInv, SpendableInv, BalancesFit', ~lagged, NEW t \in Tasks,
         task[t].pc = "execute", NEW gas \in NetGas, Commit(task[t].payment, gas)
  PROVE  UpdatedCoin(t, gas) = GasCoin(task[t].payment, gas) /\ UpdatedCoin(t, gas) \in ledger'
<1>0. ChainTyped /\ ChainIsUnique /\ TasksTyped
  BY DEF TInv, Typed, CInv
<1>1. PICK payment \in Payments : payment = task[t].payment
  BY <1>0, TasksPay
<1>2. Payable(payment) /\ PaidCoins(payment) = LiveOf(PaidIds(payment))
  BY <1>0, <1>1, CommitIsExact
<1>3. task[t].before = TotalBalance(PaidCoins(payment))
  BY <1>1, <1>2 DEF SpendableInv, BalancesRead
<1>4. GasCoin(payment, gas) \in ledger'
  BY <1>1 DEF Commit
<1>5. GasCoin(payment, gas).balance = task[t].before - gas
  BY <1>3 DEF GasCoin
<1>6. task[t].before - gas \in 0 .. U64 - 1
  <2>1. GasCoin(payment, gas).balance < U64
    BY <1>4 DEF BalancesFit
  <2>2. task[t].before >= gas
    BY <1>1, <1>3 DEF Commit, Executable
  <2>3. task[t].before \in Nat /\ gas \in Int /\ U64 \in Nat
    BY <1>0, GasStationAssumption DEF TasksTyped
  <2> QED
    BY <1>5, <2>1, <2>2, <2>3
<1>7. (task[t].before - gas) % U64 = task[t].before - gas
  BY <1>6, GasStationAssumption
<1>8. UpdatedCoin(t, gas) =
        [GasCoin(payment, gas) EXCEPT !.balance = GasCoin(payment, gas).balance]
  BY <1>1, <1>5, <1>7 DEF UpdatedCoin
<1> QED
  BY <1>1, <1>4, <1>8 DEF GasCoin

(* A step without a commit: what is to be given back was so before, or is what
   the ledger has, and who pays does so with what it was granted. *)
LEMMA QuietStepsKeepSpendable ==
  ASSUME SpendableInv, UNCHANGED <<ledger, lagged, late>>,
         fullnode' = fullnode \/ fullnode' = ledger,
         ~lagged => \A i \in DOMAIN available' :
           available'[i] \in ledger \/ RefOf(available'[i]) \in SpentLate,
         ~lagged => \A g \in granted' : g \in granted \/ AllOld(g.coins),
         \A p \in sent' : p \in sent \/ \E t \in Tasks : p = task[t].payment,
         \A t \in Tasks :
           \/ task'[t].payment \in {task[t].payment, << >>}
           \/ \E g \in granted : task'[t].payment = g.coins,
         \A t \in Tasks :
           \/ task'[t] = task[t]
           \/ task'[t].pc \notin {"release", "execute"}
           \/ ~lagged =>
                /\ task'[t].pc = "release" =>
                     \A i \in DOMAIN task'[t].updated : task'[t].updated[i] \in ledger
                /\ task'[t].pc = "execute" =>
                     task'[t].before =
                       TotalBalance({c \in ledger : c.id \in PaidIds(task'[t].payment)}),
         \A s \in Stations :
           \/ unlocker'[s] = unlocker[s]
           \/ unlocker'[s].pc # "release"
           \/ ~lagged => \A i \in DOMAIN unlocker'[s].updated :
                           unlocker'[s].updated[i] \in ledger
  PROVE  SpendableInv'
<1> SUFFICES ASSUME ~lagged'
             PROVE  fullnode' = ledger' /\ HandsKnown' /\ PaymentsOld' /\ BalancesRead'
  BY DEF SpendableInv
<1>1. ~lagged /\ fullnode = ledger /\ HandsKnown /\ PaymentsOld /\ BalancesRead
  BY DEF SpendableInv
<1>2. SpentLate' = SpentLate
  BY DEF SpentLate
<1>3. HandsKnown'
  <2>1. AllKnown(available)'
    BY <1>1, <1>2 DEF AllKnown
  <2>2. ASSUME NEW t \in Tasks, task'[t].pc = "release"
        PROVE  AllKnown(task[t].updated)'
    <3>1. CASE task'[t] = task[t]
      <4>1. AllKnown(task[t].updated)
        BY <1>1, <2>2, <3>1 DEF HandsKnown
      <4> QED
        BY <1>2, <3>1, <4>1 DEF AllKnown
    <3>2. CASE task'[t] # task[t]
      BY <1>1, <2>2, <3>2 DEF AllKnown
    <3> QED
      BY <3>1, <3>2
  <2>3. ASSUME NEW s \in Stations, unlocker'[s].pc = "release"
        PROVE  AllKnown(unlocker[s].updated)'
    <3>1. CASE unlocker'[s] = unlocker[s]
      <4>1. AllKnown(unlocker[s].updated)
        BY <1>1, <2>3, <3>1 DEF HandsKnown
      <4> QED
        BY <1>2, <3>1, <4>1 DEF AllKnown
    <3>2. CASE unlocker'[s] # unlocker[s]
      BY <1>1, <2>3, <3>2 DEF AllKnown
    <3> QED
      BY <3>1, <3>2
  <2> QED
    BY <2>1, <2>2, <2>3 DEF HandsKnown
<1>4. \A ref : Old(ref)' <=> Old(ref)
  BY DEF Old
<1>5. \A p : AllOld(p)' <=> AllOld(p)
  BY DEF AllOld, Old
<1>6. PaymentsOld'
  <2>1. \A ref \in SpentLate' : Old(ref)'
    BY <1>1, <1>2, <1>4 DEF PaymentsOld
  <2>2. \A g \in granted' : AllOld(g.coins)'
    BY <1>1, <1>5 DEF PaymentsOld
  <2>3. ASSUME NEW t \in Tasks PROVE AllOld(task[t].payment)'
    <3>1. AllOld(task'[t].payment)
      <4>1. \A i \in DOMAIN << >> : Old(<< >>[i])
        OBVIOUS
      <4> QED
        BY <1>1, <4>1 DEF PaymentsOld, AllOld
    <3> QED
      BY <3>1 DEF AllOld, Old
  <2>4. \A p \in sent' : AllOld(p)'
    BY <1>1, <1>5 DEF PaymentsOld
  <2> QED
    BY <2>1, <2>2, <2>3, <2>4 DEF PaymentsOld
<1>7. BalancesRead'
  <2> SUFFICES ASSUME NEW t \in Tasks, task'[t].pc = "execute", Payable(task[t].payment)'
               PROVE  task'[t].before =
                        TotalBalance({c \in ledger : c.id \in PaidIds(task'[t].payment)})
    BY DEF BalancesRead, LiveOf, PaidIds
  <2>1. CASE task'[t] = task[t]
    <3>1. Payable(task[t].payment)
      BY <2>1 DEF Payable
    <3> QED
      BY <1>1, <2>1, <3>1 DEF BalancesRead, LiveOf
  <2>2. CASE task'[t] # task[t]
    BY <1>1, <2>2
  <2> QED
    BY <2>1, <2>2
<1> QED
  BY <1>1, <1>3, <1>6, <1>7

LEMMA ReleaseKeepsListKnown ==
  ASSUME PoolTyped, NEW coins \in Seq(Coin), AllKnown(available), AllKnown(coins),
         AddNewCoins(coins)
  PROVE  \A i \in DOMAIN available' :
           available'[i] \in ledger \/ RefOf(available'[i]) \in SpentLate
<1>1. available' = available \o coins /\ available \in Seq(Coin)
  BY DEF AddNewCoins, PushCoins, PoolTyped
<1>2. ASSUME NEW i \in DOMAIN available'
      PROVE  available'[i] \in ledger \/ RefOf(available'[i]) \in SpentLate
  <2>1. CASE i \in DOMAIN available
    BY <1>1, <2>1 DEF AllKnown
  <2>2. CASE i \notin DOMAIN available
    <3>1. i - Len(available) \in DOMAIN coins
      BY <1>1, <1>2, <2>2
    <3>2. available'[i] = coins[i - Len(available)]
      BY <1>1, <1>2, <2>2
    <3> QED
      BY <3>1, <3>2 DEF AllKnown
  <2> QED
    BY <2>1, <2>2
<1> QED
  BY <1>2

LEMMA QueriesKeepSpendable ==
  ASSUME TInv, SpendableInv, NEW t \in Tasks, QueryTotalBalance(t) \/ QueryLatest(t)
  PROVE  SpendableInv'
<1>0. task \in [Tasks -> [pc : TaskPCs, payment : Seq(ObjectRef),
                          before : Nat, updated : Seq(Coin)]]
  BY DEF TInv, Typed, TasksTyped
<1>1. UNCHANGED <<available, unlocker, ledger, lagged, late, fullnode, granted, sent>>
  BY DEF QueryTotalBalance, QueryLatest, registryVars, poolVars, chainVars
<1>2. ~lagged => \A i \in DOMAIN available' :
        available'[i] \in ledger \/ RefOf(available'[i]) \in SpentLate
  BY <1>1 DEF SpendableInv, HandsKnown, AllKnown
<1>3. CASE QueryTotalBalance(t)
  <2>1. /\ task'[t].pc = "execute" /\ task'[t].payment = task[t].payment
        /\ task'[t].before = TotalBalance(LatestGasObjects(PaymentIds(t)))
        /\ \A u \in Tasks \ {t} : task'[u] = task[u]
    BY <1>0, <1>3 DEF QueryTotalBalance
  <2>2. ~lagged =>
          task'[t].before = TotalBalance({c \in ledger : c.id \in PaidIds(task'[t].payment)})
    <3>1. ~lagged => LatestGasObjects(PaymentIds(t)) = LiveOf(PaymentIds(t))
      BY LatestAreLive DEF TInv, Typed, SpendableInv
    <3>2. LiveOf(PaymentIds(t)) = {c \in ledger : c.id \in PaidIds(task'[t].payment)}
      BY <2>1 DEF LiveOf, PaymentIds, PaidIds
    <3> QED
      BY <2>1, <3>1, <3>2
  <2> QED
    BY <1>1, <1>2, <2>1, <2>2, QuietStepsKeepSpendable
<1>4. CASE QueryLatest(t)
  <2>1. PICK coins \in SetToSeqs(LatestGasObjects(PaymentIds(t))) :
          task' = [task EXCEPT ![t].pc = "release", ![t].updated = coins]
    BY <1>4 DEF QueryLatest
  <2>2. /\ task'[t].pc = "release" /\ task'[t].updated = coins
        /\ task'[t].payment = task[t].payment
        /\ \A u \in Tasks \ {t} : task'[u] = task[u]
    BY <1>0, <2>1
  <2>3. ~lagged => \A i \in DOMAIN coins : coins[i] \in ledger
    BY LatestAreLive DEF TInv, Typed, SpendableInv
  <2> QED
    BY <1>1, <1>2, <2>2, <2>3, QuietStepsKeepSpendable
<1> QED
  BY <1>3, <1>4

LEMMA ExecuteOkKeepsSpendable ==
  ASSUME TInv, CInv, SpendableInv, BalancesFit', NEW t \in Tasks, ExecuteOk(t)
  PROVE  SpendableInv'
<1> SUFFICES ASSUME ~lagged'
             PROVE  fullnode' = ledger' /\ HandsKnown' /\ PaymentsOld' /\ BalancesRead'
  BY DEF SpendableInv
<1>0. /\ task \in [Tasks -> [pc : TaskPCs, payment : Seq(ObjectRef),
                             before : Nat, updated : Seq(Coin)]]
      /\ TasksTyped /\ ChainTyped /\ ChainIsUnique
  BY DEF TInv, Typed, TasksTyped, CInv
<1>1. PICK gas \in NetGas :
        /\ Commit(task[t].payment, gas)
        /\ task' = [task EXCEPT ![t].pc = "release",
                                ![t].updated = <<UpdatedCoin(t, gas)>>]
  BY DEF ExecuteOk
<1>2. /\ UNCHANGED <<available, unlocker, granted, sent, late>>
      /\ task[t].pc = "execute"
      /\ task'[t].pc = "release" /\ task'[t].updated = <<UpdatedCoin(t, gas)>>
      /\ \A u \in Tasks \ {t} : task'[u] = task[u]
      /\ \A u \in Tasks : task'[u].payment = task[u].payment
  BY <1>0, <1>1 DEF ExecuteOk, registryVars, poolVars
<1>3. PICK payment \in Payments : payment = task[t].payment
  BY <1>0, <1>2, TasksPay
<1>4. Commit(payment, gas) /\ PaidIds(payment) = PaymentIds(t)
  BY <1>1, <1>3 DEF PaidIds, PaymentIds
<1>5. ~lagged /\ fullnode' = ledger'
  BY <1>4 DEF Commit, FullnodeFollows
<1>6. HandsKnown /\ PaymentsOld /\ BalancesRead
  BY <1>5 DEF SpendableInv
<1>7. SpentLate' = SpentLate
  BY <1>2 DEF SpentLate
<1>8. ASSUME NEW coins, AllKnown(coins), ToSet(IdsOf(coins)) \cap PaymentIds(t) = {}
      PROVE  \A i \in DOMAIN coins :
               coins[i] \in ledger' \/ RefOf(coins[i]) \in SpentLate'
  BY <1>0, <1>4, <1>7, <1>8, CommitKeepsKnown
<1>9. HandsKnown'
  <2>1. AllKnown(available)'
    <3>1. AllKnown(available) /\ ToSet(IdsOf(available)) \cap PaymentIds(t) = {}
      BY <1>6, OthersHoldOtherCoins DEF HandsKnown
    <3>2. \A i \in DOMAIN available :
            available[i] \in ledger' \/ RefOf(available[i]) \in SpentLate'
      BY <1>8, <3>1
    <3> QED
      BY <1>2, <3>2 DEF AllKnown
  <2>2. ASSUME NEW u \in Tasks \ {t}, task'[u].pc = "release"
        PROVE  AllKnown(task[u].updated)'
    <3>1. task'[u] = task[u] /\ task[u].pc = "release"
      BY <1>2, <2>2
    <3>2. /\ AllKnown(task[u].updated)
          /\ ToSet(IdsOf(task[u].updated)) \cap PaymentIds(t) = {}
      BY <1>6, <3>1, OthersHoldOtherCoins DEF HandsKnown
    <3>3. \A i \in DOMAIN task[u].updated :
            task[u].updated[i] \in ledger' \/ RefOf(task[u].updated[i]) \in SpentLate'
      BY <1>8, <3>2
    <3> QED
      BY <3>1, <3>3 DEF AllKnown
  <2>3. AllKnown(task[t].updated)'
    <3>1. UpdatedCoin(t, gas) \in ledger'
      BY <1>1, <1>2, <1>5, UpdatedCoinIsLive
    <3> QED
      BY <1>2, <3>1 DEF AllKnown
  <2>4. ASSUME NEW s \in Stations, unlocker'[s].pc = "release"
        PROVE  AllKnown(unlocker[s].updated)'
    <3>1. unlocker'[s] = unlocker[s] /\ unlocker[s].pc = "release"
      BY <1>2, <2>4
    <3>2. /\ AllKnown(unlocker[s].updated)
          /\ ToSet(IdsOf(unlocker[s].updated)) \cap PaymentIds(t) = {}
      BY <1>6, <3>1, OthersHoldOtherCoins DEF HandsKnown
    <3>3. \A i \in DOMAIN unlocker[s].updated :
            unlocker[s].updated[i] \in ledger' \/ RefOf(unlocker[s].updated[i]) \in SpentLate'
      BY <1>8, <3>2
    <3> QED
      BY <3>1, <3>3 DEF AllKnown
  <2> QED
    BY <2>1, <2>2, <2>3, <2>4 DEF HandsKnown
<1>10. PaymentsOld'
  BY <1>2, <1>4, <1>6, <1>7, CommitKeepsPayments DEF PaymentsOld, AllOld, Old
<1>11. BalancesRead'
  <2> SUFFICES ASSUME NEW u \in Tasks, task'[u].pc = "execute", Payable(task[u].payment)'
               PROVE  task'[u].before =
                        TotalBalance({c \in ledger' : c.id \in PaidIds(task'[u].payment)})
    BY DEF BalancesRead, LiveOf, PaidIds
  <2>1. task'[u] = task[u]
    BY <1>2
  <2>2. PICK other \in Seq(ObjectRef) : other = task[u].payment
    BY <1>0
  <2>3. AllOld(other) /\ Payable(other)'
    BY <1>6, <2>1, <2>2 DEF PaymentsOld, Payable
  <2>4. Payable(other) => task[u].before = TotalBalance(LiveOf(PaidIds(other)))
    BY <1>6, <2>1, <2>2 DEF BalancesRead
  <2>5. task[u].before = TotalBalance({c \in ledger' : c.id \in PaidIds(other)})
    BY <1>0, <1>4, <2>3, <2>4, CommitKeepsBalance
  <2> QED
    BY <2>1, <2>2, <2>5
<1> QED
  BY <1>5, <1>9, <1>10, <1>11

LEMMA TaskStepKeepsSpendable ==
  ASSUME TInv, CInv, SpendableInv, BalancesFit', NEW t \in Tasks, TaskStep(t),
         lostReplies = 0, lostReplies' = 0
  PROVE  SpendableInv'
<1>0. task \in [Tasks -> [pc : TaskPCs, payment : Seq(ObjectRef),
                          before : Nat, updated : Seq(Coin)]]
  BY DEF TInv, Typed, TasksTyped
<1>1. CASE ExecuteErr(t)
  <2>1. /\ UNCHANGED <<available, unlocker, ledger, lagged, late, fullnode, granted>>
        /\ task'[t].pc = "latest" /\ task'[t].payment = task[t].payment
        /\ \A u \in Tasks \ {t} : task'[u] = task[u]
    BY <1>0, <1>1 DEF ExecuteErr, registryVars, poolVars
  <2>2. \A p \in sent' : p \in sent \/ \E u \in Tasks : p = task[u].payment
    BY <1>1 DEF ExecuteErr
  <2>3. ~lagged => \A i \in DOMAIN available' :
          available'[i] \in ledger \/ RefOf(available'[i]) \in SpentLate
    BY <2>1 DEF SpendableInv, HandsKnown, AllKnown
  <2> QED
    BY <2>1, <2>2, <2>3, QuietStepsKeepSpendable
<1>2. CASE TriggerRescan(t) \/ ReleaseCoins(t)
  <2>1. task' = [task EXCEPT ![t] = IdleTask]
    BY <1>2, AdditionsSucceed
       DEF TriggerRescan, ReleaseCoins, ReplyIsLost, AddNewCoinsFailed, TInv, Typed
  <2>2. /\ task'[t].pc = "idle" /\ task'[t].payment = << >>
        /\ \A u \in Tasks \ {t} : task'[u] = task[u]
    BY <1>0, <2>1 DEF IdleTask
  <2>3. /\ UNCHANGED <<unlocker, ledger, lagged, late, fullnode, granted, sent>>
        /\ task[t].pc = "release"
    BY <1>2 DEF TriggerRescan, ReleaseCoins, chainVars
  <2>4. ~lagged => \A i \in DOMAIN available' :
          available'[i] \in ledger \/ RefOf(available'[i]) \in SpentLate
    <3>1. CASE TriggerRescan(t)
      BY <3>1 DEF TriggerRescan, registryVars, poolVars, SpendableInv, HandsKnown, AllKnown
    <3>2. CASE ReleaseCoins(t)
      <4>1. AddNewCoins(task[t].updated) /\ task[t].updated \in Seq(Coin)
        BY <1>0, <3>2, AdditionsSucceed DEF ReleaseCoins, AddNewCoinsFailed, TInv, Typed
      <4>2. ~lagged => AllKnown(available) /\ AllKnown(task[t].updated)
        BY <2>3 DEF SpendableInv, HandsKnown
      <4> QED
        BY <4>1, <4>2, ReleaseKeepsListKnown DEF TInv, Typed
    <3> QED
      BY <1>2, <3>1, <3>2
  <2> QED
    BY <2>2, <2>3, <2>4, QuietStepsKeepSpendable
<1> QED
  BY <1>1, <1>2, QueriesKeepSpendable, ExecuteOkKeepsSpendable DEF TaskStep

LEMMA UnlockStepKeepsSpendable ==
  ASSUME TInv, SpendableInv, NEW s \in Stations, UnlockStep(s),
         lostReplies = 0, lostReplies' = 0
  PROVE  SpendableInv'
<1>0. unlocker \in [Stations -> [pc : UnlockerPCs, batch : SUBSET CoinIds,
                                 updated : Seq(Coin)]]
  BY DEF TInv, Typed, UnlockersTyped
<1>1. UNCHANGED <<task, ledger, lagged, late, fullnode, granted, sent>>
  BY DEF UnlockStep, UnlockExpire, UnlockQuery, UnlockRelease, chainVars
<1>2. CASE UnlockExpire(s)
  <2>1. /\ UNCHANGED available
        /\ \A u \in Stations :
             unlocker'[u] = unlocker[u] \/ unlocker'[u].pc = "latest"
    BY <1>0, <1>2 DEF UnlockExpire, ExpireCoins, poolVars
  <2>2. ~lagged => \A i \in DOMAIN available' :
          available'[i] \in ledger \/ RefOf(available'[i]) \in SpentLate
    BY <2>1 DEF SpendableInv, HandsKnown, AllKnown
  <2> QED
    BY <1>1, <2>1, <2>2, QuietStepsKeepSpendable
<1>3. CASE UnlockQuery(s)
  <2>1. PICK coins \in SetToSeqs(LatestGasObjects(unlocker[s].batch)) :
          unlocker' = [unlocker EXCEPT ![s].pc = "release", ![s].updated = coins]
    BY <1>3 DEF UnlockQuery
  <2>2. /\ UNCHANGED available
        /\ unlocker'[s].updated = coins
        /\ \A u \in Stations \ {s} : unlocker'[u] = unlocker[u]
    BY <1>0, <1>3, <2>1 DEF UnlockQuery, registryVars, poolVars
  <2>3. ~lagged => \A i \in DOMAIN coins : coins[i] \in ledger
    BY LatestAreLive DEF TInv, Typed, SpendableInv
  <2>4. ~lagged => \A i \in DOMAIN available' :
          available'[i] \in ledger \/ RefOf(available'[i]) \in SpentLate
    BY <2>2 DEF SpendableInv, HandsKnown, AllKnown
  <2> QED
    BY <1>1, <2>2, <2>3, <2>4, QuietStepsKeepSpendable
<1>4. CASE UnlockRelease(s)
  <2>1. /\ AddNewCoins(unlocker[s].updated) /\ unlocker[s].updated \in Seq(Coin)
        /\ unlocker' = [unlocker EXCEPT ![s] = IdleUnlocker]
        /\ unlocker[s].pc = "release"
    BY <1>0, <1>4, AdditionsSucceed
       DEF UnlockRelease, AddNewCoinsFailed, ReplyIsLost, TInv, Typed
  <2>2. /\ unlocker'[s].pc = "idle"
        /\ \A u \in Stations \ {s} : unlocker'[u] = unlocker[u]
    BY <1>0, <2>1 DEF IdleUnlocker
  <2>3. ~lagged => AllKnown(available) /\ AllKnown(unlocker[s].updated)
    BY <2>1 DEF SpendableInv, HandsKnown
  <2>4. ~lagged => \A i \in DOMAIN available' :
          available'[i] \in ledger \/ RefOf(available'[i]) \in SpentLate
    BY <2>1, <2>3, ReleaseKeepsListKnown DEF TInv, Typed
  <2> QED
    BY <1>1, <2>2, <2>4, QuietStepsKeepSpendable
<1> QED
  BY <1>2, <1>3, <1>4 DEF UnlockStep

(* A client is granted coins of the list, whose versions have been seen. *)
LEMMA ReserveKeepsSpendable ==
  ASSUME TInv, CInv, SpendableInv, NEW b \in Nat \ {0}, NEW d, Reserve(b, d),
         \/ UNCHANGED granted
         \/ granted' = granted \cup
              {[reservation |-> NewReservationId,
                coins |-> [i \in 1 .. PoppedCoins(b) |-> RefOf(available[i])]]}
  PROVE  SpendableInv'
<1>1. UNCHANGED <<task, unlocker, ledger, lagged, late, fullnode, sent>>
  BY DEF Reserve, chainVars, processVars
<1>2. PICK n \in 1 .. Len(available), taken \in Seq(Coin) :
        /\ n = PoppedCoins(b)
        /\ Len(taken) = n
        /\ available = taken \o available'
        /\ available' \in Seq(Coin)
  BY GrantTakesTheFront DEF Reserve, TInv, Typed
<1>3. ~lagged => \A i \in DOMAIN available' :
        available'[i] \in ledger \/ RefOf(available'[i]) \in SpentLate
  <2>1. ASSUME NEW i \in DOMAIN available'
        PROVE  \E j \in DOMAIN available : available'[i] = available[j]
    <3>1. n + i \in DOMAIN available /\ available[n + i] = available'[i]
      BY <1>2, <2>1
    <3> QED
      BY <3>1
  <2> QED
    BY <2>1 DEF SpendableInv, HandsKnown, AllKnown
<1>4. ASSUME ~lagged, NEW i \in DOMAIN available PROVE Old(RefOf(available[i]))
  <2>1. available[i] \in ledger \/ RefOf(available[i]) \in SpentLate
    BY <1>4 DEF SpendableInv, HandsKnown, AllKnown
  <2>2. CASE RefOf(available[i]) \in SpentLate
    BY <1>4, <2>2 DEF SpendableInv, PaymentsOld
  <2>3. CASE available[i] \in ledger
    <3>1. PICK c \in ledger : c = available[i]
      BY <2>3
    <3>2. \A e \in ledger : e.id = c.id => e = c
      BY DEF CInv, ChainIsUnique
    <3>3. c.version \in Nat
      BY DEF TInv, Typed, ChainTyped, Coin
    <3> QED
      BY <3>1, <3>2, <3>3 DEF Old, RefOf
  <2> QED
    BY <2>1, <2>2, <2>3
<1>5. ~lagged => \A g \in granted' : g \in granted \/ AllOld(g.coins)
  <2> SUFFICES ASSUME ~lagged, NEW g \in granted', g \notin granted
               PROVE  AllOld(g.coins)
    OBVIOUS
  <2>1. g.coins = [i \in 1 .. n |-> RefOf(available[i])]
    BY <1>2
  <2>2. 1 .. n \subseteq DOMAIN available
    BY DEF TInv, Typed, PoolTyped
  <2>3. \A i \in 1 .. n : Old(RefOf(available[i]))
    BY <1>4, <2>2
  <2>4. DOMAIN g.coins = 1 .. n /\ \A i \in 1 .. n : g.coins[i] = RefOf(available[i])
    BY <2>1
  <2> QED
    BY <2>3, <2>4 DEF AllOld
<1> QED
  BY <1>1, <1>3, <1>5, QuietStepsKeepSpendable

(* A late commit spends what nobody has asked for again, and that is
   remembered, or what one task still holds. *)
LEMMA LateCommitKeepsSpendable ==
  ASSUME TInv, CInv, SpendableInv, NEW payment \in sent, NEW gas \in NetGas,
         LateCommit(payment, gas)
  PROVE  SpendableInv'
<1> SUFFICES ASSUME ~lagged'
             PROVE  fullnode' = ledger' /\ HandsKnown' /\ PaymentsOld' /\ BalancesRead'
  BY DEF SpendableInv
<1>0. /\ task \in [Tasks -> [pc : TaskPCs, payment : Seq(ObjectRef),
                             before : Nat, updated : Seq(Coin)]]
      /\ TasksTyped /\ ChainTyped /\ ChainIsUnique /\ payment \in Payments
  BY DEF TInv, Typed, TasksTyped, ChainTyped, CInv
<1>1. /\ UNCHANGED <<available, unlocker, task, granted>>
      /\ Commit(payment, gas)
      /\ sent' \subseteq sent
  BY DEF LateCommit, registryVars, poolVars, processVars
<1>2. ~lagged /\ fullnode' = ledger'
  BY <1>1 DEF Commit, FullnodeFollows
<1>3. HandsKnown /\ PaymentsOld /\ BalancesRead
  BY <1>2 DEF SpendableInv
<1>4. /\ SpentLate \subseteq SpentLate' /\ SpentLate' \subseteq SpentLate \cup ToSet(payment)
      /\ ~WillLook(payment) => ToSet(payment) \subseteq SpentLate'
  <2>1. CASE WillLook(payment)
    BY <2>1 DEF LateCommit, SpentLate
  <2>2. CASE ~WillLook(payment)
    <3> DEFINE new == [paid |-> ToSet(payment), left |-> GasCoin(payment, gas)]
    <3>1. late' = late \cup {new}
      BY <2>2 DEF LateCommit
    <3>2. new.paid = ToSet(payment)
      OBVIOUS
    <3> HIDE DEF new
    <3> QED
      BY <2>2, <3>1, <3>2 DEF SpentLate
  <2> QED
    BY <2>1, <2>2
<1>5. ASSUME NEW coins, AllKnown(coins),
             \A t \in Tasks : task[t].payment = payment /\ task[t].pc # "release"
               => ToSet(IdsOf(coins)) \cap PaymentIds(t) = {}
      PROVE  \A i \in DOMAIN coins :
               coins[i] \in ledger' \/ RefOf(coins[i]) \in SpentLate'
  <2>1. CASE WillLook(payment)
    <3>1. PICK t \in Tasks : task[t].payment = payment /\ task[t].pc # "release"
      BY <2>1 DEF WillLook
    <3>2. PaidIds(payment) = PaymentIds(t)
      BY <3>1 DEF PaidIds, PaymentIds
    <3>3. ToSet(IdsOf(coins)) \cap PaidIds(payment) = {}
      BY <1>5, <3>1, <3>2
    <3> QED
      BY <1>0, <1>1, <1>4, <1>5, <3>3, CommitKeepsKnown
  <2>2. CASE ~WillLook(payment)
    BY <1>0, <1>1, <1>4, <1>5, <2>2, CommitKeepsKnown
  <2> QED
    BY <2>1, <2>2
<1>6. HandsKnown'
  <2>1. AllKnown(available)'
    <3>1. /\ AllKnown(available)
          /\ \A t \in Tasks : ToSet(IdsOf(available)) \cap PaymentIds(t) = {}
      BY <1>3, OthersHoldOtherCoins DEF HandsKnown
    <3>2. \A i \in DOMAIN available :
            available[i] \in ledger' \/ RefOf(available[i]) \in SpentLate'
      BY <1>5, <3>1
    <3> QED
      BY <1>1, <3>2 DEF AllKnown
  <2>2. ASSUME NEW u \in Tasks, task'[u].pc = "release"
        PROVE  AllKnown(task[u].updated)'
    <3>1. task'[u] = task[u] /\ task[u].pc = "release"
      BY <1>1, <2>2
    <3>2. AllKnown(task[u].updated)
      BY <1>3, <3>1 DEF HandsKnown
    <3>3. \A t \in Tasks : task[t].payment = payment /\ task[t].pc # "release"
            => ToSet(IdsOf(task[u].updated)) \cap PaymentIds(t) = {}
      BY <3>1, OthersHoldOtherCoins
    <3>4. \A i \in DOMAIN task[u].updated :
            task[u].updated[i] \in ledger' \/ RefOf(task[u].updated[i]) \in SpentLate'
      BY <1>5, <3>2, <3>3
    <3> QED
      BY <3>1, <3>4 DEF AllKnown
  <2>3. ASSUME NEW s \in Stations, unlocker'[s].pc = "release"
        PROVE  AllKnown(unlocker[s].updated)'
    <3>1. unlocker'[s] = unlocker[s] /\ unlocker[s].pc = "release"
      BY <1>1, <2>3
    <3>2. /\ AllKnown(unlocker[s].updated)
          /\ \A t \in Tasks : ToSet(IdsOf(unlocker[s].updated)) \cap PaymentIds(t) = {}
      BY <1>3, <3>1, OthersHoldOtherCoins DEF HandsKnown
    <3>3. \A i \in DOMAIN unlocker[s].updated :
            unlocker[s].updated[i] \in ledger' \/ RefOf(unlocker[s].updated[i]) \in SpentLate'
      BY <1>5, <3>2
    <3> QED
      BY <3>1, <3>3 DEF AllKnown
  <2> QED
    BY <2>1, <2>2, <2>3 DEF HandsKnown
<1>7. PaymentsOld'
  <2>1. /\ \A ref \in SpentLate : Old(ref)'
        /\ \A g \in granted : AllOld(g.coins)'
        /\ \A t \in Tasks : \A i \in DOMAIN task[t].payment :
             \A c \in ledger' : c.id = task[t].payment[i].id =>
               task[t].payment[i].version <= c.version
        /\ \A p \in sent : AllOld(p)'
    BY <1>0, <1>1, <1>3, CommitKeepsPayments
  <2>2. \A ref \in ToSet(payment) : Old(ref)'
    BY <2>1 DEF AllOld, ToSet, Old
  <2>3. \A ref \in SpentLate' : Old(ref)'
    BY <1>4, <2>1, <2>2
  <2>4. \A t \in Tasks : AllOld(task[t].payment)'
    BY <1>1, <2>1 DEF AllOld, Old
  <2> QED
    BY <1>1, <2>1, <2>3, <2>4 DEF PaymentsOld
<1>8. BalancesRead'
  <2> SUFFICES ASSUME NEW u \in Tasks, task'[u].pc = "execute", Payable(task[u].payment)'
               PROVE  task'[u].before =
                        TotalBalance({c \in ledger' : c.id \in PaidIds(task'[u].payment)})
    BY DEF BalancesRead, LiveOf, PaidIds
  <2>1. task'[u] = task[u]
    BY <1>1
  <2>2. PICK other \in Seq(ObjectRef) : other = task[u].payment
    BY <1>0
  <2>3. AllOld(other) /\ Payable(other)'
    BY <1>3, <2>1, <2>2 DEF PaymentsOld, Payable
  <2>4. Payable(other) => task[u].before = TotalBalance(LiveOf(PaidIds(other)))
    BY <1>3, <2>1, <2>2 DEF BalancesRead
  <2>5. task[u].before = TotalBalance({c \in ledger' : c.id \in PaidIds(other)})
    BY <1>0, <1>1, <2>3, <2>4, CommitKeepsBalance
  <2> QED
    BY <2>1, <2>2, <2>5
<1> QED
  BY <1>2, <1>6, <1>7, <1>8

LEMMA StepsKeepSpendable ==
  ASSUME TInv, CInv, SpendableInv, BalancesFit', [Next]_vars,
         lostReplies = 0, lostReplies' = 0
  PROVE  SpendableInv'
<1>0. /\ task \in [Tasks -> [pc : TaskPCs, payment : Seq(ObjectRef),
                             before : Nat, updated : Seq(Coin)]]
      /\ unlocker \in [Stations -> [pc : UnlockerPCs, batch : SUBSET CoinIds,
                                    updated : Seq(Coin)]]
  BY DEF TInv, Typed, TasksTyped, UnlockersTyped
<1>1. ~lagged => \A i \in DOMAIN available :
        available[i] \in ledger \/ RefOf(available[i]) \in SpentLate
  BY DEF SpendableInv, HandsKnown, AllKnown
<1>2. ASSUME NEW b \in Budgets, NEW d \in Durations, ReserveGas(b, d)
      PROVE  SpendableInv'
  <2>1. b \in Nat \ {0}
    BY <1>2, GasStationAssumption DEF ReserveGas, ValidRequest
  <2> QED
    BY <1>2, <2>1, ReserveKeepsSpendable DEF ReserveGas
<1>3. CASE DebugCheckHealth
  <2>1. HealthBudget \in Nat \ {0}
    BY GasStationAssumption
  <2> QED
    BY <1>3, <2>1, ReserveKeepsSpendable DEF DebugCheckHealth
<1>4. ASSUME NEW t \in Tasks, NEW g \in granted, StartExecution(t, g)
      PROVE  SpendableInv'
  <2>1. UNCHANGED <<available, unlocker, ledger, lagged, late, fullnode, granted, sent>>
    BY <1>4 DEF StartExecution, ReadyForExecution, poolVars, chainVars
  <2>2. \/ UNCHANGED task
        \/ task' = [task EXCEPT ![t].pc = "query", ![t].payment = g.coins]
    BY <1>4 DEF StartExecution
  <2>3. \A u \in Tasks :
          /\ task'[u] = task[u] \/ task'[u].pc = "query"
          /\ task'[u].payment = task[u].payment \/ task'[u].payment = g.coins
    BY <1>0, <2>2
  <2> QED
    BY <1>1, <2>1, <2>3, QuietStepsKeepSpendable
<1>5. ASSUME NEW t \in Tasks, TaskStep(t) PROVE SpendableInv'
  BY <1>5, TaskStepKeepsSpendable
<1>6. ASSUME NEW s \in Stations, UnlockStep(s) PROVE SpendableInv'
  BY <1>6, UnlockStepKeepsSpendable
<1>7. ASSUME NEW s \in Stations, Crash(s) PROVE SpendableInv'
  <2>1. /\ UNCHANGED <<available, ledger, lagged, late, fullnode, granted>>
        /\ \A u \in Tasks : task'[u] = task[u] \/ task'[u] = IdleTask
        /\ \A u \in Stations : unlocker'[u] = unlocker[u] \/ unlocker'[u] = IdleUnlocker
    BY <1>0, <1>7 DEF Crash, registryVars, poolVars
  <2>2. /\ IdleTask.pc = "idle" /\ IdleTask.payment = << >>
        /\ IdleUnlocker.pc = "idle"
    BY DEF IdleTask, IdleUnlocker
  <2>3. /\ \A u \in Tasks :
             /\ task'[u] = task[u] \/ task'[u].pc \notin {"release", "execute"}
             /\ task'[u].payment \in {task[u].payment, << >>}
        /\ \A u \in Stations : unlocker'[u] = unlocker[u] \/ unlocker'[u].pc # "release"
    BY <2>1, <2>2
  <2>4. \A p \in sent' : p \in sent \/ \E u \in Tasks : p = task[u].payment
    BY <1>7 DEF Crash, Executing
  <2> QED
    BY <1>1, <2>1, <2>3, <2>4, QuietStepsKeepSpendable
<1>8. ASSUME NEW s \in Stations, Restart(s) PROVE SpendableInv'
  BY <1>1, <1>8, QuietStepsKeepSpendable DEF Restart, InitCoinStats, chainVars
<1>9. CASE FullnodeSyncs
  BY <1>1, <1>9, QuietStepsKeepSpendable
     DEF FullnodeSyncs, registryVars, poolVars, processVars
<1>10. CASE TimePasses \/ UNCHANGED vars
  BY <1>1, <1>10, QuietStepsKeepSpendable
     DEF TimePasses, Tick, vars, registryVars, poolVars, chainVars, processVars
<1>11. ASSUME NEW payment \in sent, NEW gas \in NetGas, LateCommit(payment, gas)
       PROVE  SpendableInv'
  BY <1>11, LateCommitKeepsSpendable
<1> QED
  BY <1>2, <1>3, <1>4, <1>5, <1>6, <1>7, <1>8, <1>9, <1>10, <1>11 DEF Next

LEMMA InitialPoolIsLive == Init => SpendableInv
<1>1. SUFFICES ASSUME Init PROVE fullnode = ledger /\ HandsKnown /\ PaymentsOld /\ BalancesRead
  BY DEF SpendableInv
<1>2. /\ fullnode = ledger /\ ledger = ToSet(available)
      /\ task = [t \in Tasks |-> IdleTask]
      /\ unlocker = [s \in Stations |-> IdleUnlocker]
      /\ granted = {} /\ sent = {} /\ late = {}
  BY <1>1 DEF Init
<1>3. HandsKnown
  BY <1>2 DEF HandsKnown, AllKnown, ToSet, IdleTask, IdleUnlocker
<1>4. PaymentsOld
  BY <1>2 DEF PaymentsOld, SpentLate, AllOld, IdleTask
<1>5. BalancesRead
  BY <1>2 DEF BalancesRead, IdleTask
<1> QED
  BY <1>2, <1>3, <1>4, <1>5

(* Whatever the interleaving of requests, transactions, expiries, failures,
   crashes and commits of transactions that went unanswered, what the list says
   of a coin is what the ledger says, as long as the fullnode has not lagged and
   no reply of Redis has been lost: the balance that execute_transaction derives
   from an earlier read (gas_station_core.rs:159-189) is then the one its
   transaction left.  Versions that a late commit has spent are excepted; that
   they are the only ones needs that versions grow, so that no other task pays
   with them.  That no balance passes a u64 is a fact of the chain, and an
   assumption here. *)
THEOREM PoolStaysSpendable ==
  Spec /\ []BalancesFit => [](lostReplies = 0 => PoolIsSpendable)
<1> DEFINE PoolInv == IInv /\ (lostReplies = 0 => SpendableInv)
<1>1. Init => PoolInv
  BY InitIsTyped, InitialCustody, InitialPoolIsLive DEF IInv
<1>2. PoolInv /\ [Next]_vars /\ BalancesFit' => PoolInv'
  BY StepsAreTyped, RepliesStayLost, StepsKeepCustody, StepsKeepSpendable DEF IInv
<1>3. PoolInv => (lostReplies = 0 => PoolIsSpendable)
  BY DEF SpendableInv, HandsKnown, AllKnown, PoolIsSpendable
<1> HIDE DEF PoolInv
<1> QED
  BY <1>1, <1>2, <1>3, PTL DEF Spec

-----------------------------------------------------------------------------
(* Where the coins are. *)
IsSmall(id) == \A c \in ledger : c.id = id => ~Oversized(c)

HasOneCoin(t) == \A c, d \in LiveOf(PaymentIds(t)) : c = d

Spent(payment) == \A i \in DOMAIN payment : \A c \in ledger : payment[i] # RefOf(c)

(* Only a task whose coins a transaction may have merged has a large one: its
   own, or one that went unanswered when another task paid with the same. *)
MayHoldALargeCoin(h) ==
  \E t \in Tasks :
    /\ h = <<"task", t>>
    /\ HasOneCoin(t)
    /\ task[t].pc \in {"latest", "release"} \/ Spent(task[t].payment)

(* All that is live of ids is among the coins, in an earlier state at most if
   it is small. *)
Releases(ids, coins) ==
  /\ \A c \in LiveOf(ids) : \E i \in DOMAIN coins :
       coins[i].id = c.id /\ (Oversized(c) => coins[i] = c)
  /\ \A i \in DOMAIN coins : Oversized(coins[i]) => coins[i] \in ledger

Kept(c) ==
  \/ \E h \in Holders : c.id \in CoinsOf(h)
  \/ Oversized(c) /\ \E s \in Stations : rescanQueue[s] > 0

AllKept == \A c \in ledger : Kept(c)

SmallCoinsHeld ==
  \A h \in Holders : \A id \in CoinsOf(h) : IsSmall(id) \/ MayHoldALargeCoin(h)

WholeReleases ==
  /\ \A t \in Tasks : task[t].pc = "release" =>
       Releases(PaymentIds(t), task[t].updated)
  /\ \A s \in Stations : unlocker[s].pc = "release" =>
       Releases(unlocker[s].batch, unlocker[s].updated)

SentAreSmall ==
  \A p \in sent : \A i \in DOMAIN p : \A c \in ledger :
    p[i] = RefOf(c) => ~Oversized(c)

(* NoCoinIsLost is not inductive: what is given back must be all that is live of
   what was held, and an oversized coin must be the only one, as none of the
   coins is released with it. *)
KeepInv ==
  crashes = 0 /\ ~lagged /\ ~RebatedLate =>
    AllKept /\ SmallCoinsHeld /\ WholeReleases /\ SentAreSmall

(* A step that leaves the ledger alone and moves coins between the holders in
   touched, at most. *)
LEMMA CoinsStayKept ==
  ASSUME AllKept, SmallCoinsHeld, UNCHANGED ledger,
         \A s \in Stations : rescanQueue[s] > 0 => rescanQueue'[s] > 0,
         NEW touched,
         \A h : h \notin touched => \A id : Owns(h, id)' <=> Owns(h, id),
         \A h : h \notin touched /\ MayHoldALargeCoin(h) => MayHoldALargeCoin(h)',
         \A h \in touched : \A c \in ledger : Owns(h, c.id) =>
           \/ \E g : Owns(g, c.id)'
           \/ Oversized(c) /\ \E s \in Stations : rescanQueue'[s] > 0,
         \A h \in touched : \A id : Owns(h, id)' => IsSmall(id) \/ MayHoldALargeCoin(h)'
  PROVE  AllKept' /\ SmallCoinsHeld'
<1>1. ASSUME NEW c \in ledger PROVE Kept(c)'
  <2>1. CASE Oversized(c) /\ \E s \in Stations : rescanQueue[s] > 0
    BY <2>1 DEF Kept, Oversized
  <2>2. ASSUME NEW h, Owns(h, c.id) PROVE Kept(c)'
    <3>1. \/ \E g : Owns(g, c.id)'
          \/ Oversized(c) /\ \E s \in Stations : rescanQueue'[s] > 0
      BY <2>2
    <3> QED
      BY <3>1 DEF Kept, Owns, Oversized
  <2> QED
    BY <2>1, <2>2 DEF AllKept, Kept, Owns
<1>2. ASSUME NEW h, NEW id, Owns(h, id)' PROVE IsSmall(id)' \/ MayHoldALargeCoin(h)'
  <2>1. IsSmall(id)' <=> IsSmall(id)
    BY DEF IsSmall, Oversized
  <2>2. CASE h \notin touched
    <3>1. Owns(h, id)
      BY <1>2, <2>2
    <3>2. IsSmall(id) \/ MayHoldALargeCoin(h)
      BY <3>1 DEF SmallCoinsHeld, Owns
    <3> QED
      BY <2>1, <2>2, <3>2
  <2>3. CASE h \in touched
    BY <1>2, <2>1, <2>3
  <2> QED
    BY <2>2, <2>3
<1> QED
  BY <1>1, <1>2 DEF AllKept, SmallCoinsHeld, Owns

LEMMA LargeHoldersStay ==
  ASSUME UNCHANGED ledger, NEW touched,
         \A u \in Tasks :
           \/ <<"task", u>> \in touched
           \/ /\ task'[u].payment = task[u].payment
              /\ task[u].pc \in {"latest", "release"} =>
                   task'[u].pc \in {"latest", "release"}
  PROVE  \A h : h \notin touched /\ MayHoldALargeCoin(h) => MayHoldALargeCoin(h)'
<1> SUFFICES ASSUME NEW u \in Tasks, <<"task", u>> \notin touched, HasOneCoin(u),
                    task[u].pc \in {"latest", "release"} \/ Spent(task[u].payment)
             PROVE  /\ HasOneCoin(u)'
                    /\ \/ task'[u].pc \in {"latest", "release"}
                       \/ Spent(task[u].payment)'
  BY DEF MayHoldALargeCoin
<1>1. PaymentIds(u)' = PaymentIds(u)
  BY DEF PaymentIds
<1>2. LiveOf(PaymentIds(u))' = LiveOf(PaymentIds(u))
  BY <1>1 DEF LiveOf
<1>3. HasOneCoin(u)'
  BY <1>2 DEF HasOneCoin
<1>4. Spent(task[u].payment) => Spent(task[u].payment)'
  BY DEF Spent
<1> QED
  BY <1>3, <1>4

LEMMA ReleasesStayWhole ==
  ASSUME WholeReleases, UNCHANGED ledger,
         \A t \in Tasks :
           \/ task'[t] = task[t]
           \/ task'[t].pc # "release"
           \/ Releases(PaymentIds(t)', task'[t].updated),
         \A s \in Stations :
           \/ unlocker'[s] = unlocker[s]
           \/ unlocker'[s].pc # "release"
           \/ Releases(unlocker'[s].batch, unlocker'[s].updated)
  PROVE  WholeReleases'
<1>1. ASSUME NEW t \in Tasks, task'[t].pc = "release"
      PROVE  Releases(PaymentIds(t), task[t].updated)'
  <2>1. ASSUME task'[t] = task[t]
        PROVE  Releases(PaymentIds(t)', task'[t].updated)
    <3>1. PaymentIds(t)' = PaymentIds(t)
      BY <2>1 DEF PaymentIds
    <3>2. Releases(PaymentIds(t), task[t].updated)
      BY <1>1, <2>1 DEF WholeReleases
    <3> QED
      BY <2>1, <3>1, <3>2
  <2>2. Releases(PaymentIds(t)', task'[t].updated)
    BY <1>1, <2>1
  <2> QED
    BY <2>2 DEF Releases, LiveOf, Oversized
<1>2. ASSUME NEW s \in Stations, unlocker'[s].pc = "release"
      PROVE  Releases(unlocker[s].batch, unlocker[s].updated)'
  <2>1. Releases(unlocker'[s].batch, unlocker'[s].updated)
    BY <1>2 DEF WholeReleases
  <2> QED
    BY <2>1 DEF Releases, LiveOf, Oversized
<1> QED
  BY <1>1, <1>2 DEF WholeReleases

(* No coin moves. *)
LEMMA NothingMoves ==
  ASSUME AllKept, SmallCoinsHeld, UNCHANGED <<ledger, available, reservations>>,
         \A s \in Stations : rescanQueue[s] > 0 => rescanQueue'[s] > 0,
         \A u \in Tasks :
           /\ task'[u].payment = task[u].payment
           /\ task[u].pc \in {"latest", "release"} =>
                task'[u].pc \in {"latest", "release"},
         \A s \in Stations : unlocker'[s].batch = unlocker[s].batch
  PROVE  AllKept' /\ SmallCoinsHeld'
<1>1. PICK touched : touched = {}
  OBVIOUS
<1>2. \A h : h \notin touched => \A id : Owns(h, id)' <=> Owns(h, id)
  <2>1. \A u \in Tasks : PaymentIds(u)' = PaymentIds(u)
    BY DEF PaymentIds
  <2> QED
    BY <2>1, UntouchedOwners
<1>3. \A h : h \notin touched /\ MayHoldALargeCoin(h) => MayHoldALargeCoin(h)'
  BY LargeHoldersStay
<1> QED
  BY <1>1, <1>2, <1>3, CoinsStayKept

(* The holders other than a task hold small coins only. *)
LEMMA OthersHoldSmallCoins ==
  ASSUME SmallCoinsHeld
  PROVE  /\ \A id : Owns(<<"pool">>, id) => IsSmall(id)
         /\ \A r, id : Owns(<<"reservation", r>>, id) => IsSmall(id)
         /\ \A s, id : Owns(<<"unlocker", s>>, id) => IsSmall(id)
         /\ \A t, id : Owns(<<"task", t>>, id) =>
              \/ IsSmall(id)
              \/ /\ HasOneCoin(t)
                 /\ task[t].pc \in {"latest", "release"} \/ Spent(task[t].payment)
BY DEF SmallCoinsHeld, Owns, MayHoldALargeCoin

LEMMA ReserveKeepsCoins ==
  ASSUME TInv, AllKept, SmallCoinsHeld, WholeReleases,
         NEW b \in Nat \ {0}, NEW d, Reserve(b, d)
  PROVE  AllKept' /\ SmallCoinsHeld' /\ WholeReleases'
<1>0. PICK r \in Nat : r = nextReservationId + 1
  BY DEF TInv, Typed, PoolTyped
<1> DEFINE dst == <<"reservation", r>>
<1>1. PICK n \in 1 .. Len(available), taken \in Seq(Coin) :
           /\ available = taken \o available'
           /\ available' \in Seq(Coin)
           /\ nextReservationId' = nextReservationId + 1
           /\ reservations' =
                [x \in DOMAIN reservations \cup {nextReservationId + 1} |->
                   IF x = nextReservationId + 1 THEN IdsOf(taken)
                   ELSE reservations[x]]
  BY GrantTakesTheFront DEF Reserve, TInv, Typed
<1>2. r \notin DOMAIN reservations
  BY <1>0 DEF TInv, Typed, PoolTyped
<1>3. /\ reservations'[r] = IdsOf(taken)
      /\ \A q \in DOMAIN reservations : reservations'[q] = reservations[q]
      /\ DOMAIN reservations' = DOMAIN reservations \cup {r}
  BY <1>0, <1>1, <1>2
<1>4. ToSet(IdsOf(available)) = ToSet(IdsOf(taken)) \cup ToSet(IdsOf(available'))
  <2>1. ToSet(IdsOf(taken \o available'))
          = ToSet(IdsOf(taken)) \cup ToSet(IdsOf(available'))
    BY <1>1, IdsOfConcatIsInjective
  <2> QED
    BY <1>1, <2>1
<1>5. UNCHANGED <<task, unlocker, ledger, rescanQueue>>
  BY DEF Reserve, chainVars, processVars
<1>6. /\ \A id : Owns(<<"pool">>, id) <=> id \in ToSet(IdsOf(available))
      /\ \A id : Owns(<<"pool">>, id)' <=> id \in ToSet(IdsOf(available'))
      /\ \A id : Owns(dst, id)' <=> id \in ToSet(IdsOf(taken))
      /\ \A id : ~Owns(dst, id)
  BY <1>2, <1>3, OwnsByKind
<1>7. PICK touched : touched = {<<"pool">>, dst}
  OBVIOUS
<1>8. \A h : h \notin touched => \A id : Owns(h, id)' <=> Owns(h, id)
  <2>1. \A q : \/ <<"reservation", q>> \in touched
               \/ /\ q \in DOMAIN reservations' <=> q \in DOMAIN reservations
                  /\ q \in DOMAIN reservations => reservations'[q] = reservations[q]
    BY <1>3, <1>7
  <2> QED
    BY <1>5, <1>7, <2>1, UntouchedOwners DEF PaymentIds
<1>9. \A h : h \notin touched /\ MayHoldALargeCoin(h) => MayHoldALargeCoin(h)'
  BY <1>5, LargeHoldersStay DEF PaymentIds
<1>10. \A h \in touched : \A id : Owns(h, id) => Owns(<<"pool">>, id)' \/ Owns(dst, id)'
  BY <1>4, <1>6, <1>7
<1>11. \A h \in touched : \A id : Owns(h, id)' => IsSmall(id)
  BY <1>4, <1>6, <1>7, OthersHoldSmallCoins
<1>12. WholeReleases'
  BY <1>5, ReleasesStayWhole
<1> HIDE DEF dst
<1>13. AllKept' /\ SmallCoinsHeld'
  BY <1>5, <1>8, <1>9, <1>10, <1>11, CoinsStayKept
<1> QED
  BY <1>12, <1>13

LEMMA StartExecutionKeepsCoins ==
  ASSUME TInv, CInv, KnownOwners, AllKept, SmallCoinsHeld, WholeReleases,
         NEW t \in Tasks, NEW g \in granted, StartExecution(t, g),
         lostReplies = 0, lostReplies' = 0
  PROVE  AllKept' /\ SmallCoinsHeld' /\ WholeReleases'
<1> DEFINE r == g.reservation
           src == <<"reservation", r>>
           dst == <<"task", t>>
<1>1. /\ r \in DOMAIN reservations
      /\ reservations' = Restrict(reservations, DOMAIN reservations \ {r})
      /\ task' = [task EXCEPT ![t].pc = "query", ![t].payment = g.coins]
      /\ task[t].pc = "idle"
      /\ UNCHANGED <<available, unlocker, ledger, rescanQueue>>
  BY DEF StartExecution, ReadyForExecution, ReplyIsLost, poolVars, chainVars
<1>2. /\ task'[t].payment = g.coins /\ task'[t].pc = "query"
      /\ \A u \in Tasks \ {t} : task'[u] = task[u]
  BY <1>1 DEF TInv, Typed, TasksTyped
<1>3. /\ DOMAIN reservations' = DOMAIN reservations \ {r}
      /\ \A q \in DOMAIN reservations' : reservations'[q] = reservations[q]
  BY <1>1 DEF Restrict
<1>4. PaymentIds(t)' = ToSet(reservations[r]) /\ PaymentIds(t) = {}
  <2>1. PaymentIds(t)' = {g.coins[i].id : i \in DOMAIN g.coins}
    BY <1>2 DEF PaymentIds
  <2>2. PaymentIds(t)' = ToSet(reservations[r])
    BY <1>1, <2>1 DEF CInv, GrantsMatch
  <2>3. task[t].payment = << >>
    BY <1>1 DEF KnownOwners
  <2>4. PaymentIds(t) = {}
    BY <2>3 DEF PaymentIds
  <2> QED
    BY <2>2, <2>4
<1>5. /\ \A id : Owns(src, id) <=> id \in ToSet(reservations[r])
      /\ \A id : Owns(dst, id)' <=> id \in ToSet(reservations[r])
      /\ \A id : ~Owns(src, id)'
      /\ \A id : ~Owns(dst, id)
  <2>1. r \in DOMAIN reservations /\ r \notin DOMAIN reservations'
    BY <1>1, <1>3
  <2> HIDE DEF r
  <2> QED
    BY <1>4, <2>1, OwnsByKind
<1>6. PICK touched : touched = {src, dst}
  OBVIOUS
<1>7. \A h : h \notin touched => \A id : Owns(h, id)' <=> Owns(h, id)
  <2>1. \A q : \/ <<"reservation", q>> \in touched
               \/ /\ q \in DOMAIN reservations' <=> q \in DOMAIN reservations
                  /\ q \in DOMAIN reservations => reservations'[q] = reservations[q]
    BY <1>3, <1>6
  <2>2. \A u \in Tasks : <<"task", u>> \in touched \/ PaymentIds(u)' = PaymentIds(u)
    BY <1>2, <1>6 DEF PaymentIds
  <2> QED
    BY <1>1, <2>1, <2>2, UntouchedOwners
<1>8. \A h : h \notin touched /\ MayHoldALargeCoin(h) => MayHoldALargeCoin(h)'
  <2>1. \A u \in Tasks : \/ <<"task", u>> \in touched
                         \/ task'[u] = task[u]
    BY <1>2, <1>6 DEF PaymentIds
  <2> QED
    BY <1>1, <2>1, LargeHoldersStay
<1>9. \A h \in touched : \A id : Owns(h, id) => Owns(dst, id)'
  BY <1>5, <1>6
<1>10. \A h \in touched : \A id : Owns(h, id)' => IsSmall(id)
  BY <1>5, <1>6, OthersHoldSmallCoins
<1>11. WholeReleases'
  <2>1. \A u \in Tasks : task'[u] = task[u] \/ task'[u].pc # "release"
    BY <1>2
  <2> QED
    BY <1>1, <2>1, ReleasesStayWhole
<1> HIDE DEF src, dst
<1>12. AllKept' /\ SmallCoinsHeld'
  BY <1>1, <1>7, <1>8, <1>9, <1>10, CoinsStayKept
<1> QED
  BY <1>11, <1>12

(* What a commit leaves is newer than all that anybody may pay with, and its
   id was there before. *)
LEMMA CommitIsNewer ==
  ASSUME ChainTyped, ChainIsUnique, NEW payment \in Payments, NEW gas \in NetGas,
         Commit(payment, gas)
  PROVE  /\ \E d \in LiveOf(PaidIds(payment)) : d.id = GasCoin(payment, gas).id
         /\ \A other : AllOld(other) =>
              \A i \in DOMAIN other : other[i] # RefOf(GasCoin(payment, gas))
<1> DEFINE g == GasCoin(payment, gas)
<1>1. /\ Payable(payment)
      /\ \A d \in LiveOf(PaidIds(payment)) : d.version < g.version
  BY CommitIsExact
<1>2. PICK d \in LiveOf(PaidIds(payment)) : d.id = g.id
  <2>1. 1 \in DOMAIN payment /\ g.id = payment[1].id
    BY DEF Payments, GasCoin
  <2>2. PICK d \in ledger : payment[1] = RefOf(d)
    BY <1>1, <2>1 DEF Payable
  <2>3. d.id = payment[1].id
    BY <2>2 DEF RefOf
  <2> QED
    BY <2>1, <2>2, <2>3 DEF LiveOf, PaidIds
<1>3. d.version \in Nat /\ g.version \in Nat
  BY GasCoinIsTyped DEF ChainTyped, LiveOf, Coin
<1>4. ASSUME NEW other, AllOld(other), NEW i \in DOMAIN other, other[i] = RefOf(g)
      PROVE  FALSE
  <2>1. other[i].id = g.id /\ other[i].version = g.version
    BY <1>4 DEF RefOf
  <2>2. g.version <= d.version
    BY <1>2, <1>4, <2>1 DEF AllOld, Old, LiveOf
  <2> QED
    BY <1>1, <1>2, <1>3, <2>2
<1> QED
  BY <1>2, <1>4

LEMMA CommitKeepsOneCoin ==
  ASSUME ChainTyped, ChainIsUnique, NEW payment \in Payments, NEW gas \in NetGas,
         Commit(payment, gas), NEW ids, \A c, d \in LiveOf(ids) : c = d
  PROVE  \A c, d \in {x \in ledger' : x.id \in ids} : c = d
<1> DEFINE g == GasCoin(payment, gas)
<1>1. ledger' = (ledger \ LiveOf(PaidIds(payment))) \cup {g}
  BY CommitIsExact
<1>2. PICK old \in LiveOf(PaidIds(payment)) : old.id = g.id
  BY CommitIsNewer
<1> HIDE DEF g
<1>3. ASSUME NEW c \in ledger \ LiveOf(PaidIds(payment)), c.id \in ids, g.id \in ids
      PROVE  FALSE
  <2>1. old \in LiveOf(ids) /\ c \in LiveOf(ids)
    BY <1>2, <1>3 DEF LiveOf
  <2> QED
    BY <1>2, <1>3, <2>1
<1> QED
  BY <1>1, <1>3 DEF LiveOf

(* A commit that pays with small coins: who held them holds what is left of
   them, and it is small, or the only coin of who paid. *)
LEMMA CommitKeepsCoins ==
  ASSUME TInv, CInv, PaymentsOld, AllKept, SmallCoinsHeld,
         NEW payment \in Payments, NEW gas \in NetGas, Commit(payment, gas),
         UNCHANGED <<available, reservations, unlocker, rescanQueue>>,
         \A u \in Tasks :
           /\ task'[u].payment = task[u].payment
           /\ task[u].pc \in {"latest", "release"} =>
                task'[u].pc \in {"latest", "release"},
         \A c \in LiveOf(PaidIds(payment)) : ~Oversized(c),
         \/ ~Oversized(GasCoin(payment, gas))
         \/ \E t \in Tasks : /\ PaymentIds(t) = PaidIds(payment)
                             /\ MayHoldALargeCoin(<<"task", t>>)'
  PROVE  AllKept' /\ SmallCoinsHeld'
<1> DEFINE g == GasCoin(payment, gas)
<1>0. ChainTyped /\ ChainIsUnique
  BY DEF TInv, Typed, CInv
<1>1. /\ ledger' = (ledger \ LiveOf(PaidIds(payment))) \cup {g}
      /\ g.id \in PaidIds(payment)
  BY <1>0, CommitIsExact
<1>2. PICK old \in LiveOf(PaidIds(payment)) : old.id = g.id
  BY <1>0, CommitIsNewer
<1>3. \A u \in Tasks : PaymentIds(u)' = PaymentIds(u)
  BY DEF PaymentIds
<1>4. \A h, id : Owns(h, id)' <=> Owns(h, id)
  <2>1. PICK touched : touched = {}
    OBVIOUS
  <2> QED
    BY <1>3, <2>1, UntouchedOwners
<1>5. ASSUME NEW c \in ledger' PROVE Kept(c)'
  <2>1. ASSUME NEW h, Owns(h, c.id) PROVE Kept(c)'
    BY <1>4, <2>1 DEF Kept, Owns
  <2>2. CASE c = g
    <3>1. old \in ledger /\ ~Oversized(old)
      BY DEF LiveOf
    <3>2. PICK h : Owns(h, old.id)
      BY <3>1 DEF AllKept, Kept, Owns
    <3> QED
      BY <1>2, <2>1, <2>2, <3>2
  <2>3. CASE c \in ledger
    <3>1. CASE Oversized(c) /\ \E s \in Stations : rescanQueue[s] > 0
      BY <3>1 DEF Kept, Oversized
    <3> QED
      BY <2>1, <2>3, <3>1 DEF AllKept, Kept, Owns
  <2> QED
    BY <1>1, <2>2, <2>3
<1>6. ASSUME NEW u \in Tasks, MayHoldALargeCoin(<<"task", u>>)
      PROVE  MayHoldALargeCoin(<<"task", u>>)'
  <2>1. HasOneCoin(u) /\ (task[u].pc \in {"latest", "release"} \/ Spent(task[u].payment))
    BY <1>6 DEF MayHoldALargeCoin
  <2>2. HasOneCoin(u)'
    <3>1. PICK ids : ids = PaymentIds(u)
      OBVIOUS
    <3>2. \A c, d \in LiveOf(ids) : c = d
      BY <2>1, <3>1 DEF HasOneCoin
    <3>3. \A c, d \in {x \in ledger' : x.id \in ids} : c = d
      BY <1>0, <3>2, CommitKeepsOneCoin
    <3> QED
      BY <1>3, <3>1, <3>3 DEF HasOneCoin, LiveOf
  <2>3. Spent(task[u].payment) => Spent(task[u].payment)'
    <3>1. AllOld(task[u].payment)
      BY DEF PaymentsOld
    <3>2. \A i \in DOMAIN task[u].payment : task[u].payment[i] # RefOf(g)
      BY <1>0, <3>1, CommitIsNewer
    <3> QED
      BY <1>1, <3>2 DEF Spent
  <2> QED
    BY <2>1, <2>2, <2>3 DEF MayHoldALargeCoin
<1>7. ASSUME NEW h, NEW id, Owns(h, id)' PROVE IsSmall(id)' \/ MayHoldALargeCoin(h)'
  <2>1. Owns(h, id)
    BY <1>4, <1>7
  <2>2. CASE MayHoldALargeCoin(h)
    BY <1>6, <2>2 DEF MayHoldALargeCoin
  <2>3. CASE IsSmall(id) /\ (id # g.id \/ ~Oversized(g))
    BY <1>1, <2>3 DEF IsSmall, Oversized
  <2>4. ASSUME id = g.id, NEW t \in Tasks, PaymentIds(t) = PaidIds(payment),
               MayHoldALargeCoin(<<"task", t>>)'
        PROVE  MayHoldALargeCoin(h)'
    <3>1. Owns(<<"task", t>>, id)
      BY <1>1, <2>4, OwnsByKind
    <3>2. h = <<"task", t>>
      BY <2>1, <3>1 DEF CInv, SingleCustody, Owns
    <3> QED
      BY <2>4, <3>2
  <2> QED
    BY <2>1, <2>2, <2>3, <2>4 DEF SmallCoinsHeld, Owns
<1>8. AllKept'
  BY <1>5 DEF AllKept
<1>9. SmallCoinsHeld'
  BY <1>7 DEF SmallCoinsHeld, Owns
<1> QED
  BY <1>8, <1>9

LEMMA CommitKeepsReleases ==
  ASSUME ChainTyped, ChainIsUnique, NEW payment \in Payments, NEW gas \in NetGas,
         Commit(payment, gas), \A c \in LiveOf(PaidIds(payment)) : ~Oversized(c),
         NEW ids, NEW coins, Releases(ids, coins),
         ~Oversized(GasCoin(payment, gas)) \/ ids \cap PaidIds(payment) = {}
  PROVE  Releases(ids, coins)'
<1> DEFINE g == GasCoin(payment, gas)
<1>1. /\ ledger' = (ledger \ LiveOf(PaidIds(payment))) \cup {g}
      /\ g.id \in PaidIds(payment)
  BY CommitIsExact
<1>2. PICK old \in LiveOf(PaidIds(payment)) : old.id = g.id
  BY CommitIsNewer
<1>3. ASSUME NEW c \in ledger', c.id \in ids
      PROVE  \E i \in DOMAIN coins : coins[i].id = c.id /\ (Oversized(c) => coins[i] = c)
  <2>1. CASE c \in ledger
    BY <1>3, <2>1 DEF Releases, LiveOf
  <2>2. CASE c = g
    <3>1. old \in LiveOf(ids) /\ ~Oversized(g)
      BY <1>1, <1>2, <1>3, <2>2 DEF LiveOf
    <3>2. PICK i \in DOMAIN coins : coins[i].id = old.id
      BY <3>1 DEF Releases
    <3> QED
      BY <1>2, <2>2, <3>1, <3>2
  <2> QED
    BY <1>1, <2>1, <2>2
<1>4. ASSUME NEW i \in DOMAIN coins, Oversized(coins[i])
      PROVE  coins[i] \in ledger'
  BY <1>1, <1>4 DEF Releases
<1> QED
  BY <1>3, <1>4 DEF Releases, LiveOf, Oversized

(* A task or an unlock task gives back all that is live of what it holds. *)
LEMMA GivingBackKeepsCoins ==
  ASSUME TInv, CInv, AllKept, SmallCoinsHeld,
         NEW a, NEW ids, \A id : Owns(a, id) <=> id \in ids,
         \A id : ~Owns(a, id)',
         NEW coins \in Seq(Coin), Releases(ids, coins),
         \A id \in ToSet(IdsOf(coins)) : IsSmall(id),
         AddNewCoins(coins), UNCHANGED <<ledger, rescanQueue>>,
         \A u \in Tasks : a = <<"task", u>> \/ task'[u] = task[u],
         \A s \in Stations : a = <<"unlocker", s>> \/ unlocker'[s] = unlocker[s]
  PROVE  AllKept' /\ SmallCoinsHeld'
<1> DEFINE pool == <<"pool">>
<1>1. /\ available' = available \o coins /\ UNCHANGED reservations
      /\ available \in Seq(Coin)
  BY DEF AddNewCoins, PushCoins, reservationVars, TInv, Typed, PoolTyped
<1>2. ToSet(IdsOf(available')) = ToSet(IdsOf(available)) \cup ToSet(IdsOf(coins))
  BY <1>1, IdsOfConcatIsInjective
<1>3. PICK touched : touched = {pool, a}
  OBVIOUS
<1>4. \A u \in Tasks : task'[u] = task[u] => PaymentIds(u)' = PaymentIds(u)
  BY DEF PaymentIds
<1>5. \A h : h \notin touched => \A id : Owns(h, id)' <=> Owns(h, id)
  <2>1. /\ pool \in touched
        /\ \A u \in Tasks : <<"task", u>> \in touched \/ PaymentIds(u)' = PaymentIds(u)
        /\ \A s \in Stations : \/ <<"unlocker", s>> \in touched
                               \/ unlocker'[s].batch = unlocker[s].batch
    BY <1>3, <1>4
  <2> QED
    BY <1>1, <2>1, UntouchedOwners
<1>6. \A h : h \notin touched /\ MayHoldALargeCoin(h) => MayHoldALargeCoin(h)'
  <2>1. \A u \in Tasks : \/ <<"task", u>> \in touched
                         \/ task'[u] = task[u]
    BY <1>3, <1>4
  <2> QED
    BY <2>1, LargeHoldersStay
<1>7. ASSUME NEW h \in touched, NEW c \in ledger, Owns(h, c.id)
      PROVE  Owns(pool, c.id)'
  <2>1. CASE h = pool
    BY <1>2, <1>7, <2>1, OwnsByKind
  <2>2. CASE h = a
    <3>1. c \in LiveOf(ids)
      BY <1>7, <2>2 DEF LiveOf
    <3>2. PICK i \in DOMAIN coins : coins[i].id = c.id
      BY <3>1 DEF Releases
    <3>3. c.id \in ToSet(IdsOf(coins))
      BY <3>2 DEF ToSet, IdsOf
    <3> QED
      BY <1>2, <3>3, OwnsByKind
  <2> QED
    BY <1>3, <1>7, <2>1, <2>2
<1>8. ASSUME NEW h \in touched, NEW id, Owns(h, id)'
      PROVE  IsSmall(id)
  <2>1. h = pool
    BY <1>3, <1>8
  <2>2. CASE id \in ToSet(IdsOf(available))
    BY <2>2, OwnsByKind, OthersHoldSmallCoins
  <2>3. CASE id \in ToSet(IdsOf(coins))
    BY <2>3
  <2>4. id \in ToSet(IdsOf(available'))
    BY <1>8, <2>1, OwnsByKind
  <2> QED
    BY <1>2, <2>2, <2>3, <2>4
<1> HIDE DEF pool
<1> QED
  BY <1>5, <1>6, <1>7, <1>8, CoinsStayKept

(* The rescan is asked for with the one coin that the task holds. *)
LEMMA TriggerRescanKeepsCoins ==
  ASSUME TInv, CInv, AllKept, SmallCoinsHeld, WholeReleases,
         NEW t \in Tasks, TriggerRescan(t)
  PROVE  AllKept' /\ SmallCoinsHeld' /\ WholeReleases'
<1> DEFINE mine == <<"task", t>>
           s == StationOf[t]
<1>1. /\ task[t].pc = "release" /\ s \in Stations
      /\ rescanQueue' = [rescanQueue EXCEPT ![s] =
                           IF @ < RescanBuffer THEN @ + 1 ELSE @]
      /\ task' = [task EXCEPT ![t] = IdleTask]
      /\ UNCHANGED <<available, reservations, unlocker, ledger>>
  BY GasStationAssumption
     DEF TriggerRescan, registryVars, poolVars, reservationVars, chainVars
<1>2. PICK i \in DOMAIN task[t].updated : Oversized(task[t].updated[i])
  BY DEF TriggerRescan
<1>3. PICK large \in ledger : large = task[t].updated[i]
  BY <1>1, <1>2 DEF WholeReleases, Releases
<1>4. large \in LiveOf(PaymentIds(t)) /\ Oversized(large)
  <2>1. large.id \in ToSet(IdsOf(task[t].updated))
    BY <1>2, <1>3 DEF ToSet, IdsOf
  <2> QED
    BY <1>1, <1>2, <1>3, <2>1 DEF CInv, TasksHoldWhatTheyRelease, LiveOf
<1>5. HasOneCoin(t)
  <2>1. Owns(mine, large.id) /\ ~IsSmall(large.id)
    BY <1>3, <1>4, OwnsByKind DEF LiveOf, IsSmall
  <2> QED
    BY <2>1, OthersHoldSmallCoins
<1>6. rescanQueue'[s] > 0 /\ \A u \in Stations : rescanQueue[u] > 0 => rescanQueue'[u] > 0
  <2>1. rescanQueue \in [Stations -> 0 .. RescanBuffer] /\ RescanBuffer \in Nat \ {0}
    BY GasStationAssumption DEF TInv, Typed, ProcessesTyped
  <2>2. PICK q : q = IF rescanQueue[s] < RescanBuffer THEN rescanQueue[s] + 1
                                                     ELSE rescanQueue[s]
    OBVIOUS
  <2>3. rescanQueue' = [rescanQueue EXCEPT ![s] = q]
    BY <1>1, <2>2
  <2>4. q > 0
    BY <1>1, <2>1, <2>2
  <2> HIDE DEF s
  <2>5. rescanQueue'[s] = q /\ \A u \in Stations \ {s} : rescanQueue'[u] = rescanQueue[u]
    BY <1>1, <2>1, <2>3
  <2> QED
    BY <2>4, <2>5
<1>7. /\ task'[t].pc = "idle" /\ PaymentIds(t)' = {}
      /\ \A u \in Tasks \ {t} : task'[u] = task[u] /\ PaymentIds(u)' = PaymentIds(u)
  BY <1>1 DEF IdleTask, PaymentIds, TInv, Typed, TasksTyped
<1>8. PICK touched : touched = {mine}
  OBVIOUS
<1>9. \A h : h \notin touched => \A id : Owns(h, id)' <=> Owns(h, id)
  <2>1. \A u \in Tasks : <<"task", u>> \in touched \/ PaymentIds(u)' = PaymentIds(u)
    BY <1>7, <1>8
  <2> QED
    BY <1>1, <2>1, UntouchedOwners
<1>10. \A h : h \notin touched /\ MayHoldALargeCoin(h) => MayHoldALargeCoin(h)'
  <2>1. \A u \in Tasks : \/ <<"task", u>> \in touched
                         \/ task'[u] = task[u]
    BY <1>7, <1>8
  <2> QED
    BY <1>1, <2>1, LargeHoldersStay
<1>11. ASSUME NEW h \in touched, NEW c \in ledger, Owns(h, c.id)
       PROVE  Oversized(c) /\ \E u \in Stations : rescanQueue'[u] > 0
  <2>1. c \in LiveOf(PaymentIds(t))
    BY <1>8, <1>11, OwnsByKind DEF LiveOf
  <2>2. c = large
    BY <1>4, <1>5, <2>1 DEF HasOneCoin
  <2> QED
    BY <1>1, <1>4, <1>6, <2>2
<1>12. \A h \in touched : \A id : ~Owns(h, id)'
  BY <1>7, <1>8, OwnsByKind
<1>13. WholeReleases'
  <2>1. \A u \in Tasks : task'[u] = task[u] \/ task'[u].pc # "release"
    BY <1>7
  <2> QED
    BY <1>1, <2>1, ReleasesStayWhole
<1>14. AllKept' /\ SmallCoinsHeld'
  BY <1>1, <1>6, <1>9, <1>10, <1>11, <1>12, CoinsStayKept
<1> QED
  BY <1>13, <1>14

(* A payment of small coins is what an executing task has, as soon as it can
   pay at all. *)
LEMMA PayersHoldSmallCoins ==
  ASSUME TInv, CInv, SmallCoinsHeld, NEW t \in Tasks, task[t].pc = "execute"
  PROVE  \A i \in DOMAIN task[t].payment : \A c \in ledger :
           task[t].payment[i] = RefOf(c) => ~Oversized(c)
<1> SUFFICES ASSUME NEW i \in DOMAIN task[t].payment, NEW c \in ledger,
                    task[t].payment[i] = RefOf(c), Oversized(c)
             PROVE  FALSE
  OBVIOUS
<1>1. Owns(<<"task", t>>, c.id)
  <2>1. c.id \in PaymentIds(t)
    BY DEF PaymentIds, RefOf
  <2> QED
    BY <2>1, OwnsByKind
<1>2. ~IsSmall(c.id) /\ ~Spent(task[t].payment)
  BY DEF IsSmall, Spent
<1> QED
  BY <1>1, <1>2, OthersHoldSmallCoins

LEMMA ExecuteOkKeepsCoins ==
  ASSUME TInv, CInv, SpendableInv, BalancesFit', ~lagged, ~lagged',
         AllKept, SmallCoinsHeld, WholeReleases, NEW t \in Tasks, ExecuteOk(t)
  PROVE  AllKept' /\ SmallCoinsHeld' /\ WholeReleases'
<1>0. /\ task \in [Tasks -> [pc : TaskPCs, payment : Seq(ObjectRef),
                             before : Nat, updated : Seq(Coin)]]
      /\ TasksTyped /\ ChainTyped /\ ChainIsUnique /\ PaymentsOld
  BY DEF TInv, Typed, TasksTyped, CInv, SpendableInv
<1>1. PICK gas \in NetGas :
        /\ Commit(task[t].payment, gas)
        /\ task' = [task EXCEPT ![t].pc = "release",
                                ![t].updated = <<UpdatedCoin(t, gas)>>]
  BY DEF ExecuteOk
<1>2. /\ UNCHANGED <<available, reservations, unlocker, rescanQueue>>
      /\ task[t].pc = "execute" /\ task'[t].pc = "release"
      /\ task'[t].updated = <<UpdatedCoin(t, gas)>>
      /\ \A u \in Tasks \ {t} : task'[u] = task[u]
      /\ \A u \in Tasks : task'[u].payment = task[u].payment
  BY <1>0, <1>1 DEF ExecuteOk, registryVars, poolVars, reservationVars
<1>3. PICK payment \in Payments : payment = task[t].payment
  BY <1>0, <1>2, TasksPay
<1> DEFINE g == GasCoin(payment, gas)
<1>4. Commit(payment, gas) /\ PaidIds(payment) = PaymentIds(t)
  BY <1>1, <1>3 DEF PaidIds, PaymentIds
<1>5. UpdatedCoin(t, gas) = g
  BY <1>1, <1>2, <1>3, UpdatedCoinIsLive
<1>6. /\ ledger' = (ledger \ LiveOf(PaidIds(payment))) \cup {g}
      /\ g.id \in PaidIds(payment)
      /\ \A c \in LiveOf(PaidIds(payment)) : \E i \in DOMAIN payment : payment[i] = RefOf(c)
  BY <1>0, <1>4, CommitIsExact
<1>7. \A c \in LiveOf(PaidIds(payment)) : ~Oversized(c)
  BY <1>2, <1>3, <1>6, PayersHoldSmallCoins DEF LiveOf
<1>8. \A u \in Tasks : PaymentIds(u)' = PaymentIds(u)
  BY <1>2 DEF PaymentIds
<1>9. LiveOf(PaymentIds(t))' = {g}
  BY <1>4, <1>6, <1>8 DEF LiveOf
<1>10. MayHoldALargeCoin(<<"task", t>>)'
  <2>1. HasOneCoin(t)'
    BY <1>9 DEF HasOneCoin
  <2> QED
    BY <1>2, <2>1 DEF MayHoldALargeCoin
<1>11. \A u \in Tasks : task[u].pc \in {"latest", "release"} =>
         task'[u].pc \in {"latest", "release"}
  BY <1>2
<1>12. AllKept' /\ SmallCoinsHeld'
  BY <1>0, <1>2, <1>4, <1>7, <1>10, <1>11, CommitKeepsCoins
<1>13. ASSUME NEW ids, NEW coins, ids \cap PaymentIds(t) = {}, Releases(ids, coins)
       PROVE  Releases(ids, coins)'
  BY <1>0, <1>4, <1>7, <1>13, CommitKeepsReleases
<1>14. ASSUME NEW u \in Tasks, task'[u].pc = "release"
       PROVE  Releases(PaymentIds(u), task[u].updated)'
  <2>1. CASE u = t
    <3> HIDE DEF g
    <3>1. /\ DOMAIN task'[t].updated = {1} /\ task'[t].updated[1] = g
          /\ g \in ledger'
      BY <1>2, <1>5, <1>6
    <3>2. \A c \in LiveOf(PaymentIds(t))' : \E i \in DOMAIN task'[t].updated :
            task'[t].updated[i].id = c.id /\ (Oversized(c) => task'[t].updated[i] = c)
      BY <1>9, <3>1
    <3>3. \A i \in DOMAIN task'[t].updated : task'[t].updated[i] \in ledger'
      BY <3>1
    <3> QED
      BY <2>1, <3>2, <3>3 DEF Releases, Oversized
  <2>2. CASE u # t
    <3>1. /\ PaymentIds(u) \cap PaymentIds(t) = {} /\ task'[u] = task[u]
          /\ Releases(PaymentIds(u), task[u].updated)
      BY <1>2, <1>14, <2>2, OthersHoldOtherCoins DEF WholeReleases
    <3>2. PICK ids : ids = PaymentIds(u)
      OBVIOUS
    <3>3. PICK coins : coins = task[u].updated
      OBVIOUS
    <3>4. Releases(ids, coins)'
      BY <1>13, <3>1, <3>2, <3>3
    <3> QED
      BY <1>8, <3>1, <3>2, <3>3, <3>4 DEF Releases, LiveOf, Oversized
  <2> QED
    BY <2>1, <2>2
<1>15. ASSUME NEW s \in Stations, unlocker'[s].pc = "release"
       PROVE  Releases(unlocker[s].batch, unlocker[s].updated)'
  <2>1. /\ unlocker[s].batch \cap PaymentIds(t) = {} /\ unlocker'[s] = unlocker[s]
        /\ Releases(unlocker[s].batch, unlocker[s].updated)
    BY <1>2, <1>15, OthersHoldOtherCoins DEF WholeReleases
  <2>2. PICK ids : ids = unlocker[s].batch
    OBVIOUS
  <2>3. PICK coins : coins = unlocker[s].updated
    OBVIOUS
  <2>4. Releases(ids, coins)'
    BY <1>13, <2>1, <2>2, <2>3
  <2> QED
    BY <2>1, <2>2, <2>3, <2>4 DEF Releases, LiveOf, Oversized
<1> QED
  BY <1>12, <1>14, <1>15 DEF WholeReleases

LEMMA TaskStepKeepsCoins ==
  ASSUME TInv, CInv, SpendableInv, BalancesFit', ~lagged, ~lagged',
         AllKept, SmallCoinsHeld, WholeReleases, NEW t \in Tasks, TaskStep(t),
         lostReplies = 0, lostReplies' = 0
  PROVE  AllKept' /\ SmallCoinsHeld' /\ WholeReleases'
<1>0. task \in [Tasks -> [pc : TaskPCs, payment : Seq(ObjectRef),
                          before : Nat, updated : Seq(Coin)]]
  BY DEF TInv, Typed, TasksTyped
<1>1. ASSUME UNCHANGED <<ledger, available, reservations, unlocker, rescanQueue>>,
             task'[t].payment = task[t].payment,
             task[t].pc \in {"latest", "release"} => task'[t].pc \in {"latest", "release"},
             \A u \in Tasks \ {t} : task'[u] = task[u],
             task'[t].pc = "release" => Releases(PaymentIds(t), task'[t].updated)
      PROVE  AllKept' /\ SmallCoinsHeld' /\ WholeReleases'
  <2>1. \A u \in Tasks : PaymentIds(u)' = PaymentIds(u)
    BY <1>1 DEF PaymentIds
  <2>2. AllKept' /\ SmallCoinsHeld'
    BY <1>1, NothingMoves
  <2>3. WholeReleases'
    BY <1>1, <2>1, ReleasesStayWhole
  <2> QED
    BY <2>2, <2>3
<1>2. CASE QueryTotalBalance(t)
  <2>1. /\ UNCHANGED <<ledger, available, reservations, unlocker, rescanQueue>>
        /\ task[t].pc = "query" /\ task'[t].pc = "execute"
        /\ task'[t].payment = task[t].payment
        /\ \A u \in Tasks \ {t} : task'[u] = task[u]
    BY <1>0, <1>2
       DEF QueryTotalBalance, registryVars, poolVars, reservationVars, chainVars
  <2> QED
    BY <1>1, <2>1
<1>3. CASE ExecuteOk(t)
  BY <1>3, ExecuteOkKeepsCoins
<1>4. CASE ExecuteErr(t)
  <2>1. /\ UNCHANGED <<ledger, available, reservations, unlocker, rescanQueue>>
        /\ task[t].pc = "execute" /\ task'[t].pc = "latest"
        /\ task'[t].payment = task[t].payment
        /\ \A u \in Tasks \ {t} : task'[u] = task[u]
    BY <1>0, <1>4 DEF ExecuteErr, registryVars, poolVars, reservationVars
  <2> QED
    BY <1>1, <2>1
<1>5. CASE QueryLatest(t)
  <2>1. PICK coins \in SetToSeqs(LatestGasObjects(PaymentIds(t))) :
          task' = [task EXCEPT ![t].pc = "release", ![t].updated = coins]
    BY <1>5 DEF QueryLatest
  <2>2. /\ UNCHANGED <<ledger, available, reservations, unlocker, rescanQueue>>
        /\ task'[t].pc = "release" /\ task'[t].updated = coins
        /\ task'[t].payment = task[t].payment
        /\ \A u \in Tasks \ {t} : task'[u] = task[u]
    BY <1>0, <1>5, <2>1
       DEF QueryLatest, registryVars, poolVars, reservationVars, chainVars
  <2>3. Releases(PaymentIds(t), coins)
    <3>1. /\ \A i \in DOMAIN coins : coins[i] \in ledger
          /\ \A c \in LiveOf(PaymentIds(t)) : \E i \in DOMAIN coins : coins[i] = c
      BY LatestAreLive DEF TInv, Typed, SpendableInv
    <3> QED
      BY <3>1 DEF Releases
  <2> QED
    BY <1>1, <2>2, <2>3
<1>6. CASE TriggerRescan(t)
  BY <1>6, TriggerRescanKeepsCoins
<1>7. CASE ReleaseCoins(t)
  <2> DEFINE mine == <<"task", t>>
  <2>1. /\ AddNewCoins(task[t].updated) /\ task[t].updated \in Seq(Coin)
        /\ task' = [task EXCEPT ![t] = IdleTask]
    BY <1>0, <1>7, AdditionsSucceed
       DEF ReleaseCoins, AddNewCoinsFailed, ReplyIsLost, TInv, Typed
  <2>2. /\ task[t].pc = "release"
        /\ \A i \in DOMAIN task[t].updated : ~Oversized(task[t].updated[i])
        /\ UNCHANGED <<ledger, unlocker, rescanQueue>>
    BY <1>7 DEF ReleaseCoins, chainVars
  <2>3. /\ task'[t].pc = "idle" /\ PaymentIds(t)' = {}
        /\ \A u \in Tasks \ {t} : task'[u] = task[u]
    BY <1>0, <2>1 DEF IdleTask, PaymentIds
  <2>4. /\ Releases(PaymentIds(t), task[t].updated)
        /\ \A id \in ToSet(IdsOf(task[t].updated)) : IsSmall(id)
    <3>1. Releases(PaymentIds(t), task[t].updated)
      BY <2>2 DEF WholeReleases
    <3>2. ASSUME NEW c \in ledger, c.id \in ToSet(IdsOf(task[t].updated))
          PROVE  ~Oversized(c)
      <4>1. c \in LiveOf(PaymentIds(t))
        BY <2>2, <3>2 DEF CInv, TasksHoldWhatTheyRelease, LiveOf
      <4> QED
        BY <2>2, <3>1, <4>1 DEF Releases
    <3> QED
      BY <3>1, <3>2 DEF IsSmall
  <2>5. /\ \A id : Owns(mine, id) <=> id \in PaymentIds(t)
        /\ \A id : ~Owns(mine, id)'
    BY <2>3, OwnsByKind
  <2>6. WholeReleases'
    <3>1. \A u \in Tasks : task'[u] = task[u] \/ task'[u].pc # "release"
      BY <2>3
    <3> QED
      BY <2>2, <3>1, ReleasesStayWhole
  <2>7. AllKept' /\ SmallCoinsHeld'
    <3>1. \A u \in Tasks : mine = <<"task", u>> \/ task'[u] = task[u]
      BY <2>3
    <3> HIDE DEF mine
    <3> QED
      BY <2>1, <2>2, <2>4, <2>5, <3>1, GivingBackKeepsCoins
  <2> QED
    BY <2>6, <2>7
<1> QED
  BY <1>2, <1>3, <1>4, <1>5, <1>6, <1>7 DEF TaskStep

LEMMA ExpiryKeepsCoins ==
  ASSUME TInv, KnownOwners, AllKept, SmallCoinsHeld, WholeReleases,
         NEW s \in Stations, UnlockExpire(s), lostReplies = 0, lostReplies' = 0
  PROVE  AllKept' /\ SmallCoinsHeld' /\ WholeReleases'
<1> DEFINE ids == UNION {ToSet(reservations[r]) : r \in ExpiredReservations}
           dst == <<"unlocker", s>>
<1>1. /\ reservations' = Restrict(reservations, DOMAIN reservations \ DueReservations)
      /\ unlocker[s].pc = "idle"
      /\ unlocker' = IF ids = {} THEN unlocker
                     ELSE [unlocker EXCEPT ![s].pc = "latest", ![s].batch = ids]
      /\ UNCHANGED <<available, task, ledger, rescanQueue>>
  BY DEF UnlockExpire, ExpireCoins, ReplyIsLost, poolVars, chainVars
<1>2. /\ DOMAIN reservations' = DOMAIN reservations \ DueReservations
      /\ \A r \in DOMAIN reservations' : reservations'[r] = reservations[r]
  BY <1>1 DEF Restrict
<1>3. unlocker[s].batch = {}
  BY <1>1 DEF KnownOwners
<1>4. PICK touched : touched = {<<"reservation", r>> : r \in ExpiredReservations} \cup {dst}
  OBVIOUS
<1>5. \A id \in ids : \E r \in ExpiredReservations : Owns(<<"reservation", r>>, id)
  <2> SUFFICES ASSUME NEW r \in ExpiredReservations, NEW id \in ToSet(reservations[r])
               PROVE  Owns(<<"reservation", r>>, id)
    OBVIOUS
  <2> QED
    BY OwnsByKind DEF ExpiredReservations
<1>6. \A r \in ExpiredReservations : \A id : Owns(<<"reservation", r>>, id) => id \in ids
  BY OwnsByKind
<1> HIDE DEF ids
<1>7. /\ unlocker'[s].batch = ids /\ unlocker'[s].pc # "release"
      /\ \A u \in Stations \ {s} : unlocker'[u] = unlocker[u]
  BY <1>1, <1>3 DEF TInv, Typed, UnlockersTyped
<1>8. /\ \A id : Owns(dst, id)' <=> id \in ids
      /\ \A id : ~Owns(dst, id)
  BY <1>3, <1>7, OwnsByKind
<1>9. \A r \in ExpiredReservations : \A id : ~Owns(<<"reservation", r>>, id)'
  <2>1. \A r \in ExpiredReservations : r \notin DOMAIN reservations'
    BY <1>2 DEF ExpiredReservations
  <2> QED
    BY <2>1, OwnsByKind
<1>10. \A h : h \notin touched => \A id : Owns(h, id)' <=> Owns(h, id)
  <2>1. \A q : \/ <<"reservation", q>> \in touched
               \/ /\ q \in DOMAIN reservations' <=> q \in DOMAIN reservations
                  /\ q \in DOMAIN reservations => reservations'[q] = reservations[q]
    BY <1>2, <1>4 DEF ExpiredReservations
  <2>2. \A u \in Stations : \/ <<"unlocker", u>> \in touched
                            \/ unlocker'[u].batch = unlocker[u].batch
    BY <1>4, <1>7
  <2>3. \A t \in Tasks : PaymentIds(t)' = PaymentIds(t)
    BY <1>1 DEF PaymentIds
  <2> QED
    BY <1>1, <2>1, <2>2, <2>3, UntouchedOwners
<1>11. \A h : h \notin touched /\ MayHoldALargeCoin(h) => MayHoldALargeCoin(h)'
  BY <1>1, LargeHoldersStay DEF PaymentIds
<1>12. \A h \in touched : \A id : Owns(h, id) => Owns(dst, id)'
  BY <1>4, <1>6, <1>8
<1>13. \A h \in touched : \A id : Owns(h, id)' => IsSmall(id)
  <2>1. \A id \in ids : IsSmall(id)
    BY <1>5, OthersHoldSmallCoins
  <2> QED
    BY <1>4, <1>8, <1>9, <2>1
<1>14. WholeReleases'
  BY <1>1, <1>7, ReleasesStayWhole
<1> HIDE DEF dst
<1>15. AllKept' /\ SmallCoinsHeld'
  BY <1>1, <1>10, <1>11, <1>12, <1>13, CoinsStayKept
<1> QED
  BY <1>14, <1>15

LEMMA UnlockStepKeepsCoins ==
  ASSUME TInv, CInv, KnownOwners, SpendableInv, ~lagged,
         AllKept, SmallCoinsHeld, WholeReleases, NEW s \in Stations, UnlockStep(s),
         lostReplies = 0, lostReplies' = 0
  PROVE  AllKept' /\ SmallCoinsHeld' /\ WholeReleases'
<1>0. unlocker \in [Stations -> [pc : UnlockerPCs, batch : SUBSET CoinIds,
                                 updated : Seq(Coin)]]
  BY DEF TInv, Typed, UnlockersTyped
<1>1. CASE UnlockExpire(s)
  BY <1>1, ExpiryKeepsCoins
<1>2. CASE UnlockQuery(s)
  <2>1. PICK coins \in SetToSeqs(LatestGasObjects(unlocker[s].batch)) :
          unlocker' = [unlocker EXCEPT ![s].pc = "release", ![s].updated = coins]
    BY <1>2 DEF UnlockQuery
  <2>2. /\ UNCHANGED <<ledger, available, reservations, task, rescanQueue>>
        /\ unlocker'[s].updated = coins /\ unlocker'[s].batch = unlocker[s].batch
        /\ \A u \in Stations \ {s} : unlocker'[u] = unlocker[u]
    BY <1>0, <1>2, <2>1
       DEF UnlockQuery, registryVars, poolVars, reservationVars, chainVars
  <2>3. Releases(unlocker[s].batch, coins)
    <3>1. /\ \A i \in DOMAIN coins : coins[i] \in ledger
          /\ \A c \in LiveOf(unlocker[s].batch) : \E i \in DOMAIN coins : coins[i] = c
      BY LatestAreLive DEF TInv, Typed, SpendableInv
    <3> QED
      BY <3>1 DEF Releases
  <2>4. \A u \in Stations : unlocker'[u].batch = unlocker[u].batch
    BY <2>2
  <2>5. AllKept' /\ SmallCoinsHeld'
    BY <2>2, <2>4, NothingMoves DEF PaymentIds
  <2>6. WholeReleases'
    BY <2>2, <2>3, ReleasesStayWhole
  <2> QED
    BY <2>5, <2>6
<1>3. CASE UnlockRelease(s)
  <2> DEFINE mine == <<"unlocker", s>>
  <2>1. /\ AddNewCoins(unlocker[s].updated) /\ unlocker[s].updated \in Seq(Coin)
        /\ unlocker' = [unlocker EXCEPT ![s] = IdleUnlocker]
    BY <1>0, <1>3, AdditionsSucceed
       DEF UnlockRelease, AddNewCoinsFailed, ReplyIsLost, TInv, Typed
  <2>2. unlocker[s].pc = "release" /\ UNCHANGED <<ledger, task, rescanQueue>>
    BY <1>3 DEF UnlockRelease, chainVars
  <2>3. /\ unlocker'[s].pc = "idle" /\ unlocker'[s].batch = {}
        /\ \A u \in Stations \ {s} : unlocker'[u] = unlocker[u]
    BY <1>0, <2>1 DEF IdleUnlocker
  <2>4. Releases(unlocker[s].batch, unlocker[s].updated)
    BY <2>2 DEF WholeReleases
  <2>5. /\ \A id : Owns(mine, id) <=> id \in unlocker[s].batch
        /\ \A id : ~Owns(mine, id)'
    BY <2>3, OwnsByKind
  <2>6. \A id \in ToSet(IdsOf(unlocker[s].updated)) : IsSmall(id)
    BY <2>2, <2>5, OthersHoldSmallCoins DEF CInv, UnlockersHoldWhatTheyRelease
  <2>7. WholeReleases'
    BY <2>2, <2>3, ReleasesStayWhole
  <2>8. AllKept' /\ SmallCoinsHeld'
    <3>1. \A u \in Stations : mine = <<"unlocker", u>> \/ unlocker'[u] = unlocker[u]
      BY <2>3
    <3> HIDE DEF mine
    <3> QED
      BY <2>1, <2>2, <2>4, <2>5, <2>6, <3>1, GivingBackKeepsCoins
  <2> QED
    BY <2>7, <2>8
<1> QED
  BY <1>1, <1>2, <1>3 DEF UnlockStep

LEMMA StillStepsKeepCoins ==
  ASSUME AllKept, SmallCoinsHeld, WholeReleases,
         UNCHANGED <<ledger, available, reservations, task, unlocker, rescanQueue>>
  PROVE  AllKept' /\ SmallCoinsHeld' /\ WholeReleases'
<1>1. \A t \in Tasks : PaymentIds(t)' = PaymentIds(t)
  BY DEF PaymentIds
<1>2. AllKept' /\ SmallCoinsHeld'
  BY <1>1, NothingMoves
<1>3. WholeReleases'
  BY ReleasesStayWhole
<1> QED
  BY <1>2, <1>3

(* A late commit that nobody will look at leaves a small coin, by assumption;
   any other leaves the only coin of the task that will. *)
LEMMA LateCommitKeepsCoins ==
  ASSUME TInv, CInv, KnownOwners, SpendableInv, ~lagged, ~RebatedLate',
         AllKept, SmallCoinsHeld, WholeReleases, SentAreSmall,
         NEW payment \in sent, NEW gas \in NetGas, LateCommit(payment, gas)
  PROVE  AllKept' /\ SmallCoinsHeld' /\ WholeReleases'
<1> DEFINE g == GasCoin(payment, gas)
<1>0. /\ ChainTyped /\ ChainIsUnique /\ payment \in Payments /\ PaymentsOld
      /\ AllOld(payment)
  BY DEF TInv, Typed, ChainTyped, CInv, SpendableInv, PaymentsOld
<1>1. /\ UNCHANGED <<available, reservations, unlocker, task, rescanQueue>>
      /\ Commit(payment, gas)
  BY DEF LateCommit, registryVars, poolVars, reservationVars, processVars
<1>2. /\ ledger' = (ledger \ LiveOf(PaidIds(payment))) \cup {g}
      /\ g.id \in PaidIds(payment)
      /\ \A c \in LiveOf(PaidIds(payment)) : \E i \in DOMAIN payment : payment[i] = RefOf(c)
  BY <1>0, <1>1, CommitIsExact
<1>3. \A c \in LiveOf(PaidIds(payment)) : ~Oversized(c)
  BY <1>2 DEF SentAreSmall, LiveOf
<1>4. \A u \in Tasks : PaymentIds(u)' = PaymentIds(u)
  BY <1>1 DEF PaymentIds
<1>5. ASSUME WillLook(payment)
      PROVE  \E t \in Tasks : /\ PaymentIds(t) = PaidIds(payment)
                              /\ MayHoldALargeCoin(<<"task", t>>)'
                              /\ task[t].pc # "release"
  <2>1. PICK t \in Tasks : task[t].payment = payment /\ task[t].pc # "release"
    BY <1>5 DEF WillLook
  <2>2. PaymentIds(t) = PaidIds(payment)
    BY <2>1 DEF PaidIds, PaymentIds
  <2>3. LiveOf(PaymentIds(t))' = {g}
    BY <1>2, <1>4, <2>2 DEF LiveOf
  <2>4. HasOneCoin(t)'
    BY <2>3 DEF HasOneCoin
  <2>5. Spent(task[t].payment)'
    <3>1. \A i \in DOMAIN payment : payment[i] # RefOf(g)
      BY <1>0, <1>1, CommitIsNewer
    <3>2. ASSUME NEW i \in DOMAIN payment, NEW c \in ledger', payment[i] = RefOf(c)
          PROVE  FALSE
      <4>1. c.id \in PaidIds(payment)
        BY <3>2 DEF PaidIds, RefOf
      <4>2. c = g
        BY <1>2, <4>1 DEF LiveOf
      <4> QED
        BY <3>1, <3>2, <4>2
    <3> QED
      BY <1>1, <2>1, <3>2 DEF Spent
  <2> QED
    BY <2>1, <2>2, <2>4, <2>5 DEF MayHoldALargeCoin
<1>6. ASSUME ~WillLook(payment)
      PROVE  ~Oversized(g)
  <2> DEFINE new == [paid |-> ToSet(payment), left |-> g]
  <2>1. late' = late \cup {new}
    BY <1>6 DEF LateCommit
  <2>2. new.left = g
    OBVIOUS
  <2> HIDE DEF new, g
  <2>3. new \in late'
    BY <2>1
  <2> QED
    BY <2>2, <2>3 DEF RebatedLate, Oversized
<1>7. AllKept' /\ SmallCoinsHeld'
  <2>1. \A u \in Tasks :
          /\ task'[u].payment = task[u].payment
          /\ task[u].pc \in {"latest", "release"} =>
               task'[u].pc \in {"latest", "release"}
    BY <1>1
  <2>2. \/ ~Oversized(GasCoin(payment, gas))
        \/ \E t \in Tasks : /\ PaymentIds(t) = PaidIds(payment)
                            /\ MayHoldALargeCoin(<<"task", t>>)'
    BY <1>5, <1>6
  <2> QED
    BY <1>0, <1>1, <1>3, <2>1, <2>2, CommitKeepsCoins
<1>8. ASSUME NEW ids, NEW coins, Releases(ids, coins),
             \A t \in Tasks : task[t].pc # "release" => ids \cap PaymentIds(t) = {}
      PROVE  Releases(ids, coins)'
  <2>1. ~Oversized(GasCoin(payment, gas)) \/ ids \cap PaidIds(payment) = {}
    BY <1>5, <1>6, <1>8
  <2> QED
    BY <1>0, <1>1, <1>3, <1>8, <2>1, CommitKeepsReleases
<1>9. ASSUME NEW u \in Tasks, task'[u].pc = "release"
      PROVE  Releases(PaymentIds(u), task[u].updated)'
  <2>1. /\ Releases(PaymentIds(u), task[u].updated)
        /\ \A t \in Tasks : task[t].pc # "release" => PaymentIds(u) \cap PaymentIds(t) = {}
    BY <1>1, <1>9, OthersHoldOtherCoins DEF WholeReleases
  <2>2. PICK ids : ids = PaymentIds(u)
    OBVIOUS
  <2>3. PICK coins : coins = task[u].updated
    OBVIOUS
  <2>4. Releases(ids, coins)'
    BY <1>8, <2>1, <2>2, <2>3
  <2> QED
    BY <1>1, <1>4, <2>2, <2>3, <2>4 DEF Releases, LiveOf, Oversized
<1>10. ASSUME NEW s \in Stations, unlocker'[s].pc = "release"
       PROVE  Releases(unlocker[s].batch, unlocker[s].updated)'
  <2>1. /\ Releases(unlocker[s].batch, unlocker[s].updated)
        /\ \A t \in Tasks : unlocker[s].batch \cap PaymentIds(t) = {}
    BY <1>1, <1>10, OthersHoldOtherCoins DEF WholeReleases
  <2>2. PICK ids : ids = unlocker[s].batch
    OBVIOUS
  <2>3. PICK coins : coins = unlocker[s].updated
    OBVIOUS
  <2>4. Releases(ids, coins)'
    BY <1>8, <2>1, <2>2, <2>3
  <2> QED
    BY <1>1, <2>2, <2>3, <2>4 DEF Releases, LiveOf, Oversized
<1> QED
  BY <1>7, <1>9, <1>10 DEF WholeReleases

(* What is on its way pays with small coins: a large coin is newer than every
   payment of a transaction that was sent. *)
LEMMA StepsKeepSentSmall ==
  ASSUME TInv, CInv, SpendableInv, ~lagged, SmallCoinsHeld, SentAreSmall,
         [Next]_vars, crashes' = crashes
  PROVE  SentAreSmall'
<1>0. /\ ChainTyped /\ ChainIsUnique /\ TasksTyped /\ PaymentsOld
      /\ crashes \in Nat
  BY DEF TInv, Typed, ProcessesTyped, CInv, SpendableInv
<1>1. ASSUME UNCHANGED ledger, NEW p \in sent', p \notin sent,
             \A t \in Tasks : task[t].pc = "execute" => p # task[t].payment
      PROVE  FALSE
  <2>1. ASSUME NEW s \in Stations, Crash(s) PROVE FALSE
    BY <1>0, <2>1 DEF Crash
  <2> QED
    BY <1>1, <2>1
       DEF Next, ReserveGas, DebugCheckHealth, Reserve, StartExecution, TaskStep,
           QueryTotalBalance, ExecuteOk, ExecuteErr, QueryLatest, TriggerRescan,
           ReleaseCoins, UnlockStep, UnlockExpire, UnlockQuery, UnlockRelease,
           Restart, LateCommit, FullnodeSyncs, TimePasses, chainVars, vars
<1>2. CASE UNCHANGED ledger
  <2>1. ASSUME NEW p \in sent', NEW i \in DOMAIN p, NEW c \in ledger, p[i] = RefOf(c)
        PROVE  ~Oversized(c)
    <3>1. CASE p \in sent
      BY <2>1, <3>1 DEF SentAreSmall
    <3>2. CASE p \notin sent
      <4>1. PICK t \in Tasks : task[t].pc = "execute" /\ p = task[t].payment
        BY <1>1, <1>2, <3>2
      <4> QED
        BY <2>1, <4>1, PayersHoldSmallCoins
    <3> QED
      BY <3>1, <3>2
  <2> QED
    BY <1>2, <2>1 DEF SentAreSmall, Oversized
<1>3. ASSUME NEW payment \in Payments, NEW gas \in NetGas, Commit(payment, gas),
             sent' \subseteq sent
      PROVE  SentAreSmall'
  <2>1. ledger' = (ledger \ LiveOf(PaidIds(payment))) \cup {GasCoin(payment, gas)}
    BY <1>0, <1>3, CommitIsExact
  <2>2. ASSUME NEW p \in sent', NEW i \in DOMAIN p, NEW c \in ledger', p[i] = RefOf(c)
        PROVE  ~Oversized(c)
    <3>1. p \in sent /\ AllOld(p)
      BY <1>0, <1>3 DEF PaymentsOld
    <3>2. p[i] # RefOf(GasCoin(payment, gas))
      BY <1>0, <1>3, <3>1, CommitIsNewer
    <3>3. c \in ledger
      BY <2>1, <2>2, <3>2
    <3> QED
      BY <2>2, <3>1, <3>3 DEF SentAreSmall
  <2> QED
    BY <2>2 DEF SentAreSmall, Oversized
<1>4. ASSUME NEW t \in Tasks, ExecuteOk(t) PROVE SentAreSmall'
  <2>1. PICK gas \in NetGas : Commit(task[t].payment, gas)
    BY <1>4 DEF ExecuteOk
  <2>2. PICK payment \in Payments : payment = task[t].payment
    BY <1>0, <1>4, TasksPay DEF ExecuteOk
  <2>3. sent' = sent
    BY <1>4 DEF ExecuteOk
  <2> QED
    BY <1>3, <2>1, <2>2, <2>3
<1>5. ASSUME NEW payment \in sent, NEW gas \in NetGas, LateCommit(payment, gas)
      PROVE  SentAreSmall'
  BY <1>0, <1>3, <1>5 DEF LateCommit, ChainTyped
<1>6. \/ UNCHANGED ledger
      \/ \E t \in Tasks : ExecuteOk(t)
      \/ \E payment \in sent, gas \in NetGas : LateCommit(payment, gas)
  BY DEF Next, ReserveGas, DebugCheckHealth, Reserve, StartExecution, TaskStep,
         QueryTotalBalance, ExecuteErr, QueryLatest, TriggerRescan,
         ReleaseCoins, UnlockStep, UnlockExpire, UnlockQuery, UnlockRelease,
         Crash, Restart, FullnodeSyncs, TimePasses, chainVars, vars
<1> QED
  BY <1>2, <1>4, <1>5, <1>6

LEMMA StepsKeepCoins ==
  ASSUME TInv, CInv, KnownOwners, SpendableInv, KeepInv, BalancesFit', [Next]_vars,
         lostReplies = 0, lostReplies' = 0
  PROVE  KeepInv'
<1> SUFFICES ASSUME crashes' = 0, ~lagged', ~RebatedLate'
             PROVE  AllKept' /\ SmallCoinsHeld' /\ WholeReleases' /\ SentAreSmall'
  BY DEF KeepInv
<1>1. ASSUME NEW s \in Stations, Crash(s) PROVE FALSE
  BY <1>1 DEF Crash, TInv, Typed, ProcessesTyped
<1>2. crashes = 0
  BY <1>1
     DEF Next, ReserveGas, DebugCheckHealth, Reserve, StartExecution, TaskStep,
         QueryTotalBalance, ExecuteOk, ExecuteErr, QueryLatest, TriggerRescan,
         ReleaseCoins, UnlockStep, UnlockExpire, UnlockQuery, UnlockRelease,
         Restart, LateCommit, FullnodeSyncs, TimePasses, processVars, faultVars, vars
<1>3. ~lagged
  BY <1>1
     DEF Next, ReserveGas, DebugCheckHealth, Reserve, StartExecution, TaskStep,
         QueryTotalBalance, ExecuteOk, ExecuteErr, Commit, FullnodeFollows,
         QueryLatest, TriggerRescan, ReleaseCoins, UnlockStep, UnlockExpire,
         UnlockQuery, UnlockRelease, Restart, LateCommit, FullnodeSyncs, TimePasses,
         chainVars, vars
<1>4. ~RebatedLate
  <2>1. late \subseteq late'
    BY <1>1
       DEF Next, ReserveGas, DebugCheckHealth, Reserve, StartExecution, TaskStep,
           QueryTotalBalance, ExecuteOk, ExecuteErr, QueryLatest, TriggerRescan,
           ReleaseCoins, UnlockStep, UnlockExpire, UnlockQuery, UnlockRelease,
           Restart, LateCommit, FullnodeSyncs, TimePasses, chainVars, vars
  <2> QED
    BY <2>1 DEF RebatedLate, Oversized
<1>5. AllKept /\ SmallCoinsHeld /\ WholeReleases /\ SentAreSmall
  BY <1>2, <1>3, <1>4 DEF KeepInv
<1> DEFINE Goal == AllKept' /\ SmallCoinsHeld' /\ WholeReleases'
<1>6. ASSUME NEW b \in Budgets, NEW d \in Durations, ReserveGas(b, d)
      PROVE  Goal
  <2>1. b \in Nat \ {0}
    BY <1>6, GasStationAssumption DEF ReserveGas, ValidRequest
  <2> QED
    BY <1>5, <1>6, <2>1, ReserveKeepsCoins DEF ReserveGas
<1>7. ASSUME DebugCheckHealth PROVE Goal
  <2>1. HealthBudget \in Nat \ {0}
    BY GasStationAssumption
  <2> QED
    BY <1>5, <1>7, <2>1, ReserveKeepsCoins DEF DebugCheckHealth
<1>8. ASSUME NEW t \in Tasks, NEW grant \in granted, StartExecution(t, grant) PROVE Goal
  BY <1>5, <1>8, StartExecutionKeepsCoins
<1>9. ASSUME NEW t \in Tasks, TaskStep(t) PROVE Goal
  BY <1>3, <1>5, <1>9, TaskStepKeepsCoins
<1>10. ASSUME NEW s \in Stations, UnlockStep(s) PROVE Goal
  BY <1>3, <1>5, <1>10, UnlockStepKeepsCoins
<1>11. ASSUME NEW s \in Stations, Restart(s) PROVE Goal
  BY <1>5, <1>11, StillStepsKeepCoins
     DEF Restart, InitCoinStats, reservationVars, chainVars
<1>12. ASSUME FullnodeSyncs PROVE Goal
  BY <1>5, <1>12, StillStepsKeepCoins
     DEF FullnodeSyncs, registryVars, poolVars, reservationVars, processVars
<1>13. ASSUME TimePasses PROVE Goal
  BY <1>5, <1>13, StillStepsKeepCoins
     DEF TimePasses, Tick, poolVars, reservationVars, chainVars, processVars
<1>14. ASSUME UNCHANGED vars PROVE Goal
  BY <1>5, <1>14, StillStepsKeepCoins
     DEF vars, registryVars, poolVars, reservationVars, chainVars, processVars
<1>15. ASSUME NEW payment \in sent, NEW gas \in NetGas, LateCommit(payment, gas) PROVE Goal
  BY <1>3, <1>5, <1>15, LateCommitKeepsCoins
<1>16. Goal
  BY <1>1, <1>6, <1>7, <1>8, <1>9, <1>10, <1>11, <1>12, <1>13, <1>14, <1>15 DEF Next
<1> HIDE DEF Goal
<1>17. SentAreSmall'
  BY <1>2, <1>3, <1>5, StepsKeepSentSmall
<1> QED
  BY <1>16, <1>17 DEF Goal

LEMMA InitialCoinsAreKept == Init => KeepInv
<1>1. SUFFICES ASSUME Init
               PROVE  AllKept /\ SmallCoinsHeld /\ WholeReleases /\ SentAreSmall
  BY DEF KeepInv
<1>2. PICK order \in SetToSeqs(CoinIds) :
        /\ available = [i \in DOMAIN order |->
                          [id |-> order[i], balance |-> InitialBalance, version |-> 1]]
        /\ ledger = ToSet(available)
        /\ task = [t \in Tasks |-> IdleTask]
        /\ unlocker = [s \in Stations |-> IdleUnlocker]
  BY <1>1 DEF Init
<1>3. \A c \in ledger : ~Oversized(c)
  <2>1. ASSUME NEW i \in DOMAIN available
        PROVE  ~(available[i].balance > OversizeThreshold)
    <3>1. available[i].balance = InitialBalance
      BY <1>2
    <3> QED
      BY <3>1, GasStationAssumption
  <2> QED
    BY <1>2, <2>1 DEF ToSet, Oversized
<1>4. \A c \in ledger : c.id \in CoinsOf(<<"pool">>)
  <2>1. \A i \in DOMAIN available : available[i].id \in ToSet(IdsOf(available))
    BY DEF ToSet, IdsOf
  <2> QED
    BY <1>2, <2>1, CoinsOfHolders DEF ToSet
<1>5. AllKept
  BY <1>4 DEF AllKept, Kept, Holders
<1>6. SmallCoinsHeld
  BY <1>3 DEF SmallCoinsHeld, IsSmall
<1>7. WholeReleases
  BY <1>2 DEF WholeReleases, IdleTask, IdleUnlocker
<1>8. SentAreSmall
  BY <1>1 DEF SentAreSmall, Init
<1> QED
  BY <1>5, <1>6, <1>7, <1>8

(* "Otherwise, we lose track of them" (gas_station_core.rs:200-202): as long as
   nothing crashes, the fullnode does not lag, no reply of Redis is lost and no
   late commit leaves a coin oversized, every live coin is held by somebody, or
   it is oversized and a rescan that will find it has been asked for, for any
   number of coins, clients, tasks and gas stations, and however full the
   channel is.  Transactions may be committed at any time after their station
   has given up; the coins that they leave are held by whoever held theirs. *)
THEOREM NoCoinStaysLost ==
  Spec /\ []BalancesFit => [](lostReplies = 0 => NoCoinIsLost)
<1> DEFINE Inv == /\ IInv
                  /\ KnownOwners
                  /\ lostReplies = 0 => SpendableInv /\ KeepInv
<1>1. Init => Inv
  BY InitIsTyped, InitialCustody, InitialOwners, InitialPoolIsLive,
     InitialCoinsAreKept DEF IInv
<1>2. Inv /\ [Next]_vars /\ BalancesFit' => Inv'
  BY StepsAreTyped, RepliesStayLost, StepsKeepCustody, StepsKeepOwnersKnown,
     StepsKeepSpendable, StepsKeepCoins DEF IInv
<1>3. Inv => (lostReplies = 0 => NoCoinIsLost)
  BY DEF KeepInv, AllKept, Kept, NoCoinIsLost
<1> HIDE DEF Inv
<1> QED
  BY <1>1, <1>2, <1>3, PTL DEF Spec
=============================================================================
