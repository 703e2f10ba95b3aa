------------------------- MODULE RequestPathProofs -------------------------
(***************************************************************************)
(* Proofs about the daily cap and the path of a request, for any number of *)
(* clients and calls, any cap and any gas:                                 *)
(*                                                                         *)
(*   - the cap holds up to the requests in flight: OvershootIsBounded      *)
(*     follows from itself and two facts more, of which every step of      *)
(*     RequestPath disturbs nothing but through one call into GasUsageCap; *)
(*   - a reservation is signed once, and what was sent for it is counted   *)
(*     or given up once: the call that has taken it over is its only one;  *)
(*   - on the first day the counter is the sum of what was counted, and    *)
(*     what was not counted yet is in the hands of requests in flight, so  *)
(*     the ledger stays below the cap and what those may spend;            *)
(*   - nobody is refused for the gas of the day before.                    *)
(***************************************************************************)
EXTENDS RequestPath, SumTheorems

(* The calls of RequestPath into GasUsageCap, whoever makes them. *)
CapStep ==
  \/ \E r \in Requests :
       \/ BeginCheck(r)
       \/ CompareDate(r)
       \/ ResetDate(r)
       \/ CheckUsage(r)
       \/ BeginUpdate(r)
       \/ Abandon(r)
       \/ \E gas \in NetGas : UpdateUsage(r, gas)
  \/ NextDay
  \/ \E holding \in SUBSET Requests : Restart(holding)

Records ==
  /\ curDailyUsage \in Int
  /\ day \in Nat
  /\ request \in [Requests ->
       [pc : {"idle", "compare", "reset", "use", "admitted"},
        calls : {"check_usage", "update_usage"},
        today : Nat]]

(* A cap of 0 admits nobody, so a reset that finds requests in flight leaves
   room for what they may spend. *)
CapInv ==
  /\ Records
  /\ OvershootIsBounded
  /\ DailyCap >= 1 \/ (InFlight = {} /\ curDailyUsage = 0)

-----------------------------------------------------------------------------
LEMMA MaxGasBounds ==
  MaxGas \in Int /\ MaxGas > 0 /\ \A g \in NetGas : g \in Int /\ g <= MaxGas
<1>1. PICK g \in NetGas : g > 0 /\ \A h \in NetGas : h <= g
  BY CapAssumption
<1>2. MaxGas \in NetGas /\ \A h \in NetGas : h <= MaxGas
  BY <1>1 DEF MaxGas
<1>3. \A h \in NetGas : h \in Int
  BY CapAssumption
<1> QED
  BY <1>1, <1>2, <1>3

LEMMA ProductIsMonotone ==
  ASSUME NEW k \in Nat, NEW n \in Nat, k <= n, NEW m \in Nat
  PROVE  k * m <= n * m
OBVIOUS

LEMMA InFlightIsFinite ==
  /\ IsFiniteSet(InFlight)
  /\ Cardinality(InFlight) \in Nat
  /\ Cardinality(Requests) \in Nat \ {0}
  /\ Cardinality(InFlight) <= Cardinality(Requests)
<1>1. IsFiniteSet(Requests) /\ InFlight \subseteq Requests /\ Requests # {}
  BY CapAssumption DEF InFlight
<1>2. Cardinality(Requests) \in Nat /\ Cardinality(Requests) # 0
  BY <1>1, FS_CardinalityType, FS_EmptySet
<1> QED
  BY <1>1, <1>2, FS_Subset, FS_CardinalityType

(* A step may add one request below the cap; one that leaves may have used
   what the bound had kept for it. *)
LEMMA CapIsKept ==
  ASSUME CapInv, Records',
         \/ /\ InFlight' \subseteq InFlight
            /\ curDailyUsage' = curDailyUsage
         \/ /\ InFlight' \subseteq InFlight
            /\ curDailyUsage' = 0
         \/ /\ \E r \in Requests : InFlight' \subseteq InFlight \cup {r}
            /\ curDailyUsage' = curDailyUsage
            /\ curDailyUsage < DailyCap
            /\ DailyCap >= 1
         \/ \E r \in InFlight, gas \in NetGas :
              /\ InFlight' = InFlight \ {r}
              /\ curDailyUsage' = curDailyUsage + gas
  PROVE  CapInv'
<1> DEFINE n == Cardinality(Requests)
           k == Cardinality(InFlight)
           l == Cardinality(InFlight')
<1>1. /\ n \in Nat \ {0} /\ k \in Nat /\ l \in Nat
      /\ k <= n /\ l <= n
      /\ IsFiniteSet(InFlight) /\ IsFiniteSet(InFlight')
  <2>1. InFlight' \subseteq Requests
    BY DEF InFlight
  <2> QED
    BY <2>1, InFlightIsFinite, CapAssumption, FS_Subset, FS_CardinalityType
<1>2. MaxGas \in Nat /\ MaxGas > 0
  BY MaxGasBounds
<1>3. DailyCap \in Nat /\ curDailyUsage \in Int
  BY CapAssumption DEF CapInv, Records
<1>4. curDailyUsage + k * MaxGas <= DailyCap - 1 + n * MaxGas
  BY DEF CapInv, OvershootIsBounded
<1>5. SUFFICES /\ curDailyUsage' + l * MaxGas <= DailyCap - 1 + n * MaxGas
               /\ DailyCap >= 1 \/ (InFlight' = {} /\ curDailyUsage' = 0)
  BY DEF CapInv, OvershootIsBounded
<1>12. DailyCap >= 1 \/ (InFlight = {} /\ curDailyUsage = 0)
  BY DEF CapInv
<1>6. k * MaxGas \in Nat /\ l * MaxGas \in Nat /\ n * MaxGas \in Nat
  BY <1>1, <1>2
<1>7. l * MaxGas <= n * MaxGas
  BY <1>1, <1>2, ProductIsMonotone
<1>8. CASE InFlight' \subseteq InFlight /\ curDailyUsage' = curDailyUsage
  <2>1. l <= k
    BY <1>1, <1>8, FS_Subset
  <2>2. l * MaxGas <= k * MaxGas
    BY <2>1, <1>1, <1>2, ProductIsMonotone
  <2> QED
    BY <2>2, <1>3, <1>4, <1>6, <1>8, <1>12
<1>9. CASE InFlight' \subseteq InFlight /\ curDailyUsage' = 0
  <2>1. CASE InFlight' = {}
    <3>1. l = 0
      BY <2>1, FS_EmptySet
    <3>2. n * MaxGas >= 1
      BY <1>1, <1>2
    <3> QED
      BY <3>1, <3>2, <2>1, <1>2, <1>3, <1>6, <1>9, <1>12
  <2>2. CASE InFlight' # {}
    BY <2>2, <1>3, <1>6, <1>7, <1>9, <1>12
  <2> QED
    BY <2>1, <2>2
<1>10. CASE /\ \E r \in Requests : InFlight' \subseteq InFlight \cup {r}
            /\ curDailyUsage' = curDailyUsage
            /\ curDailyUsage < DailyCap
            /\ DailyCap >= 1
  BY <1>3, <1>6, <1>7, <1>10
<1>11. ASSUME NEW r \in InFlight, NEW gas \in NetGas,
              InFlight' = InFlight \ {r},
              curDailyUsage' = curDailyUsage + gas
       PROVE  /\ curDailyUsage' + l * MaxGas <= DailyCap - 1 + n * MaxGas
              /\ DailyCap >= 1 \/ (InFlight' = {} /\ curDailyUsage' = 0)
  <2>1. l = k - 1
    BY <1>1, <1>11, FS_RemoveElement
  <2>2. (k - 1) * MaxGas = k * MaxGas - MaxGas
    BY <1>1, <1>2
  <2>3. gas \in Int /\ gas <= MaxGas
    BY MaxGasBounds
  <2>4. l * MaxGas = k * MaxGas - MaxGas
    BY <2>1, <2>2
  <2>5. DailyCap >= 1
    BY <1>12
  <2> HIDE DEF k, l, n
  <2> QED
    BY <2>3, <2>4, <2>5, <1>2, <1>3, <1>4, <1>6, <1>11
<1> QED
  BY <1>8, <1>9, <1>10, <1>11

(* Replacing the record of one request moves that request only. *)
LEMMA MovedRequest ==
  ASSUME Records, NEW r \in Requests,
         NEW rec \in [pc : {"idle", "compare", "reset", "use", "admitted"},
                      calls : {"check_usage", "update_usage"}, today : Nat],
         request' = [request EXCEPT ![r] = rec]
  PROVE  /\ request' \in [Requests ->
              [pc : {"idle", "compare", "reset", "use", "admitted"},
               calls : {"check_usage", "update_usage"}, today : Nat]]
         /\ InFlight' \subseteq InFlight \cup {r}
         /\ InFlight \ {r} \subseteq InFlight'
         /\ r \in InFlight' <=>
              \/ rec.pc = "admitted"
              \/ rec.calls = "update_usage" /\ rec.pc # "idle"
<1>1. \A q \in Requests : request'[q] = IF q = r THEN rec ELSE request[q]
  BY DEF Records
<1> QED
  BY <1>1 DEF Records, InFlight

LEMMA CapStepKeepsBound ==
  ASSUME CapInv, CapStep
  PROVE  CapInv'
<1>1. Records /\ (DailyCap >= 1 \/ (InFlight = {} /\ curDailyUsage = 0))
  BY DEF CapInv
<1>2. ASSUME NEW r \in Requests, BeginCheck(r) \/ BeginUpdate(r)
      PROVE  CapInv'
  <2>1. PICK function \in {"check_usage", "update_usage"} :
          /\ request' = [request EXCEPT
               ![r] = [pc |-> "compare", calls |-> function, today |-> day]]
          /\ function = "update_usage" => request[r].pc = "admitted"
    BY <1>2 DEF BeginCheck, BeginUpdate, Begin
  <2> DEFINE rec == [pc |-> "compare", calls |-> function, today |-> day]
  <2>2. rec \in [pc : {"idle", "compare", "reset", "use", "admitted"},
                calls : {"check_usage", "update_usage"}, today : Nat]
    BY <1>1 DEF Records
  <2>3. UNCHANGED <<day, curDailyUsage>>
    BY <1>2 DEF BeginCheck, BeginUpdate
  <2>4. Records'
    BY <1>1, <2>1, <2>2, <2>3, MovedRequest DEF Records
  <2>5. InFlight' \subseteq InFlight \cup {r}
    BY <1>1, <2>1, <2>2, MovedRequest
  <2>6. r \in InFlight' => function = "update_usage"
    BY <1>1, <2>1, <2>2, MovedRequest
  <2>7. r \in InFlight' => r \in InFlight
    BY <2>1, <2>6 DEF InFlight
  <2> QED
    BY <2>3, <2>4, <2>5, <2>7, CapIsKept
<1>3. ASSUME NEW r \in Requests, CompareDate(r) \/ ResetDate(r)
      PROVE  CapInv'
  <2>1. PICK pc \in {"reset", "use"} : request' = [request EXCEPT ![r].pc = pc]
    BY <1>3 DEF CompareDate, ResetDate
  <2> DEFINE rec == [request[r] EXCEPT !.pc = pc]
  <2>2. /\ request[r].pc \in {"compare", "reset"}
        /\ curDailyUsage' \in {curDailyUsage, 0}
        /\ day' = day
    BY <1>3 DEF CompareDate, ResetDate
  <2>3. /\ request' = [request EXCEPT ![r] = rec]
        /\ rec \in [pc : {"idle", "compare", "reset", "use", "admitted"},
                   calls : {"check_usage", "update_usage"}, today : Nat]
        /\ rec.calls = request[r].calls /\ rec.pc \in {"reset", "use"}
    BY <1>1, <2>1 DEF Records
  <2>4. r \in InFlight <=> request[r].calls = "update_usage"
    BY <2>2 DEF InFlight
  <2>5. r \in InFlight' => r \in InFlight
    BY <1>1, <2>3, <2>4, MovedRequest
  <2>6. InFlight' \subseteq InFlight \cup {r}
        /\ request' \in [Requests ->
              [pc : {"idle", "compare", "reset", "use", "admitted"},
               calls : {"check_usage", "update_usage"}, today : Nat]]
    BY <1>1, <2>3, MovedRequest
  <2>7. InFlight' \subseteq InFlight /\ Records'
    BY <1>1, <2>2, <2>5, <2>6 DEF Records
  <2> QED
    BY <2>2, <2>7, CapIsKept
<1>4. ASSUME NEW r \in Requests, CheckUsage(r)
      PROVE  CapInv'
  <2>1. /\ request[r].pc = "use" /\ request[r].calls = "check_usage"
        /\ UNCHANGED <<day, curDailyUsage>>
    BY <1>4 DEF CheckUsage
  <2>2. CASE curDailyUsage >= AsI64(DailyCap)
    <3>1. request' = [request EXCEPT ![r] = Idle]
      BY <1>4, <2>2 DEF CheckUsage
    <3>2. Idle \in [pc : {"idle", "compare", "reset", "use", "admitted"},
                   calls : {"check_usage", "update_usage"}, today : Nat]
      BY DEF Idle
    <3>3. ~ (\/ Idle.pc = "admitted"
             \/ Idle.calls = "update_usage" /\ Idle.pc # "idle")
      BY DEF Idle
    <3> HIDE DEF Idle
    <3>4. /\ InFlight' \subseteq InFlight \cup {r}
          /\ r \notin InFlight'
          /\ request' \in [Requests ->
               [pc : {"idle", "compare", "reset", "use", "admitted"},
                calls : {"check_usage", "update_usage"}, today : Nat]]
      BY <1>1, <3>1, <3>2, <3>3, MovedRequest
    <3>5. InFlight' \subseteq InFlight /\ Records'
      BY <1>1, <2>1, <3>4 DEF Records
    <3> QED
      BY <2>1, <3>5, CapIsKept
  <2>3. CASE ~ (curDailyUsage >= AsI64(DailyCap))
    <3> DEFINE rec == [Idle EXCEPT !.pc = "admitted"]
    <3>1. request' = [request EXCEPT ![r] = rec]
      BY <1>4, <2>3 DEF CheckUsage
    <3>2. rec \in [pc : {"idle", "compare", "reset", "use", "admitted"},
                  calls : {"check_usage", "update_usage"}, today : Nat]
      BY DEF Idle
    <3>3. InFlight' \subseteq InFlight \cup {r} /\ Records'
      BY <1>1, <2>1, <3>1, <3>2, MovedRequest DEF Records
    <3>4. curDailyUsage < DailyCap
      BY <1>1, <2>3, CapAssumption DEF AsI64, Records
    <3>5. DailyCap >= 1
      BY <1>1, <3>4, CapAssumption DEF Records
    <3> QED
      BY <2>1, <3>3, <3>4, <3>5, CapIsKept
  <2> QED
    BY <2>2, <2>3
<1>5. ASSUME NEW r \in Requests,
             request' = [request EXCEPT ![r] = Idle]
      PROVE  /\ r \notin InFlight'
             /\ InFlight' \subseteq InFlight
             /\ InFlight \ {r} \subseteq InFlight'
             /\ request' \in [Requests ->
                  [pc : {"idle", "compare", "reset", "use", "admitted"},
                   calls : {"check_usage", "update_usage"}, today : Nat]]
  <2>1. /\ Idle \in [pc : {"idle", "compare", "reset", "use", "admitted"},
                     calls : {"check_usage", "update_usage"}, today : Nat]
        /\ ~ (\/ Idle.pc = "admitted"
              \/ Idle.calls = "update_usage" /\ Idle.pc # "idle")
    BY DEF Idle
  <2> HIDE DEF Idle
  <2> QED
    BY <1>1, <1>5, <2>1, MovedRequest
<1>6. ASSUME NEW r \in Requests, Abandon(r)
      PROVE  CapInv'
  <2>1. request' = [request EXCEPT ![r] = Idle] /\ UNCHANGED <<day, curDailyUsage>>
    BY <1>6 DEF Abandon
  <2>2. InFlight' \subseteq InFlight /\ Records'
    BY <1>1, <1>5, <2>1 DEF Records
  <2> QED
    BY <2>1, <2>2, CapIsKept
<1>7. ASSUME NEW r \in Requests, NEW gas \in NetGas, UpdateUsage(r, gas)
      PROVE  CapInv'
  <2>1. /\ request[r].pc = "use" /\ request[r].calls = "update_usage"
        /\ request' = [request EXCEPT ![r] = Idle]
        /\ curDailyUsage' = curDailyUsage + gas /\ day' = day
    BY <1>7 DEF UpdateUsage
  <2>2. r \in InFlight
    BY <2>1 DEF InFlight
  <2>3. InFlight' = InFlight \ {r}
    BY <1>5, <2>1
  <2>4. curDailyUsage' \in Int
    BY <1>1, <2>1, MaxGasBounds DEF Records
  <2>5. Records'
    BY <1>1, <1>5, <2>1, <2>4 DEF Records
  <2> QED
    BY <2>1, <2>2, <2>3, <2>5, CapIsKept
<1>8. ASSUME NextDay
      PROVE  CapInv'
  <2>1. UNCHANGED <<request, curDailyUsage>> /\ day' = day + 1
    BY <1>8 DEF NextDay
  <2>2. InFlight' \subseteq InFlight /\ Records'
    BY <1>1, <2>1 DEF Records, InFlight
  <2> QED
    BY <2>1, <2>2, CapIsKept
<1>9. ASSUME NEW holding \in SUBSET Requests, Restart(holding)
      PROVE  CapInv'
  <2>1. /\ request' = [r \in Requests |-> IF r \in holding THEN request[r] ELSE Idle]
        /\ curDailyUsage' = 0 /\ day' = day
    BY <1>9 DEF Restart
  <2>2. \A r \in Requests : request'[r] = IF r \in holding THEN request[r] ELSE Idle
    BY <2>1
  <2>3. InFlight' \subseteq InFlight
    BY <2>2 DEF InFlight, Idle
  <2>4. Records'
    BY <1>1, <2>1 DEF Records, Idle
  <2> QED
    BY <2>1, <2>3, <2>4, CapIsKept
<1> QED
  BY <1>2, <1>3, <1>4, <1>6, <1>7, <1>8, <1>9 DEF CapStep

-----------------------------------------------------------------------------
Calls == [pc : {"idle", "check", "sign", "submit", "await", "count"},
          id : Ids \cup {None}, client : Requests \cup {None}, retries : Nat]

PathRecords ==
  /\ nextId \in 1 .. MaxReservations + 1
  /\ held \in [Requests -> (1 .. nextId - 1) \cup {None}]
  /\ live \cup expired \subseteq 1 .. nextId - 1
  /\ task \in [Tasks -> Calls]
  /\ signed \in [Ids -> Nat]
  /\ \A id \in DOMAIN spent : spent[id] \in NetGas

(* A call under way has a client and a reservation that was given out; one that
   counts has a transaction that committed. *)
CallsAreSound ==
  \A t \in Tasks :
    task[t].pc # "idle" =>
      /\ task[t].client \in Requests
      /\ task[t].id \in 1 .. nextId - 1
      /\ task[t].pc = "count" => task[t].id \in DOMAIN spent

(* A reservation is live, expired, or taken over by one call, which is the only
   one that may have it signed. *)
TakenOnce ==
  /\ live \cap expired = {}
  /\ \A t \in Tasks : task[t].pc = "sign" =>
       /\ task[t].id \notin live \cup expired
       /\ signed[task[t].id] = 0
       /\ \A u \in Tasks : task[u].pc = "sign" /\ task[u].id = task[t].id => u = t
  /\ \A id \in Ids :
       /\ signed[id] \in {0, 1}
       /\ signed[id] = 1 => id < nextId /\ id \notin live \cup expired

PathInv ==
  /\ PathRecords
  /\ CallsAreSound
  /\ TakenOnce

(* Whatever a request does between its calls leaves the cap alone. *)
LEMMA PathStepIsCapStep ==
  ASSUME PathInv, PathNext
  PROVE  CapStep \/ UNCHANGED vars
<1>1. ASSUME NEW r \in Requests, ReserveCoins(r) \/ GiveUp(r)
      PROVE  CapStep \/ UNCHANGED vars
  BY <1>1 DEF ReserveCoins, GiveUp, CapStep
<1>2. ASSUME NEW t \in Tasks, Executed(t)
      PROVE  CapStep
  <2>1. task[t].client \in Requests /\ BeginUpdate(task[t].client)
    BY <1>2 DEF PathInv, CallsAreSound, Executed
  <2> QED
    BY <2>1 DEF CapStep
<1>3. ASSUME NEW t \in Tasks, Count(t)
      PROVE  CapStep
  <2>1. /\ task[t].client \in Requests
        /\ spent[task[t].id] \in NetGas
        /\ UpdateUsage(task[t].client, spent[task[t].id])
    BY <1>3 DEF PathInv, PathRecords, CallsAreSound, Count
  <2> QED
    BY <2>1 DEF CapStep
<1>4. ASSUME NEW t \in Tasks,
             \/ \E r \in Requests : SendExecute(t, r)
             \/ RefuseExecution(t) \/ TakeOver(t) \/ SignTransaction(t)
             \/ SignerFails(t) \/ Submit(t) \/ SubmissionFails(t)
      PROVE  UNCHANGED vars
  BY <1>4 DEF SendExecute, RefuseExecution, TakeOver, SignTransaction,
              SignerFails, Submit, SubmissionFails
<1>5. ASSUME NEW id \in 1 .. nextId - 1,
             Expire(id) \/ \E gas \in NetGas : Commit(id, gas)
      PROVE  UNCHANGED vars
  BY <1>5 DEF Expire, Commit
<1>6. ASSUME RestartServer
      PROVE  CapStep
  <2>1. \E holding \in SUBSET Requests : Restart(holding)
    BY <1>6 DEF RestartServer
  <2> QED
    BY <2>1 DEF CapStep
<1> QED
  BY <1>1, <1>2, <1>3, <1>4, <1>5, <1>6 DEF PathNext, CapStep

-----------------------------------------------------------------------------
LEMMA InitHolds == PathInit => CapInv /\ PathInv
<1> SUFFICES ASSUME PathInit PROVE CapInv /\ PathInv
  OBVIOUS
<1>1. InFlight = {} /\ Records
  BY DEF PathInit, Init, InFlight, Records, Idle
<1>2. OvershootIsBounded
  <2>1. Cardinality(InFlight) = 0
    BY <1>1, FS_EmptySet
  <2>2. Cardinality(Requests) \in Nat \ {0} /\ MaxGas \in Nat \ {0}
    BY InFlightIsFinite, MaxGasBounds
  <2>3. Cardinality(Requests) * MaxGas >= 1
    BY <2>2
  <2>4. 0 * MaxGas = 0 /\ Cardinality(Requests) * MaxGas \in Nat
    BY <2>2
  <2> QED
    BY <2>1, <2>3, <2>4, CapAssumption DEF OvershootIsBounded, PathInit, Init
<1>3. CapInv
  BY <1>1, <1>2, CapAssumption DEF CapInv, PathInit, Init
<1>4. PathInv
  BY PathAssumption
     DEF PathInit, PathInv, PathRecords, CallsAreSound, TakenOnce, Calls,
         NoTask, Ids
<1> QED
  BY <1>3, <1>4

LEMMA RecordsAreKept ==
  ASSUME PathInv, PathNext
  PROVE  PathRecords'
<1> USE DEF PathInv
<1>1. ASSUME NEW r \in Requests, ReserveCoins(r)
      PROVE  PathRecords'
  BY <1>1, PathAssumption DEF PathRecords, ReserveCoins, Ids, historyVars
<1>2. ASSUME NEW r \in Requests, GiveUp(r)
      PROVE  PathRecords'
  BY <1>2 DEF PathRecords, GiveUp, historyVars
<1>3. ASSUME NEW t \in Tasks, NEW r \in Requests, SendExecute(t, r)
      PROVE  PathRecords'
  <2>1. held[r] \in Ids
    BY <1>3, PathAssumption DEF PathRecords, SendExecute, Ids
  <2>2. [pc |-> "check", id |-> held[r], client |-> r, retries |-> 0] \in Calls
    BY <2>1 DEF Calls
  <2> QED
    BY <1>3, <2>2 DEF PathRecords, SendExecute, historyVars
<1>4. NoTask \in Calls
  BY DEF NoTask, Calls
<1>5. ASSUME NEW t \in Tasks,
             NEW pc \in {"sign", "submit", "await", "count"},
             NEW n \in Nat,
             \/ EndTask(t)
             \/ task' = [task EXCEPT ![t].pc = pc]
             \/ task' = [task EXCEPT ![t].pc = pc, ![t].retries = n]
      PROVE  task' \in [Tasks -> Calls]
  BY <1>4, <1>5 DEF PathRecords, EndTask, Calls
<1>6. ASSUME NEW t \in Tasks, RefuseExecution(t) \/ TakeOver(t)
      PROVE  PathRecords'
  <2>1. task' \in [Tasks -> Calls]
    BY <1>5, <1>6 DEF RefuseExecution, TakeOver
  <2> QED
    BY <1>6, <2>1 DEF PathRecords, RefuseExecution, TakeOver, historyVars
<1>7. ASSUME NEW t \in Tasks, SignTransaction(t)
      PROVE  PathRecords'
  <2>1. task' \in [Tasks -> Calls]
    BY <1>5, <1>7 DEF SignTransaction
  <2>2. signed' \in [Ids -> Nat]
    <3>1. signed \in [Ids -> Nat] /\ task[t].id \in Ids
      BY <1>7, PathAssumption
         DEF PathRecords, CallsAreSound, SignTransaction, Ids
    <3>2. signed' = [signed EXCEPT ![task[t].id] = signed[task[t].id] + 1]
      BY <1>7 DEF SignTransaction
    <3> QED
      BY <3>1, <3>2
  <2> QED
    BY <1>7, <2>1, <2>2 DEF PathRecords, SignTransaction
<1>8. ASSUME NEW t \in Tasks, SignerFails(t) \/ SubmissionFails(t)
      PROVE  PathRecords'
  <2>1. task[t].retries + 1 \in Nat
    BY DEF PathRecords, Calls
  <2>2. task' \in [Tasks -> Calls]
    <3>1. CASE EndTask(t)
      BY <3>1, <1>5
    <3>2. CASE Retry(t, "sign")
      BY <3>2, <2>1, <1>5 DEF Retry
    <3>3. CASE Retry(t, "submit")
      BY <3>3, <2>1, <1>5 DEF Retry
    <3> QED
      BY <1>8, <3>1, <3>2, <3>3 DEF SignerFails, SubmissionFails
  <2> QED
    BY <1>8, <2>2 DEF PathRecords, SignerFails, SubmissionFails, historyVars
<1>9. ASSUME NEW t \in Tasks, Submit(t)
      PROVE  PathRecords'
  <2>1. task' \in [Tasks -> Calls]
    BY <1>5, <1>9 DEF Submit
  <2> QED
    BY <1>9, <2>1 DEF PathRecords, Submit, historyVars
<1>10. ASSUME NEW t \in Tasks, Executed(t)
      PROVE  PathRecords'
  <2>1. task' \in [Tasks -> Calls]
    BY <1>5, <1>10 DEF Executed
  <2> QED
    BY <1>10, <2>1 DEF PathRecords, Executed, historyVars
<1>11. ASSUME NEW t \in Tasks, Count(t)
      PROVE  PathRecords'
  <2>1. task' \in [Tasks -> Calls]
    BY <1>5, <1>11 DEF Count
  <2>2. held' \in [Requests -> (1 .. nextId - 1) \cup {None}]
    BY <1>11 DEF PathRecords, Count
  <2> QED
    BY <1>11, <2>1, <2>2 DEF PathRecords, Count
<1>12. ASSUME NEW id \in 1 .. nextId - 1, Expire(id)
      PROVE  PathRecords'
  BY <1>12 DEF PathRecords, Expire
<1>13. ASSUME NEW id \in 1 .. nextId - 1, NEW gas \in NetGas, Commit(id, gas)
      PROVE  PathRecords'
  <2>1. \A i \in DOMAIN spent' : spent'[i] \in NetGas
    BY <1>13 DEF PathRecords, Commit
  <2> QED
    BY <1>13, <2>1 DEF PathRecords, Commit, historyVars
<1>14. ASSUME UNCHANGED pathVars
      PROVE  PathRecords'
  BY <1>14 DEF PathRecords, pathVars, historyVars
<1>15. ASSUME RestartServer
      PROVE  PathRecords'
  BY <1>4, <1>15 DEF PathRecords, RestartServer
<1> QED
  BY <1>1, <1>2, <1>3, <1>6, <1>7, <1>8, <1>9, <1>10, <1>11, <1>12, <1>13,
     <1>14, <1>15 DEF PathNext

LEMMA CallsAreKeptSound ==
  ASSUME PathInv, PathNext
  PROVE  CallsAreSound'
<1> USE DEF PathInv
<1>1. nextId \in Nat /\ nextId' \in Nat /\ (nextId' = nextId \/ nextId' = nextId + 1)
  <2>1. nextId \in Nat
    BY PathAssumption DEF PathRecords
  <2>2. nextId' = nextId \/ nextId' = nextId + 1
    BY DEF PathNext, ReserveCoins, GiveUp, SendExecute, RefuseExecution,
           TakeOver, SignTransaction, SignerFails, Submit, SubmissionFails,
           Executed, Count, Expire, Commit, RestartServer, pathVars
  <2> QED
    BY <2>1, <2>2
<1>2. DOMAIN spent \subseteq DOMAIN spent'
  <2>1. spent' = spent \/ \E id, gas : Commit(id, gas)
    BY DEF PathNext, ReserveCoins, GiveUp, SendExecute, RefuseExecution,
           TakeOver, SignTransaction, SignerFails, Submit, SubmissionFails,
           Executed, Count, Expire, RestartServer, pathVars
  <2>2. ASSUME NEW id, NEW gas, Commit(id, gas)
        PROVE  DOMAIN spent \subseteq DOMAIN spent'
    BY <2>2 DEF Commit
  <2> QED
    BY <2>1, <2>2
<1> DEFINE Sound(c) ==
      c.pc # "idle" =>
        /\ c.client \in Requests
        /\ c.id \in 1 .. nextId' - 1
        /\ c.pc = "count" => c.id \in DOMAIN spent'
<1>3. \A t \in Tasks : Sound(task[t])
  BY <1>1, <1>2 DEF CallsAreSound
<1>4. Sound(NoTask)
  BY DEF NoTask
<1>5. CASE \E t \in Tasks : EndTask(t)
  BY <1>3, <1>4, <1>5 DEF PathRecords, EndTask, CallsAreSound
<1>6. CASE RestartServer
  BY <1>4, <1>6 DEF RestartServer, CallsAreSound
<1>7. ASSUME NEW t \in Tasks, NEW r \in Requests, SendExecute(t, r)
      PROVE  CallsAreSound'
  <2> DEFINE c == [pc |-> "check", id |-> held[r], client |-> r, retries |-> 0]
  <2>1. task' = [task EXCEPT ![t] = c] /\ nextId' = nextId
    BY <1>7 DEF SendExecute
  <2>2. held[r] \in 1 .. nextId - 1
    BY <1>7 DEF SendExecute, PathRecords
  <2>3. Sound(c)
    BY <2>1, <2>2
  <2>4. \A u \in Tasks : task'[u] = IF u = t THEN c ELSE task[u]
    BY <2>1 DEF PathRecords
  <2> HIDE DEF c, Sound
  <2>5. \A u \in Tasks : Sound(task'[u])
    BY <1>3, <2>3, <2>4
  <2> QED
    BY <2>5 DEF CallsAreSound, Sound
<1>8. ASSUME NEW t \in Tasks, task[t].pc # "idle",
             \A u \in Tasks :
               u # t => task'[u] = task[u],
             /\ task'[t].id = task[t].id
             /\ task'[t].client = task[t].client
             /\ task'[t].pc = "count" => task[t].id \in DOMAIN spent
      PROVE  CallsAreSound'
  BY <1>1, <1>2, <1>3, <1>8 DEF CallsAreSound
<1>9. ASSUME NEW t \in Tasks,
             NEW pc \in {"sign", "submit", "await", "count"},
             NEW n \in Nat,
             \/ task' = [task EXCEPT ![t].pc = pc]
             \/ task' = [task EXCEPT ![t].pc = pc, ![t].retries = n]
      PROVE  /\ \A u \in Tasks : u # t => task'[u] = task[u]
             /\ task'[t].id = task[t].id
             /\ task'[t].client = task[t].client
             /\ task'[t].pc = pc
  BY <1>9 DEF PathRecords, Calls
<1>10. ASSUME NEW t \in Tasks, RefuseExecution(t) \/ TakeOver(t)
       PROVE  CallsAreSound'
  <2>1. CASE EndTask(t)
    BY <2>1, <1>5
  <2>2. CASE task' = [task EXCEPT ![t].pc = "sign"]
    BY <2>2, <1>8, <1>9, <1>10 DEF RefuseExecution, TakeOver
  <2> QED
    BY <1>10, <2>1, <2>2 DEF RefuseExecution, TakeOver
<1>11. ASSUME NEW t \in Tasks, SignTransaction(t) \/ Submit(t)
       PROVE  CallsAreSound'
  <2>1. \/ task' = [task EXCEPT ![t].pc = "submit", ![t].retries = 0]
        \/ task' = [task EXCEPT ![t].pc = "await"]
    BY <1>11 DEF SignTransaction, Submit
  <2>2. /\ \A u \in Tasks : u # t => task'[u] = task[u]
        /\ task'[t].id = task[t].id
        /\ task'[t].client = task[t].client
        /\ task'[t].pc # "count"
    BY <2>1, <1>9
  <2> QED
    BY <2>2, <1>8, <1>11 DEF SignTransaction, Submit
<1>12. ASSUME NEW t \in Tasks, SignerFails(t) \/ SubmissionFails(t)
       PROVE  CallsAreSound'
  <2>1. task[t].retries + 1 \in Nat /\ task[t].pc # "idle"
    BY <1>12 DEF PathRecords, Calls, SignerFails, SubmissionFails
  <2>2. CASE EndTask(t)
    BY <2>2, <1>5
  <2>3. CASE Retry(t, "sign") \/ Retry(t, "submit")
    <3>1. PICK pc \in {"sign", "submit"}, n \in Nat :
            task' = [task EXCEPT ![t].pc = pc, ![t].retries = n]
      BY <2>1, <2>3 DEF Retry
    <3> QED
      BY <2>1, <3>1, <1>8, <1>9
  <2> QED
    BY <1>12, <2>2, <2>3 DEF SignerFails, SubmissionFails
<1>13. ASSUME NEW t \in Tasks, Executed(t)
       PROVE  CallsAreSound'
  BY <1>8, <1>9, <1>13 DEF Executed
<1>14. ASSUME task' = task
       PROVE  CallsAreSound'
  BY <1>3, <1>14 DEF CallsAreSound
<1> QED
  BY <1>5, <1>6, <1>7, <1>10, <1>11, <1>12, <1>13, <1>14
     DEF PathNext, ReserveCoins, GiveUp, Count, Expire, Commit, pathVars

(* Only TakeOver lets a call sign, and it takes the reservation away; only
   signing ends that, and it is counted. *)
LEMMA TakenOnceIsKept ==
  ASSUME PathInv, PathNext
  PROVE  TakenOnce'
<1> USE DEF PathInv
<1> DEFINE Signs(t) == task[t].pc = "sign"
<1>1. /\ nextId \in Nat
      /\ live \cup expired \subseteq 1 .. nextId - 1
      /\ \A t \in Tasks : Signs(t) => task[t].id \in 1 .. nextId - 1
      /\ \A t \in Tasks : Signs(t) => task[t].id \in Ids
  BY PathAssumption DEF PathRecords, CallsAreSound, Ids
<1>2. ASSUME NEW r \in Requests, ReserveCoins(r)
      PROVE  TakenOnce'
  <2>1. /\ nextId' = nextId + 1 /\ live' = live \cup {nextId}
        /\ UNCHANGED <<task, signed, expired>>
    BY <1>2 DEF ReserveCoins, historyVars
  <2>2. nextId \notin live \cup expired
    BY <1>1
  <2>3. \A id \in Ids : id < nextId => id < nextId' /\ id # nextId
    BY <1>1, <2>1 DEF Ids
  <2>4. \A t \in Tasks : Signs(t) => task[t].id # nextId
    BY <1>1
  <2> QED
    BY <2>1, <2>2, <2>3, <2>4 DEF TakenOnce
<1>3. ASSUME NEW id \in 1 .. nextId - 1, Expire(id)
      PROVE  TakenOnce'
  BY <1>1, <1>3 DEF Expire, TakenOnce
<1>4. ASSUME UNCHANGED <<nextId, signed, expired>>, live' \subseteq live,
             \A t \in Tasks : task'[t].pc = "sign" =>
               Signs(t) /\ task'[t].id = task[t].id
      PROVE  TakenOnce'
  BY <1>4 DEF TakenOnce
<1>5. ASSUME NEW t \in Tasks, EndTask(t)
      PROVE  \A u \in Tasks : task'[u].pc = "sign" =>
               Signs(u) /\ task'[u].id = task[u].id
  BY <1>5 DEF EndTask, NoTask, PathRecords
<1>6. ASSUME NEW t \in Tasks, TakeOver(t)
      PROVE  TakenOnce'
  <2>1. CASE EndTask(t)
    BY <2>1, <1>4, <1>5, <1>6 DEF TakeOver, historyVars
  <2>2. CASE ~ EndTask(t)
    <3>1. /\ task[t].id \in live /\ live' = live \ {task[t].id}
          /\ task' = [task EXCEPT ![t].pc = "sign"]
          /\ UNCHANGED <<nextId, signed, expired>>
      BY <1>6, <2>2 DEF TakeOver, historyVars
    <3>2. \A u \in Tasks :
            /\ task'[u].id = task[u].id
            /\ task'[u].pc = IF u = t THEN "sign" ELSE task[u].pc
      BY <3>1 DEF PathRecords, Calls
    <3>3. signed[task[t].id] = 0
      BY <1>1, <3>1, PathAssumption DEF TakenOnce, PathRecords, Ids
    <3>4. \A u \in Tasks : Signs(u) => task[u].id # task[t].id
      BY <3>1 DEF TakenOnce
    <3> QED
      BY <3>1, <3>2, <3>3, <3>4 DEF TakenOnce
  <2> QED
    BY <2>1, <2>2
<1>7. ASSUME NEW t \in Tasks, SignTransaction(t)
      PROVE  TakenOnce'
  <2>1. /\ Signs(t) /\ UNCHANGED <<nextId, live, expired>>
        /\ task' = [task EXCEPT ![t].pc = "submit", ![t].retries = 0]
        /\ signed' = [signed EXCEPT ![task[t].id] = signed[task[t].id] + 1]
    BY <1>7 DEF SignTransaction
  <2>2. \A u \in Tasks :
          /\ task'[u].id = task[u].id
          /\ task'[u].pc = IF u = t THEN "submit" ELSE task[u].pc
    BY <2>1 DEF PathRecords, Calls
  <2>3. \A id \in Ids : signed'[id] = IF id = task[t].id THEN 1 ELSE signed[id]
    BY <1>1, <2>1 DEF PathRecords, TakenOnce
  <2>4. \A u \in Tasks : Signs(u) /\ u # t => task[u].id # task[t].id
    BY <2>1 DEF TakenOnce
  <2>5. task[t].id < nextId /\ task[t].id \notin live \cup expired
    BY <1>1, <2>1 DEF TakenOnce
  <2>6. \A u \in Tasks : task'[u].pc = "sign" =>
          /\ Signs(u) /\ task'[u].id = task[u].id
          /\ signed'[task[u].id] = 0
    BY <1>1, <2>2, <2>3, <2>4 DEF TakenOnce
  <2>7. \A id \in Ids :
          /\ signed'[id] \in {0, 1}
          /\ signed'[id] = 1 => id < nextId /\ id \notin live \cup expired
    BY <2>3, <2>5 DEF TakenOnce
  <2>8. \A u, v \in Tasks :
          task'[u].pc = "sign" /\ task'[v].pc = "sign" /\ task'[v].id = task'[u].id
          => v = u
    BY <2>6 DEF TakenOnce
  <2>9. \A u \in Tasks : task'[u].pc = "sign" =>
          task'[u].id \notin live' \cup expired' /\ signed'[task'[u].id] = 0
    BY <2>1, <2>6 DEF TakenOnce
  <2>10. live' \cap expired' = {} /\ nextId' = nextId
    BY <2>1 DEF TakenOnce
  <2> HIDE DEF Signs
  <2> QED
    BY <2>1, <2>7, <2>8, <2>9, <2>10 DEF TakenOnce
<1>8. ASSUME NEW t \in Tasks, NEW r \in Requests, SendExecute(t, r)
      PROVE  TakenOnce'
  <2>1. \A u \in Tasks : task'[u].pc = "sign" =>
          Signs(u) /\ task'[u].id = task[u].id
    BY <1>8 DEF SendExecute, PathRecords
  <2> QED
    BY <2>1, <1>4, <1>8 DEF SendExecute, historyVars
<1>9. ASSUME NEW t \in Tasks, SignerFails(t) \/ SubmissionFails(t)
      PROVE  TakenOnce'
  <2>1. CASE EndTask(t)
    BY <2>1, <1>4, <1>5, <1>9 DEF SignerFails, SubmissionFails, historyVars
  <2>2. CASE ~ EndTask(t)
    <3>1. \/ Signs(t) /\ task' = [task EXCEPT ![t].pc = "sign",
                                             ![t].retries = task[t].retries + 1]
          \/ task' = [task EXCEPT ![t].pc = "submit",
                                  ![t].retries = task[t].retries + 1]
      BY <1>9, <2>2 DEF SignerFails, SubmissionFails, Retry
    <3>2. \A u \in Tasks : task'[u].pc = "sign" =>
            Signs(u) /\ task'[u].id = task[u].id
      BY <3>1 DEF PathRecords, Calls
    <3> QED
      BY <3>2, <1>4, <1>9 DEF SignerFails, SubmissionFails, historyVars
  <2> QED
    BY <2>1, <2>2
<1>10. ASSUME NEW t \in Tasks, Submit(t) \/ Executed(t)
       PROVE  TakenOnce'
  <2>1. \/ task' = [task EXCEPT ![t].pc = "await"]
        \/ task' = [task EXCEPT ![t].pc = "count"]
    BY <1>10 DEF Submit, Executed
  <2>2. \A u \in Tasks : task'[u].pc = "sign" =>
          Signs(u) /\ task'[u].id = task[u].id
    BY <2>1 DEF PathRecords, Calls
  <2> QED
    BY <2>2, <1>4, <1>10 DEF Submit, Executed, historyVars
<1>11. ASSUME NEW t \in Tasks, RefuseExecution(t) \/ Count(t)
       PROVE  TakenOnce'
  BY <1>4, <1>5, <1>11 DEF RefuseExecution, Count, historyVars
<1>12. ASSUME RestartServer
       PROVE  TakenOnce'
  BY <1>4, <1>12 DEF RestartServer, NoTask
<1>13. ASSUME UNCHANGED <<nextId, signed, expired, live, task>>
       PROVE  TakenOnce'
  BY <1>4, <1>13
<1> QED
  BY <1>2, <1>3, <1>6, <1>7, <1>8, <1>9, <1>10, <1>11, <1>12, <1>13
     DEF PathNext, GiveUp, Commit, pathVars, historyVars

-----------------------------------------------------------------------------
LEMMA PathIsInductive ==
  ASSUME CapInv, PathInv, [PathNext]_allVars
  PROVE  CapInv' /\ PathInv'
<1>1. CASE PathNext
  <2>1. PathInv'
    BY <1>1, RecordsAreKept, CallsAreKeptSound, TakenOnceIsKept DEF PathInv
  <2>2. CASE CapStep
    BY <2>1, <2>2, CapStepKeepsBound
  <2>3. CASE UNCHANGED vars
    BY <2>1, <2>3
       DEF vars, CapInv, Records, OvershootIsBounded, InFlight
  <2> QED
    BY <1>1, <2>2, <2>3, PathStepIsCapStep
<1>2. CASE UNCHANGED allVars
  BY <1>2
     DEF allVars, vars, pathVars, historyVars, CapInv, Records,
         OvershootIsBounded, InFlight, PathInv, PathRecords, CallsAreSound,
         TakenOnce
<1> QED
  BY <1>1, <1>2

(* For any number of clients and calls, the counted usage passes the cap by no
   more than the requests in flight could spend (gas_usage_cap.rs:29-44). *)
THEOREM OvershootStaysBounded == PathSpec => []OvershootIsBounded
<1>1. PathInit => CapInv /\ PathInv
  BY InitHolds
<1>2. CapInv /\ PathInv /\ [PathNext]_allVars => CapInv' /\ PathInv'
  BY PathIsInductive
<1>3. CapInv => OvershootIsBounded
  BY DEF CapInv
<1> QED
  BY <1>1, <1>2, <1>3, PTL DEF PathSpec

(* However many calls of execute_tx name one reservation, the sponsor signs for
   it at most once, and never after it expired (gas_station_core.rs:123-142). *)
THEOREM SponsorNeverSignsTwice == PathSpec => []SponsorSignsOnce
<1>1. PathInit => CapInv /\ PathInv
  BY InitHolds
<1>2. CapInv /\ PathInv /\ [PathNext]_allVars => CapInv' /\ PathInv'
  BY PathIsInductive
<1>3. PathInv => SponsorSignsOnce
  BY DEF PathInv, TakenOnce, SponsorSignsOnce
<1> QED
  BY <1>1, <1>2, <1>3, PTL DEF PathSpec
-----------------------------------------------------------------------------
(* TypeOK of GasUsageCap, and no request has read a later date than today's. *)
CapTyped ==
  /\ TypeOK
  /\ \A r \in Requests : request[r].today <= day

LEMMA CapStepsAreTyped ==
  ASSUME CapTyped, CapStep
  PROVE  CapTyped'
<1> USE DEF CapTyped, TypeOK
<1>1. day \in Nat /\ MaxDay \in Nat /\ MaxExecuted \in Nat /\ MaxRestarts \in Nat
  BY CapAssumption
<1>2. ASSUME NEW r \in Requests, BeginCheck(r)
      PROVE  CapTyped'
  BY <1>1, <1>2 DEF BeginCheck, Begin
<1>3. ASSUME NEW r \in Requests, BeginUpdate(r)
      PROVE  CapTyped'
  BY <1>1, <1>3 DEF BeginUpdate, Begin
<1>4. ASSUME NEW r \in Requests, CompareDate(r)
      PROVE  CapTyped'
  BY <1>1, <1>4 DEF CompareDate
<1>5. ASSUME NEW r \in Requests, ResetDate(r)
      PROVE  CapTyped'
  BY <1>1, <1>5 DEF ResetDate
<1>6. ASSUME NEW r \in Requests, CheckUsage(r)
      PROVE  CapTyped'
  <2>1. PICK rec \in {Idle, [Idle EXCEPT !.pc = "admitted"]} :
          request' = [request EXCEPT ![r] = rec]
    BY <1>6 DEF CheckUsage
  <2>2. rec.today = 0 /\ rec \in [pc : {"idle", "admitted"},
                                  calls : {"check_usage"}, today : {0}]
    BY <2>1 DEF Idle
  <2> QED
    BY <1>1, <1>6, <2>1, <2>2 DEF CheckUsage
<1>7. ASSUME NEW r \in Requests, Abandon(r)
      PROVE  CapTyped'
  BY <1>1, <1>7 DEF Abandon, Idle
<1>8. ASSUME NEW r \in Requests, NEW gas \in NetGas, UpdateUsage(r, gas)
      PROVE  CapTyped'
  BY <1>1, <1>8, MaxGasBounds DEF UpdateUsage, Idle
<1>9. ASSUME NextDay
      PROVE  CapTyped'
  BY <1>1, <1>9 DEF NextDay
<1>10. ASSUME NEW holding \in SUBSET Requests, Restart(holding)
       PROVE  CapTyped'
  BY <1>1, <1>10 DEF Restart, Idle
<1> QED
  BY <1>2, <1>3, <1>4, <1>5, <1>6, <1>7, <1>8, <1>9, <1>10 DEF CapStep

(* The rest of PathTypeOK, as far as PathInv does not say it. *)
RestTyped ==
  /\ sent \cup forsaken \subseteq 1 .. nextId - 1
  /\ \A t \in Tasks : task[t].retries <= MaxAttempts
  /\ DOMAIN spent \subseteq sent
  /\ counted \in [Ids -> Nat]

LEMMA PathTypesHold ==
  ASSUME PathInv, CapTyped, RestTyped
  PROVE  PathTypeOK
<1>1. 1 .. nextId - 1 \subseteq Ids
  BY PathAssumption DEF PathInv, PathRecords, Ids
<1>2. held \in [Requests -> Ids \cup {None}]
  BY <1>1 DEF PathInv, PathRecords
<1>3. task \in [Tasks ->
         [pc : {"idle", "check", "sign", "submit", "await", "count"},
          id : Ids \cup {None}, client : Requests \cup {None},
          retries : 0 .. MaxAttempts]]
  BY PathAssumption DEF PathInv, PathRecords, Calls, RestTyped
<1> QED
  BY <1>2, <1>3
     DEF PathInv, PathRecords, RestTyped, PathTypeOK, CapTyped

LEMMA RestIsTyped ==
  ASSUME PathInv, RestTyped, PathNext
  PROVE  RestTyped'
<1> USE DEF PathInv, RestTyped
<1>1. /\ task \in [Tasks -> Calls] /\ nextId \in Nat /\ None \notin Nat
      /\ MaxAttempts \in Nat
      /\ \A t \in Tasks : task[t].pc # "idle" => task[t].id \in 1 .. nextId - 1
  BY PathAssumption DEF PathRecords, CallsAreSound
<1>2. ASSUME NEW r \in Requests, ReserveCoins(r) \/ GiveUp(r)
      PROVE  RestTyped'
  BY <1>1, <1>2 DEF ReserveCoins, GiveUp, historyVars
<1>3. ASSUME NEW t \in Tasks, EndTask(t)
      PROVE  \A u \in Tasks : task'[u].retries <= MaxAttempts
  BY <1>1, <1>3 DEF EndTask, NoTask
<1>4. ASSUME NEW t \in Tasks,
             NEW pc \in {"sign", "submit", "await", "count"},
             \/ task' = [task EXCEPT ![t].pc = pc]
             \/ task' = [task EXCEPT ![t].pc = pc, ![t].retries = 0]
             \/ MayRetry(t) /\ Retry(t, pc)
      PROVE  \A u \in Tasks : task'[u].retries <= MaxAttempts
  BY <1>1, <1>4 DEF MayRetry, Retry, Calls
<1>5. ASSUME NEW t \in Tasks, NEW r \in Requests, SendExecute(t, r)
      PROVE  RestTyped'
  BY <1>1, <1>5 DEF SendExecute, historyVars
<1>6. ASSUME NEW t \in Tasks,
             \/ RefuseExecution(t) \/ TakeOver(t) \/ SignTransaction(t)
             \/ SignerFails(t)
      PROVE  RestTyped'
  <2>1. \A u \in Tasks : task'[u].retries <= MaxAttempts
    BY <1>3, <1>4, <1>6
       DEF RefuseExecution, TakeOver, SignTransaction, SignerFails
  <2> QED
    BY <1>6, <2>1
       DEF RefuseExecution, TakeOver, SignTransaction, SignerFails, historyVars
<1>7. ASSUME NEW t \in Tasks, Submit(t)
      PROVE  RestTyped'
  <2>1. \A u \in Tasks : task'[u].retries <= MaxAttempts
    BY <1>4, <1>7 DEF Submit
  <2> QED
    BY <1>1, <1>7, <2>1 DEF Submit, historyVars
<1>8. ASSUME NEW t \in Tasks, SubmissionFails(t)
      PROVE  RestTyped'
  <2>1. \A u \in Tasks : task'[u].retries <= MaxAttempts
    BY <1>3, <1>4, <1>8 DEF SubmissionFails
  <2> QED
    BY <1>1, <1>8, <2>1 DEF SubmissionFails
<1>9. ASSUME NEW t \in Tasks, Executed(t)
      PROVE  RestTyped'
  <2>1. \A u \in Tasks : task'[u].retries <= MaxAttempts
    BY <1>4, <1>9 DEF Executed
  <2> QED
    BY <1>9, <2>1 DEF Executed, historyVars
<1>10. ASSUME NEW t \in Tasks, Count(t)
       PROVE  RestTyped'
  <2>1. \A u \in Tasks : task'[u].retries <= MaxAttempts
    BY <1>3, <1>10 DEF Count
  <2>2. counted' \in [Ids -> Nat]
    <3>1. \A n \in Nat : n + 1 \in Nat
      OBVIOUS
    <3> QED
      BY <1>10, <3>1 DEF Count
  <2> QED
    BY <1>10, <2>1, <2>2 DEF Count
<1>11. ASSUME NEW id \in 1 .. nextId - 1, Expire(id)
       PROVE  RestTyped'
  BY <1>11 DEF Expire
<1>12. ASSUME NEW id \in 1 .. nextId - 1, NEW gas \in NetGas, Commit(id, gas)
       PROVE  RestTyped'
  <2>1. DOMAIN spent' = DOMAIN spent \cup {id} /\ id \in sent
    BY <1>12 DEF Commit
  <2> QED
    BY <1>12, <2>1 DEF Commit, historyVars
<1>13. ASSUME UNCHANGED pathVars
       PROVE  RestTyped'
  BY <1>13 DEF pathVars, historyVars
<1>14. ASSUME RestartServer
       PROVE  RestTyped'
  <2>1. {task[t].id : t \in Sending} \subseteq sent
    BY DEF Sending
  <2> QED
    BY <1>1, <1>14, <2>1 DEF RestartServer, NoTask
<1> QED
  BY <1>2, <1>5, <1>6, <1>7, <1>8, <1>9, <1>10, <1>11, <1>12, <1>13, <1>14
     DEF PathNext
-----------------------------------------------------------------------------
(* A call that has taken its reservation over. *)
Taker(t) == task[t].pc \in {"sign", "submit", "await", "count"}

(* It is the only one for this reservation, which is neither counted nor given
   up while the call goes on. *)
TakersHold ==
  /\ \A t \in Tasks :
       /\ task[t].pc = "idle" => task[t].id = None
       /\ Taker(t) => /\ task[t].id \notin live \cup expired \cup forsaken
                      /\ counted[task[t].id] = 0
       /\ task[t].pc \in {"submit", "await", "count"} => signed[task[t].id] = 1
       /\ task[t].pc \in {"await", "count"} => task[t].id \in sent
  /\ \A t, u \in Tasks : Taker(t) /\ Taker(u) /\ task[t].id = task[u].id => t = u

(* What was sent is counted, given up, or in the hands of its taker. *)
SentIsSettled ==
  /\ forsaken \subseteq sent
  /\ \A id \in sent :
       /\ signed[id] = 1
       /\ \/ counted[id] = 1
          \/ id \in forsaken
          \/ \E t \in Tasks : Taker(t) /\ task[t].id = id
  /\ \A id \in Ids :
       /\ counted[id] \in {0, 1}
       /\ counted[id] = 1 => id \in DOMAIN spent \ forsaken

LEMMA SentIsKeptSettled ==
  ASSUME PathInv, RestTyped, TakersHold, SentIsSettled, PathNext
  PROVE  TakersHold' /\ SentIsSettled'
<1> DEFINE Goal == TakersHold' /\ SentIsSettled'
<1>1. /\ task \in [Tasks -> Calls] /\ nextId \in Nat /\ None \notin Nat
      /\ \A t \in Tasks : task[t].pc # "idle" => task[t].id \in 1 .. nextId - 1
      /\ 1 .. nextId - 1 \subseteq Ids
      /\ live \cup expired \cup sent \cup forsaken \subseteq 1 .. nextId - 1
      /\ DOMAIN spent \subseteq sent
      /\ signed \in [Ids -> Nat] /\ counted \in [Ids -> Nat]
  BY PathAssumption DEF PathInv, PathRecords, CallsAreSound, RestTyped, Ids
<1>2. /\ \A t \in Tasks : task[t].pc = "sign" => signed[task[t].id] = 0
      /\ \A id \in Ids : signed[id] = 1 => id \notin live
  BY DEF PathInv, TakenOnce
(* No taker changes and nothing is sent, committed, counted or given up. *)
<1>3. ASSUME \A t \in Tasks :
               /\ task'[t].pc = "idle" => task'[t].id = None
               /\ Taker(t)' <=> Taker(t)
               /\ Taker(t) => task'[t].id = task[t].id /\ task'[t].pc = task[t].pc,
             live' \cup expired' \subseteq live \cup expired \cup {nextId},
             UNCHANGED <<sent, spent, signed, counted, forsaken>>
      PROVE  Goal
  <2>1. \A t \in Tasks : Taker(t) => task[t].id # nextId
    BY <1>1 DEF Taker
  <2>2. TakersHold'
    BY <1>3, <2>1 DEF TakersHold, Taker
  <2>3. SentIsSettled'
    BY <1>3 DEF SentIsSettled
  <2> QED
    BY <2>2, <2>3
<1>4. ASSUME NEW r \in Requests, ReserveCoins(r)
      PROVE  Goal
  BY <1>3, <1>4 DEF ReserveCoins, historyVars, TakersHold, Taker
<1>5. ASSUME task' = task, UNCHANGED <<live, nextId, sent, spent, historyVars>>
      PROVE  Goal
  BY <1>3, <1>5 DEF historyVars, TakersHold, Taker
<1>6. ASSUME NEW id \in 1 .. nextId - 1, Expire(id)
      PROVE  Goal
  BY <1>3, <1>6 DEF Expire, TakersHold, Taker
<1>7. ASSUME NEW t \in Tasks, NEW r \in Requests, SendExecute(t, r)
      PROVE  Goal
  <2>1. \A u \in Tasks :
          /\ task'[u].pc = "idle" => task'[u].id = None
          /\ Taker(u)' <=> Taker(u)
          /\ Taker(u) => task'[u].id = task[u].id /\ task'[u].pc = task[u].pc
    BY <1>1, <1>7 DEF SendExecute, TakersHold, Taker
  <2> QED
    BY <1>3, <1>7, <2>1 DEF SendExecute, historyVars
<1>8. ASSUME NEW t \in Tasks, EndTask(t), ~ Taker(t)
      PROVE  \A u \in Tasks :
               /\ task'[u].pc = "idle" => task'[u].id = None
               /\ Taker(u)' <=> Taker(u)
               /\ Taker(u) => task'[u].id = task[u].id /\ task'[u].pc = task[u].pc
  BY <1>1, <1>8 DEF EndTask, NoTask, TakersHold, Taker
<1>9. ASSUME NEW t \in Tasks, RefuseExecution(t)
      PROVE  Goal
  <2>1. EndTask(t) /\ ~ Taker(t)
    BY <1>9 DEF RefuseExecution, Taker
  <2> QED
    BY <1>3, <1>8, <1>9, <2>1 DEF RefuseExecution, historyVars
(* Other calls keep what they have. *)
<1>10. ASSUME NEW t \in Tasks, EndTask(t)
       PROVE  \A u \in Tasks :
                /\ task'[u].pc = "idle" => task'[u].id = None
                /\ task'[u] = IF u = t THEN NoTask ELSE task[u]
                /\ Taker(u)' <=> Taker(u) /\ u # t
  BY <1>1, <1>10 DEF EndTask, NoTask, TakersHold, Taker
<1>11. ASSUME NEW t \in Tasks,
              NEW pc \in {"sign", "submit", "await", "count"},
              \/ task' = [task EXCEPT ![t].pc = pc]
              \/ \E n \in Nat : task' = [task EXCEPT ![t].pc = pc, ![t].retries = n],
              task[t].pc # "idle"
       PROVE  \A u \in Tasks :
                /\ task'[u].pc = IF u = t THEN pc ELSE task[u].pc
                /\ task'[u].id = task[u].id
                /\ task'[u].pc = "idle" => task'[u].id = None
                /\ Taker(u)' <=> Taker(u) \/ u = t
  BY <1>1, <1>11 DEF TakersHold, Taker, Calls
<1>12. ASSUME NEW t \in Tasks, TakeOver(t)
       PROVE  Goal
  <2>1. CASE EndTask(t)
    <3>1. ~ Taker(t)
      BY <1>12 DEF TakeOver, Taker
    <3> QED
      BY <1>3, <1>8, <1>12, <2>1, <3>1 DEF TakeOver, historyVars
  <2>2. CASE ~ EndTask(t)
    <3>1. /\ task[t].id \in live /\ task[t].pc = "check"
          /\ live' = live \ {task[t].id}
          /\ task' = [task EXCEPT ![t].pc = "sign"]
          /\ UNCHANGED <<sent, spent, signed, counted, expired, forsaken>>
      BY <1>12, <2>2 DEF TakeOver, historyVars
    <3>2. \A u \in Tasks :
            /\ task'[u].pc = IF u = t THEN "sign" ELSE task[u].pc
            /\ task'[u].id = task[u].id
            /\ task'[u].pc = "idle" => task'[u].id = None
            /\ Taker(u)' <=> Taker(u) \/ u = t
      BY <1>11, <3>1
    <3>3. /\ task[t].id \in Ids /\ task[t].id \notin expired
          /\ task[t].id \notin sent \cup forsaken
          /\ counted[task[t].id] = 0
      <4>1. task[t].id \in Ids /\ task[t].id \notin expired
        BY <1>1, <3>1 DEF PathInv, TakenOnce
      <4>2. task[t].id \notin sent
        BY <1>2, <3>1, <4>1 DEF SentIsSettled
      <4> QED
        BY <1>1, <4>1, <4>2 DEF SentIsSettled
    <3>4. \A u \in Tasks : Taker(u) => task[u].id # task[t].id
      BY <3>1 DEF TakersHold
    <3>5. TakersHold'
      BY <3>1, <3>2, <3>3, <3>4 DEF TakersHold
    <3>6. SentIsSettled'
      BY <3>1, <3>2 DEF SentIsSettled
    <3> QED
      BY <3>5, <3>6
  <2> QED
    BY <2>1, <2>2
<1>13. ASSUME NEW t \in Tasks, SignTransaction(t)
       PROVE  Goal
  <2>1. /\ task[t].pc = "sign" /\ Taker(t) /\ task[t].id \in Ids
        /\ task' = [task EXCEPT ![t].pc = "submit", ![t].retries = 0]
        /\ signed' = [signed EXCEPT ![task[t].id] = @ + 1]
        /\ UNCHANGED <<live, sent, spent, counted, expired, forsaken>>
    BY <1>1, <1>13 DEF SignTransaction, Taker
  <2>2. \A u \in Tasks :
          /\ task'[u].pc = IF u = t THEN "submit" ELSE task[u].pc
          /\ task'[u].id = task[u].id
          /\ task'[u].pc = "idle" => task'[u].id = None
          /\ Taker(u)' <=> Taker(u)
    BY <1>11, <2>1
  <2>3. \A id \in Ids : signed'[id] = IF id = task[t].id THEN 1 ELSE signed[id]
    BY <1>1, <1>2, <2>1
  <2>4. TakersHold'
    BY <1>1, <2>1, <2>2, <2>3 DEF TakersHold, Taker
  <2>5. SentIsSettled'
    BY <1>1, <2>1, <2>2, <2>3 DEF SentIsSettled
  <2> QED
    BY <2>4, <2>5
<1>14. ASSUME NEW t \in Tasks, SignerFails(t)
       PROVE  Goal
  <2>1. /\ task[t].pc = "sign" /\ Taker(t) /\ task[t].retries + 1 \in Nat
        /\ UNCHANGED <<live, sent, spent, signed, counted, expired, forsaken>>
    BY <1>1, <1>14 DEF SignerFails, Taker, historyVars, Calls
  <2>2. CASE EndTask(t)
    <3>1. task[t].id \notin sent
      BY <1>2, <2>1 DEF SentIsSettled
    <3>2. \A u \in Tasks :
            /\ task'[u].pc = "idle" => task'[u].id = None
            /\ u # t => task'[u] = task[u]
            /\ Taker(u)' <=> Taker(u) /\ u # t
      BY <1>10, <2>2
    <3>3. TakersHold'
      BY <2>1, <3>2 DEF TakersHold, Taker
    <3>4. SentIsSettled'
      BY <2>1, <3>1, <3>2 DEF SentIsSettled
    <3> QED
      BY <3>3, <3>4
  <2>3. CASE Retry(t, "sign")
    <3>1. \A u \in Tasks :
            /\ task'[u].pc = IF u = t THEN "sign" ELSE task[u].pc
            /\ task'[u].id = task[u].id
            /\ task'[u].pc = "idle" => task'[u].id = None
            /\ Taker(u)' <=> Taker(u) \/ u = t
      BY <1>11, <2>1, <2>3 DEF Retry
    <3>2. \A u \in Tasks : task'[u].pc = task[u].pc
      BY <2>1, <3>1
    <3> QED
      BY <1>3, <2>1, <3>1, <3>2
  <2> QED
    BY <1>14, <2>2, <2>3 DEF SignerFails
<1>15. ASSUME NEW t \in Tasks, Submit(t)
       PROVE  Goal
  <2>1. /\ task[t].pc = "submit" /\ Taker(t) /\ task[t].id \in Ids
        /\ task' = [task EXCEPT ![t].pc = "await"]
        /\ sent' = sent \cup {task[t].id}
        /\ UNCHANGED <<live, spent, signed, counted, expired, forsaken>>
    BY <1>1, <1>15 DEF Submit, Taker, historyVars
  <2>2. \A u \in Tasks :
          /\ task'[u].pc = IF u = t THEN "await" ELSE task[u].pc
          /\ task'[u].id = task[u].id
          /\ task'[u].pc = "idle" => task'[u].id = None
          /\ Taker(u)' <=> Taker(u)
    BY <1>11, <2>1
  <2>3. TakersHold'
    BY <2>1, <2>2 DEF TakersHold, Taker
  <2>4. SentIsSettled'
    BY <2>1, <2>2 DEF SentIsSettled, TakersHold
  <2> QED
    BY <2>3, <2>4
<1>16. ASSUME NEW t \in Tasks, SubmissionFails(t)
       PROVE  Goal
  <2>1. /\ task[t].pc = "await" /\ Taker(t) /\ task[t].retries + 1 \in Nat
        /\ task[t].id \in sent
        /\ UNCHANGED <<live, sent, spent, signed, counted, expired>>
    BY <1>1, <1>16 DEF SubmissionFails, Taker, Calls, TakersHold
  <2>2. CASE EndTask(t) /\ forsaken' = forsaken \cup {task[t].id}
    <3>1. \A u \in Tasks :
            /\ task'[u].pc = "idle" => task'[u].id = None
            /\ u # t => task'[u] = task[u]
            /\ Taker(u)' <=> Taker(u) /\ u # t
      BY <1>10, <2>2
    <3>2. \A u \in Tasks : Taker(u) /\ u # t => task[u].id # task[t].id
      BY <2>1 DEF TakersHold
    <3>3. TakersHold'
      BY <2>1, <2>2, <3>1, <3>2 DEF TakersHold, Taker
    <3>4. counted[task[t].id] = 0
      BY <2>1 DEF TakersHold
    <3>5. SentIsSettled'
      BY <2>1, <2>2, <3>1, <3>4 DEF SentIsSettled
    <3> QED
      BY <3>3, <3>5
  <2>3. CASE Retry(t, "submit") /\ UNCHANGED forsaken
    <3>1. \A u \in Tasks :
            /\ task'[u].pc = IF u = t THEN "submit" ELSE task[u].pc
            /\ task'[u].id = task[u].id
            /\ task'[u].pc = "idle" => task'[u].id = None
            /\ Taker(u)' <=> Taker(u)
      BY <1>11, <2>1, <2>3 DEF Retry
    <3>2. TakersHold'
      BY <2>1, <2>3, <3>1 DEF TakersHold, Taker
    <3>3. SentIsSettled'
      BY <2>1, <2>3, <3>1 DEF SentIsSettled
    <3> QED
      BY <3>2, <3>3
  <2> QED
    BY <1>16, <2>2, <2>3 DEF SubmissionFails
<1>17. ASSUME NEW t \in Tasks, Executed(t)
       PROVE  Goal
  <2>1. /\ task[t].pc = "await" /\ Taker(t) /\ task[t].id \in sent
        /\ task' = [task EXCEPT ![t].pc = "count"]
        /\ UNCHANGED <<live, sent, spent, signed, counted, expired, forsaken>>
    BY <1>17 DEF Executed, Taker, historyVars, TakersHold
  <2>2. \A u \in Tasks :
          /\ task'[u].pc = IF u = t THEN "count" ELSE task[u].pc
          /\ task'[u].id = task[u].id
          /\ task'[u].pc = "idle" => task'[u].id = None
          /\ Taker(u)' <=> Taker(u)
    BY <1>11, <2>1
  <2>3. TakersHold'
    BY <2>1, <2>2 DEF TakersHold, Taker
  <2>4. SentIsSettled'
    BY <2>1, <2>2 DEF SentIsSettled
  <2> QED
    BY <2>3, <2>4
<1>18. ASSUME NEW t \in Tasks, Count(t)
       PROVE  Goal
  <2>1. /\ task[t].pc = "count" /\ Taker(t) /\ task[t].id \in Ids /\ EndTask(t)
        /\ task[t].id \in DOMAIN spent \ forsaken
        /\ counted' = [counted EXCEPT ![task[t].id] = @ + 1]
        /\ counted[task[t].id] = 0
        /\ UNCHANGED <<live, sent, spent, signed, expired, forsaken>>
    BY <1>1, <1>18 DEF Count, Taker, TakersHold, PathInv, CallsAreSound
  <2>2. \A u \in Tasks :
          /\ task'[u].pc = "idle" => task'[u].id = None
          /\ u # t => task'[u] = task[u]
          /\ Taker(u)' <=> Taker(u) /\ u # t
    BY <1>10, <2>1
  <2>3. \A id \in Ids : counted'[id] = IF id = task[t].id THEN 1 ELSE counted[id]
    BY <1>1, <2>1
  <2>4. \A u \in Tasks : Taker(u) /\ u # t =>
          task[u].id # task[t].id /\ task[u].id \in Ids
    BY <1>1, <2>1 DEF TakersHold, Taker
  <2>5. TakersHold'
    BY <2>1, <2>2, <2>3, <2>4 DEF TakersHold, Taker
  <2>6. SentIsSettled'
    BY <1>1, <2>1, <2>2, <2>3 DEF SentIsSettled
  <2> QED
    BY <2>5, <2>6
<1>19. ASSUME NEW id \in 1 .. nextId - 1, NEW gas \in NetGas, Commit(id, gas)
       PROVE  Goal
  <2>1. DOMAIN spent' = DOMAIN spent \cup {id}
        /\ UNCHANGED <<task, live, sent, signed, counted, expired, forsaken>>
    BY <1>19 DEF Commit, historyVars
  <2> QED
    BY <2>1 DEF TakersHold, SentIsSettled, Taker
<1>20. ASSUME RestartServer
       PROVE  Goal
  <2>1. /\ \A u \in Tasks : task'[u] = NoTask /\ ~ Taker(u)'
        /\ forsaken' = forsaken \cup {task[u].id : u \in Sending}
        /\ UNCHANGED <<live, sent, spent, signed, counted, expired>>
    BY <1>20 DEF RestartServer, Taker, NoTask
  <2>2. TakersHold'
    BY <2>1 DEF TakersHold, Taker, NoTask
  <2>3. \A u \in Sending : Taker(u)
    BY <1>1 DEF Sending, Taker, Calls, TakersHold
  <2>4. \A u \in Tasks : Taker(u) /\ task[u].id \in sent => u \in Sending
    BY DEF Sending, Taker
  <2>5. {task[u].id : u \in Sending} \subseteq sent
    BY DEF Sending
  <2>6. \A u \in Sending : counted[task[u].id] = 0
    BY <2>3 DEF TakersHold, Sending
  <2>7. SentIsSettled'
    BY <2>1, <2>4, <2>5, <2>6 DEF SentIsSettled
  <2> QED
    BY <2>2, <2>7
<1> QED
  BY <1>4, <1>5, <1>6, <1>7, <1>9, <1>12, <1>13, <1>14, <1>15, <1>16, <1>17,
     <1>18, <1>19, <1>20 DEF PathNext, GiveUp, pathVars

-----------------------------------------------------------------------------
(* A client that has a reservation is in flight, and the call that has taken a
   reservation over has it from its client, so no two such calls have one
   client. *)
HeldIsInFlight ==
  /\ \A r \in Requests : held[r] # None => r \in InFlight
  /\ \A t \in Tasks :
       Taker(t) \/ (task[t].pc = "check" /\ task[t].id \in live)
         => held[task[t].client] = task[t].id

LEMMA StaysInFlight ==
  ASSUME Records, NEW r \in Requests,
         \/ BeginCheck(r) \/ CompareDate(r) \/ ResetDate(r) \/ CheckUsage(r)
         \/ BeginUpdate(r)
  PROVE  InFlight \subseteq InFlight'
<1>1. \A q \in Requests : q # r => request'[q] = request[q]
  BY DEF Records, BeginCheck, CompareDate, ResetDate, CheckUsage, BeginUpdate, Begin
<1>2. r \in InFlight => r \in InFlight'
  BY DEF Records, InFlight, BeginCheck, CompareDate, ResetDate, CheckUsage,
         BeginUpdate, Begin
<1> QED
  BY <1>1, <1>2 DEF InFlight

LEMMA LeavesFlight ==
  ASSUME Records, NEW r \in Requests, request' = [request EXCEPT ![r] = Idle]
  PROVE  InFlight \ {r} \subseteq InFlight'
BY DEF Records, InFlight

LEMMA HeldStaysInFlight ==
  ASSUME CapInv, PathInv, TakersHold, HeldIsInFlight, PathNext
  PROVE  HeldIsInFlight'
<1>1. /\ task \in [Tasks -> Calls] /\ nextId \in Nat /\ None \notin Nat
      /\ held \in [Requests -> (1 .. nextId - 1) \cup {None}]
      /\ live \subseteq 1 .. nextId - 1 /\ Records
      /\ \A t \in Tasks : task[t].pc # "idle" =>
           task[t].id \in 1 .. nextId - 1 /\ task[t].client \in Requests
  BY PathAssumption DEF PathInv, PathRecords, CallsAreSound, CapInv
<1> DEFINE Claims(t) == Taker(t) \/ (task[t].pc = "check" /\ task[t].id \in live)
<1>2. ASSUME \A t \in Tasks : Claims(t)' =>
               /\ Claims(t)
               /\ task'[t].id = task[t].id /\ task'[t].client = task[t].client,
             held' = held, InFlight \subseteq InFlight'
      PROVE  HeldIsInFlight'
  BY <1>2 DEF HeldIsInFlight
<1>4. ASSUME NEW r \in Requests,
             \/ BeginCheck(r) \/ CompareDate(r) \/ ResetDate(r) \/ CheckUsage(r),
             UNCHANGED pathVars
      PROVE  HeldIsInFlight'
  <2>1. InFlight \subseteq InFlight'
    BY <1>1, <1>4, StaysInFlight
  <2> QED
    BY <1>2, <1>4, <2>1 DEF pathVars, Taker
<1>5. ASSUME NEW r \in Requests, ReserveCoins(r)
      PROVE  HeldIsInFlight'
  <2>1. /\ held[r] = None /\ request[r].pc = "admitted"
        /\ nextId' = nextId + 1 /\ live' = live \cup {nextId} /\ task' = task
    BY <1>5 DEF ReserveCoins
  <2>2. \A t \in Tasks : Claims(t)' => Claims(t)
    BY <1>1, <2>1 DEF Taker
  <2>3. \A t \in Tasks : Claims(t) => task[t].client # r
    BY <1>1, <2>1 DEF HeldIsInFlight, Taker
  <2>4. CASE held' = [held EXCEPT ![r] = nextId] /\ UNCHANGED vars
    <3>1. InFlight' = InFlight
      BY <2>4 DEF vars, InFlight
    <3>2. r \in InFlight
      BY <2>1 DEF InFlight
    <3>3. \A q \in Requests : held'[q] # None => q \in InFlight'
      BY <1>1, <2>4, <3>1, <3>2 DEF HeldIsInFlight
    <3>4. \A t \in Tasks : Claims(t) => held'[task[t].client] = task[t].id
      BY <1>1, <2>3, <2>4 DEF HeldIsInFlight, Taker
    <3> QED
      BY <2>1, <2>2, <3>3, <3>4 DEF HeldIsInFlight
  <2>5. CASE Abandon(r) /\ UNCHANGED held
    <3>1. InFlight \ {r} \subseteq InFlight'
      BY <1>1, <2>5, LeavesFlight DEF Abandon
    <3> QED
      BY <2>1, <2>2, <2>5, <3>1 DEF HeldIsInFlight
  <2> QED
    BY <1>5, <2>4, <2>5 DEF ReserveCoins
<1>6. ASSUME NEW r \in Requests, GiveUp(r)
      PROVE  HeldIsInFlight'
  <2>1. /\ \A t \in Tasks : task[t].client # r
        /\ held' = [held EXCEPT ![r] = None]
        /\ task' = task /\ live' = live
        /\ InFlight \ {r} \subseteq InFlight'
    BY <1>1, <1>6, LeavesFlight DEF GiveUp, Abandon
  <2>2. \A t \in Tasks : Claims(t) => held'[task[t].client] = task[t].id
    BY <1>1, <2>1 DEF HeldIsInFlight, Taker
  <2> QED
    BY <1>1, <2>1, <2>2 DEF HeldIsInFlight, Taker
<1>7. ASSUME NEW t \in Tasks, NEW r \in Requests, SendExecute(t, r)
      PROVE  HeldIsInFlight'
  <2>1. /\ held' = held /\ live' = live /\ UNCHANGED vars
        /\ \A u \in Tasks : task'[u] =
             IF u = t THEN [pc |-> "check", id |-> held[r], client |-> r, retries |-> 0]
             ELSE task[u]
    BY <1>1, <1>7 DEF SendExecute
  <2>2. InFlight' = InFlight
    BY <2>1 DEF vars, InFlight
  <2> QED
    BY <2>1, <2>2 DEF HeldIsInFlight, Taker
<1>8. ASSUME NEW t \in Tasks, EndTask(t)
      PROVE  \A u \in Tasks : Taker(u)' \/ task'[u].pc = "check" =>
               u # t /\ task'[u] = task[u]
  BY <1>1, <1>8 DEF EndTask, NoTask, Taker
<1>9. ASSUME NEW t \in Tasks,
             NEW pc \in {"sign", "submit", "await", "count"},
             NEW n \in Nat,
             \/ task' = [task EXCEPT ![t].pc = pc]
             \/ task' = [task EXCEPT ![t].pc = pc, ![t].retries = n]
      PROVE  \A u \in Tasks :
               /\ task'[u].pc = IF u = t THEN pc ELSE task[u].pc
               /\ task'[u].id = task[u].id
               /\ task'[u].client = task[u].client
  BY <1>1, <1>9 DEF Calls
<1>10. ASSUME NEW t \in Tasks,
              \/ RefuseExecution(t) \/ TakeOver(t) \/ SignTransaction(t)
              \/ SignerFails(t) \/ Submit(t) \/ SubmissionFails(t)
       PROVE  HeldIsInFlight'
  <2>1. UNCHANGED <<vars, held>> /\ live' \subseteq live
    BY <1>10 DEF RefuseExecution, TakeOver, SignTransaction, SignerFails, Submit,
                 SubmissionFails
  <2>2. InFlight' = InFlight
    BY <2>1 DEF vars, InFlight
  <2>3. CASE EndTask(t)
    BY <1>2, <1>8, <2>1, <2>2, <2>3 DEF Taker
  <2>4. CASE ~ EndTask(t)
    <3>1. task[t].retries + 1 \in Nat
      BY <1>1 DEF Calls
    <3>2. /\ Claims(t)
          /\ \E pc \in {"sign", "submit", "await", "count"}, n \in Nat :
               \/ task' = [task EXCEPT ![t].pc = pc]
               \/ task' = [task EXCEPT ![t].pc = pc, ![t].retries = n]
      BY <1>10, <2>4, <3>1
         DEF RefuseExecution, TakeOver, SignTransaction, SignerFails, Submit,
             SubmissionFails, Retry, Taker
    <3>3. \A u \in Tasks :
            /\ u # t => task'[u].pc = task[u].pc
            /\ task'[u].id = task[u].id
            /\ task'[u].client = task[u].client
      <4>1. PICK pc \in {"sign", "submit", "await", "count"}, n \in Nat :
              \/ task' = [task EXCEPT ![t].pc = pc]
              \/ task' = [task EXCEPT ![t].pc = pc, ![t].retries = n]
        BY <3>2
      <4>2. \A u \in Tasks :
              /\ task'[u].pc = IF u = t THEN pc ELSE task[u].pc
              /\ task'[u].id = task[u].id
              /\ task'[u].client = task[u].client
        BY <1>1, <4>1 DEF Calls
      <4> QED
        BY <4>2, Zenon
    <3>4. \A u \in Tasks : Claims(u)' => Claims(u)
      BY <2>1, <3>2, <3>3 DEF Taker
    <3> QED
      BY <1>2, <2>1, <2>2, <3>3, <3>4
  <2> QED
    BY <2>3, <2>4
<1>11. ASSUME NEW t \in Tasks, Executed(t)
       PROVE  HeldIsInFlight'
  <2>1. /\ task[t].pc = "await" /\ task' = [task EXCEPT ![t].pc = "count"]
        /\ BeginUpdate(task[t].client) /\ UNCHANGED <<held, live>>
    BY <1>11 DEF Executed
  <2>2. InFlight \subseteq InFlight'
    BY <1>1, <2>1, StaysInFlight
  <2>3. \A u \in Tasks :
          /\ task'[u].pc = IF u = t THEN "count" ELSE task[u].pc
          /\ task'[u].id = task[u].id
          /\ task'[u].client = task[u].client
    BY <1>9, <2>1
  <2> QED
    BY <1>2, <2>1, <2>2, <2>3 DEF Taker
<1>12. ASSUME NEW t \in Tasks, Count(t)
       PROVE  HeldIsInFlight'
  <2>1. PICK r \in Requests : r = task[t].client
    BY <1>1, <1>12 DEF Count
  <2>2. /\ task[t].pc = "count" /\ Taker(t) /\ EndTask(t) /\ live' = live
        /\ held' = [held EXCEPT ![r] = None]
        /\ request' = [request EXCEPT ![r] = Idle]
    BY <1>12, <2>1 DEF Count, UpdateUsage, Taker
  <2>3. InFlight \ {r} \subseteq InFlight'
    BY <1>1, <2>2, LeavesFlight
  <2>4. held[r] = task[t].id
    BY <2>1, <2>2 DEF HeldIsInFlight
  <2>5. \A u \in Tasks : Claims(u)' => Claims(u) /\ u # t /\ task'[u] = task[u]
    BY <1>8, <2>2 DEF Taker
  <2>6. \A u \in Tasks : Claims(u) /\ u # t => task[u].client # r
    BY <2>1, <2>2, <2>4 DEF HeldIsInFlight, TakersHold
  <2>7. \A u \in Tasks : Claims(u) /\ u # t => held'[task[u].client] = task[u].id
    BY <1>1, <2>2, <2>6 DEF HeldIsInFlight, Taker
  <2>8. \A q \in Requests : held'[q] # None => q \in InFlight'
    BY <1>1, <2>2, <2>3 DEF HeldIsInFlight
  <2> QED
    BY <2>5, <2>7, <2>8 DEF HeldIsInFlight
<1>13. ASSUME NEW id \in 1 .. nextId - 1,
              Expire(id) \/ \E gas \in NetGas : Commit(id, gas)
       PROVE  HeldIsInFlight'
  <2>1. UNCHANGED <<vars, held, task>> /\ live' \subseteq live
    BY <1>13 DEF Expire, Commit
  <2>2. InFlight' = InFlight
    BY <2>1 DEF vars, InFlight
  <2> QED
    BY <1>2, <2>1, <2>2 DEF Taker
<1>14. ASSUME NextDay, UNCHANGED pathVars
       PROVE  HeldIsInFlight'
  <2>1. InFlight' = InFlight
    BY <1>14 DEF NextDay, InFlight
  <2> QED
    BY <1>2, <1>14, <2>1 DEF pathVars, Taker
<1>15. ASSUME RestartServer
       PROVE  HeldIsInFlight'
  <2> DEFINE holding == {r \in Requests : held[r] # None /\ request[r].pc = "admitted"}
  <2>1. \A r \in Requests :
          /\ request'[r] = IF r \in holding THEN request[r] ELSE Idle
          /\ held'[r] = IF r \in holding THEN held[r] ELSE None
    BY <1>15 DEF RestartServer, Restart
  <2>2. \A t \in Tasks : task'[t] = NoTask
    BY <1>15 DEF RestartServer
  <2>3. \A r \in Requests : held'[r] # None => r \in InFlight'
    BY <2>1 DEF InFlight
  <2> QED
    BY <2>2, <2>3 DEF HeldIsInFlight, NoTask, Taker
<1> QED
  BY <1>4, <1>5, <1>6, <1>7, <1>10, <1>11, <1>12, <1>13, <1>14, <1>15 DEF PathNext
-----------------------------------------------------------------------------
(* Up to the first midnight, and while the process runs, the counter is what
   the ledger took for the transactions that were counted. *)
CountedIds == {id \in Ids : counted[id] = 1}

FirstDay ==
  day = 0 /\ restarts = 0 =>
    /\ \A r \in Requests : request[r].pc # "reset"
    /\ curDailyUsage = Total(spent, CountedIds)

LEMMA IdsAreFinite == IsFiniteSet(Ids)
BY FS_Interval, PathAssumption DEF Ids

(* What has been counted was spent before, and stays. *)
LEMMA CountedStays ==
  ASSUME PathInv, SentIsSettled, PathNext
  PROVE  /\ IsFiniteSet(CountedIds)
         /\ \A id \in CountedIds : spent[id] \in Int /\ spent'[id] = spent[id]
<1>1. IsFiniteSet(CountedIds)
  BY IdsAreFinite, FS_Subset DEF CountedIds
<1>2. CountedIds \subseteq DOMAIN spent
  BY DEF SentIsSettled, CountedIds
<1>3. \A id \in CountedIds : spent[id] \in Int
  BY <1>2, MaxGasBounds DEF PathInv, PathRecords
<1>4. spent' = spent \/ \E id, gas : Commit(id, gas)
  BY DEF PathNext, ReserveCoins, GiveUp, SendExecute, RefuseExecution,
         TakeOver, SignTransaction, SignerFails, Submit, SubmissionFails,
         Executed, Count, Expire, RestartServer, pathVars
<1>5. ASSUME NEW id, NEW gas, Commit(id, gas)
      PROVE  \A i \in CountedIds : spent'[i] = spent[i]
  BY <1>2, <1>5 DEF Commit
<1> QED
  BY <1>1, <1>3, <1>4, <1>5

LEMMA FirstDayGoesOn ==
  ASSUME CapInv, PathInv, CapTyped, RestTyped, TakersHold, SentIsSettled,
         FirstDay, PathNext
  PROVE  FirstDay'
<1>1. /\ CapTyped' /\ (CapStep \/ UNCHANGED vars)
  <2>1. CASE UNCHANGED vars
    BY <2>1 DEF vars, CapTyped, TypeOK
  <2> QED
    BY <2>1, PathStepIsCapStep, CapStepsAreTyped
<1>2. /\ day \in Nat /\ restarts \in Nat /\ curDate \in 0 .. day
      /\ \A r \in Requests : request[r].today \in 0 .. day
      /\ Records
  BY DEF CapInv, Records, CapTyped, TypeOK
<1> SUFFICES ASSUME day' = 0, restarts' = 0
             PROVE  /\ \A r \in Requests : request'[r].pc # "reset"
                    /\ curDailyUsage' = Total(spent', CountedIds')
  BY DEF FirstDay
<1>3. day = 0 /\ restarts = 0 /\ ~ NextDay /\ ~ \E holding : Restart(holding)
  BY <1>1, <1>2
     DEF CapStep, vars, BeginCheck, CompareDate, ResetDate, CheckUsage,
         BeginUpdate, Abandon, UpdateUsage, NextDay, Restart
<1>4. /\ \A r \in Requests : request[r].pc # "reset"
      /\ curDailyUsage = Total(spent, CountedIds)
      /\ curDate = 0 /\ \A r \in Requests : request[r].today = 0
  BY <1>2, <1>3 DEF FirstDay
<1>5. \A r \in Requests : request'[r].pc # "reset"
  <2>1. ASSUME NEW r \in Requests, BeginCheck(r) \/ BeginUpdate(r)
        PROVE  \A q \in Requests : request'[q].pc # "reset"
    BY <1>2, <1>4, <2>1 DEF Records, BeginCheck, BeginUpdate, Begin
  <2>2. ASSUME NEW r \in Requests, CompareDate(r)
        PROVE  \A q \in Requests : request'[q].pc # "reset"
    BY <1>2, <1>4, <2>2 DEF Records, CompareDate
  <2>3. ASSUME NEW r \in Requests, ResetDate(r)
        PROVE  FALSE
    BY <1>4, <2>3 DEF ResetDate
  <2>4. ASSUME NEW r \in Requests,
               \/ CheckUsage(r) \/ Abandon(r)
               \/ \E gas \in NetGas : UpdateUsage(r, gas)
        PROVE  \A q \in Requests : request'[q].pc # "reset"
    <3>1. PICK rec \in {Idle, [Idle EXCEPT !.pc = "admitted"]} :
            request' = [request EXCEPT ![r] = rec]
      BY <2>4 DEF CheckUsage, Abandon, UpdateUsage
    <3>2. rec.pc # "reset"
      BY <3>1 DEF Idle
    <3> QED
      BY <1>2, <1>4, <3>1, <3>2 DEF Records
  <2> QED
    BY <1>1, <1>3, <1>4, <2>1, <2>2, <2>3, <2>4 DEF CapStep, vars
<1>6. /\ IsFiniteSet(CountedIds)
      /\ \A id \in CountedIds : spent[id] \in Int /\ spent'[id] = spent[id]
  BY CountedStays
<1>7. Total(spent', CountedIds) = Total(spent, CountedIds)
  BY <1>6, TotalCongruent
<1>8. ASSUME UNCHANGED <<curDailyUsage, counted>>
      PROVE  curDailyUsage' = Total(spent', CountedIds')
  <2>1. CountedIds' = CountedIds
    BY <1>8 DEF CountedIds
  <2> QED
    BY <1>4, <1>7, <1>8, <2>1
<1>9. ASSUME NEW t \in Tasks, Count(t)
      PROVE  curDailyUsage' = Total(spent', CountedIds')
  <2>1. PICK id \in Ids : id = task[t].id
    BY <1>9, PathAssumption DEF Count, PathInv, PathRecords, CallsAreSound, Ids
  <2>2. /\ curDailyUsage' = curDailyUsage + spent[id] /\ spent' = spent
        /\ counted' = [counted EXCEPT ![id] = @ + 1]
        /\ counted[id] = 0 /\ id \in DOMAIN spent
    BY <1>9, <2>1
       DEF Count, UpdateUsage, TakersHold, Taker, PathInv, CallsAreSound
  <2>3. CountedIds' = CountedIds \cup {id} /\ id \notin CountedIds
    <3>1. \A i \in Ids : counted[i] \in {0, 1}
      BY DEF SentIsSettled
    <3>2. DOMAIN counted = Ids
      BY DEF RestTyped
    <3>3. \A i \in Ids : counted'[i] = 1 <=> i = id \/ counted[i] = 1
      BY <2>2, <3>1, <3>2
    <3> QED
      BY <2>2, <3>3 DEF CountedIds
  <2>4. spent[id] \in Int
    BY <2>2, MaxGasBounds DEF PathInv, PathRecords
  <2>5. Total(spent, CountedIds \cup {id}) = Total(spent, CountedIds) + spent[id]
    BY <1>6, <2>3, <2>4, TotalAdd
  <2> QED
    BY <1>4, <2>2, <2>3, <2>5
<1>10. counted' = counted \/ \E t \in Tasks : Count(t)
  BY DEF PathNext, ReserveCoins, GiveUp, SendExecute, RefuseExecution,
         TakeOver, SignTransaction, SignerFails, Submit, SubmissionFails,
         Executed, Expire, Commit, RestartServer, pathVars, historyVars
<1>11. curDailyUsage' = curDailyUsage \/ \E t \in Tasks : Count(t)
  <2>1. ASSUME NEW r \in Requests, ResetDate(r)
        PROVE  FALSE
    BY <1>4, <2>1 DEF ResetDate
  <2>2. ASSUME RestartServer
        PROVE  FALSE
    BY <1>3, <2>2 DEF RestartServer
  <2> QED
    BY <1>3, <2>1, <2>2
       DEF PathNext, ReserveCoins, GiveUp, SendExecute, RefuseExecution,
           TakeOver, SignTransaction, SignerFails, Submit, SubmissionFails,
           Executed, Expire, Commit, vars, Abandon, BeginUpdate, BeginCheck,
           CompareDate, CheckUsage
<1> QED
  BY <1>5, <1>8, <1>9, <1>10, <1>11

(* What is spent and neither counted nor given up is in the hands of its taker,
   and the clients of different takers are different. *)
LEMMA UncountedAreInFlight ==
  ASSUME PathInv, RestTyped, TakersHold, SentIsSettled, HeldIsInFlight
  PROVE  LET open == (DOMAIN spent \ forsaken) \ CountedIds
         IN  IsFiniteSet(open) /\ Cardinality(open) <= Cardinality(InFlight)
<1> DEFINE open == (DOMAIN spent \ forsaken) \ CountedIds
           clientOf == [id \in open |->
             task[CHOOSE t \in Tasks : Taker(t) /\ task[t].id = id].client]
<1>1. open \subseteq Ids
  BY PathAssumption DEF RestTyped, PathInv, PathRecords, Ids
<1>2. IsFiniteSet(open)
  BY <1>1, IdsAreFinite, FS_Subset
<1>3. \A id \in open : \E t \in Tasks : Taker(t) /\ task[t].id = id
  BY <1>1 DEF RestTyped, SentIsSettled, CountedIds
<1>4. ASSUME NEW id \in open
      PROVE  clientOf[id] \in InFlight /\ held[clientOf[id]] = id
  <2>1. PICK t \in Tasks :
          t = (CHOOSE u \in Tasks : Taker(u) /\ task[u].id = id)
          /\ Taker(t) /\ task[t].id = id
    BY <1>3
  <2>2. task[t].client \in Requests /\ held[task[t].client] = id
    BY <2>1 DEF HeldIsInFlight, PathInv, CallsAreSound, Taker
  <2>3. id # None
    BY <1>1, PathAssumption DEF Ids
  <2> QED
    BY <2>1, <2>2, <2>3 DEF HeldIsInFlight
<1> HIDE DEF open, clientOf
<1>5. clientOf \in Injection(open, InFlight)
  <2>1. clientOf \in [open -> InFlight]
    BY <1>4 DEF clientOf
  <2>2. \A i, j \in open : clientOf[i] = clientOf[j] => i = j
    BY <1>4
  <2> QED
    BY <2>1, <2>2 DEF Injection, IsInjective
<1>6. Cardinality(open) <= Cardinality(InFlight)
  BY <1>5, InFlightIsFinite, FS_Injection
<1> QED
  BY <1>2, <1>6 DEF open

LEMMA LedgerIsCapped ==
  ASSUME CapInv, PathInv, CapTyped, RestTyped, TakersHold, SentIsSettled,
         HeldIsInFlight, FirstDay
  PROVE  LedgerGasIsCapped
<1> SUFFICES ASSUME day = 0, restarts = 0
             PROVE  MapThenSumSet(LAMBDA id : spent[id], DOMAIN spent \ forsaken)
                      <= DailyCap - 1 + Cardinality(Requests) * MaxGas
  BY DEF LedgerGasIsCapped
<1> DEFINE paid == DOMAIN spent \ forsaken
           open == paid \ CountedIds
           k == Cardinality(open)
           n == Cardinality(InFlight)
<1>1. paid \subseteq Ids /\ IsFiniteSet(paid) /\ CountedIds \subseteq paid
  <2>1. paid \subseteq Ids
    BY PathAssumption DEF RestTyped, PathInv, PathRecords, Ids
  <2> QED
    BY <2>1, IdsAreFinite, FS_Subset DEF SentIsSettled, CountedIds
<1>2. /\ IsFiniteSet(open) /\ IsFiniteSet(CountedIds)
      /\ paid = CountedIds \cup open /\ CountedIds \cap open = {}
  BY <1>1, FS_Subset
<1>3. \A id \in paid : spent[id] \in Int /\ spent[id] <= MaxGas
  BY MaxGasBounds DEF PathInv, PathRecords
<1>4. MapThenSumSet(LAMBDA id : spent[id], paid) = Total(spent, paid)
  <2> DEFINE Def(g) == g = [s \in SUBSET paid |->
                              IF s = {} THEN 0 ELSE spent[Taken(s)] + g[s \ {Taken(s)}]]
             sum == CHOOSE g : Def(g)
  <2>1. MapThenSumSet(LAMBDA id : spent[id], paid) = sum[paid]
    BY DEF MapThenSumSet, MapThenFoldSet, Taken
  <2>2. \A g : Def(g) <=> Sums(g, spent, paid)
    BY DEF Sums
  <2>3. \E g : Def(g)
    <3>1. \E g : Sums(g, spent, paid)
      BY <1>1, SumsExist
    <3> QED
      BY <2>2, <3>1
  <2>4. Sums(sum, spent, paid)
    BY <2>2, <2>3
  <2> HIDE DEF sum, paid
  <2> QED
    BY <1>1, <2>1, <2>4, TotalIsUnique
<1> HIDE DEF open, paid
<1>5. Total(spent, CountedIds \cup open) = Total(spent, CountedIds) + Total(spent, open)
  BY <1>2, <1>3, TotalOfUnion
<1>6. Total(spent, open) <= k * MaxGas /\ Total(spent, open) \in Int
  BY <1>2, <1>3, MaxGasBounds, TotalIsBounded, TotalType
<1>7. k \in Nat /\ n \in Nat /\ k <= n
  BY <1>2, UncountedAreInFlight, InFlightIsFinite, FS_CardinalityType DEF open, paid
<1>8. k * MaxGas <= n * MaxGas
  BY <1>7, MaxGasBounds, ProductIsMonotone
<1>9. curDailyUsage = Total(spent, CountedIds) /\ curDailyUsage \in Int
  BY DEF FirstDay, CapInv, Records
<1>10. curDailyUsage + n * MaxGas <= DailyCap - 1 + Cardinality(Requests) * MaxGas
  BY DEF CapInv, OvershootIsBounded
<1>11. /\ k * MaxGas \in Int /\ n * MaxGas \in Int
       /\ Cardinality(Requests) * MaxGas \in Int /\ DailyCap \in Int
  BY <1>7, MaxGasBounds, InFlightIsFinite, CapAssumption
<1>12. Total(spent, paid) = curDailyUsage + Total(spent, open)
  BY <1>2, <1>5, <1>9, Zenon
<1> HIDE DEF k, n
<1>13. Total(spent, paid) <= DailyCap - 1 + Cardinality(Requests) * MaxGas
  BY <1>6, <1>8, <1>9, <1>10, <1>11, <1>12
<1> QED
  BY <1>4, <1>13 DEF paid
-----------------------------------------------------------------------------
(* While the date is today's, or a request that came today is about to be
   judged, the counter holds nothing of the day before. *)
NothingOfYesterday ==
  curDate = day \/ (\E r \in Requests : request[r].pc = "use" /\ request[r].today = day)
    => curDailyUsage <= charged

LEMMA YesterdayIsForgotten ==
  ASSUME CapTyped, NothingOfYesterday, CapStep
  PROVE  NothingOfYesterday'
<1>1. /\ day \in Nat /\ curDate \in 0 .. day /\ curDailyUsage \in Int
      /\ charged \in Nat
      /\ request \in [Requests ->
           [pc : {"idle", "compare", "reset", "use", "admitted"},
            calls : {"check_usage", "update_usage"}, today : 0 .. MaxDay]]
      /\ \A r \in Requests : request[r].today <= day
  BY CapAssumption DEF CapTyped, TypeOK
<1>2. ASSUME UNCHANGED <<day, curDate, curDailyUsage, charged>>,
             \A r \in Requests : request'[r].pc = "use" /\ request'[r].today = day =>
               curDate = day \/ (request[r].pc = "use" /\ request[r].today = day)
      PROVE  NothingOfYesterday'
  BY <1>2 DEF NothingOfYesterday
<1>3. ASSUME NEW r \in Requests, BeginCheck(r) \/ BeginUpdate(r)
      PROVE  NothingOfYesterday'
  BY <1>1, <1>2, <1>3 DEF BeginCheck, BeginUpdate, Begin
<1>4. ASSUME NEW r \in Requests, CompareDate(r)
      PROVE  NothingOfYesterday'
  BY <1>1, <1>2, <1>4 DEF CompareDate
<1>5. ASSUME NEW r \in Requests, ResetDate(r)
      PROVE  NothingOfYesterday'
  BY <1>1, <1>5 DEF ResetDate, NothingOfYesterday
<1>6. ASSUME NEW r \in Requests, CheckUsage(r) \/ Abandon(r)
      PROVE  NothingOfYesterday'
  <2>1. PICK rec \in {Idle, [Idle EXCEPT !.pc = "admitted"]} :
          request' = [request EXCEPT ![r] = rec]
    BY <1>6 DEF CheckUsage, Abandon
  <2>2. rec.pc # "use"
    BY <2>1 DEF Idle
  <2> QED
    BY <1>1, <1>2, <1>6, <2>1, <2>2 DEF CheckUsage, Abandon
<1>7. ASSUME NEW r \in Requests, NEW gas \in NetGas, UpdateUsage(r, gas)
      PROVE  NothingOfYesterday'
  <2>1. /\ curDailyUsage' = curDailyUsage + gas /\ gas \in Int
        /\ charged' = (IF gas > 0 THEN charged + gas ELSE charged)
        /\ UNCHANGED <<day, curDate>>
        /\ request' = [request EXCEPT ![r] = Idle]
    BY <1>7, MaxGasBounds DEF UpdateUsage
  <2>2. \A q \in Requests : request'[q].pc = "use" =>
          request[q].pc = "use" /\ request'[q].today = request[q].today
    BY <1>1, <2>1 DEF Idle
  <2>3. curDailyUsage <= charged => curDailyUsage' <= charged'
    BY <1>1, <2>1
  <2> QED
    BY <2>1, <2>2, <2>3 DEF NothingOfYesterday
<1>8. ASSUME NextDay
      PROVE  NothingOfYesterday'
  BY <1>1, <1>8 DEF NextDay, NothingOfYesterday
<1>9. ASSUME NEW holding \in SUBSET Requests, Restart(holding)
      PROVE  NothingOfYesterday'
  BY <1>1, <1>9 DEF Restart, NothingOfYesterday
<1> QED
  BY <1>3, <1>4, <1>5, <1>6, <1>7, <1>8, <1>9 DEF CapStep

(* Only check_usage refuses, and a restart forgets; a cap beyond the largest
   i64 would read as a negative one and refuse without a reason. *)
LEMMA RefusedForTheCap ==
  ASSUME DailyCap < I63, CapTyped, NothingOfYesterday, CapStep,
         NEW r \in Requests, request[r].calls = "check_usage",
         request[r].pc = "use", request[r].today = day, request'[r].pc = "idle"
  PROVE  charged >= DailyCap \/ restarts' # restarts
<1>1. /\ curDailyUsage <= charged /\ curDailyUsage \in Int /\ charged \in Nat
      /\ DailyCap \in Nat /\ I63 \in Nat /\ restarts \in Nat
      /\ request \in [Requests ->
           [pc : {"idle", "compare", "reset", "use", "admitted"},
            calls : {"check_usage", "update_usage"}, today : 0 .. MaxDay]]
  BY CapAssumption DEF CapTyped, TypeOK, NothingOfYesterday
<1>2. ASSUME NEW q \in Requests, CheckUsage(q)
      PROVE  charged >= DailyCap
  <2>1. q = r
    BY <1>1, <1>2 DEF CheckUsage
  <2>2. curDailyUsage >= AsI64(DailyCap)
    BY <1>1, <1>2, <2>1 DEF CheckUsage, Idle
  <2> QED
    BY <1>1, <2>2 DEF AsI64
<1>3. ASSUME NEW holding \in SUBSET Requests, Restart(holding)
      PROVE  restarts' # restarts
  BY <1>1, <1>3 DEF Restart
<1>4. ASSUME NEW q \in Requests, NEW gas \in NetGas,
             \/ BeginCheck(q) \/ CompareDate(q) \/ ResetDate(q) \/ BeginUpdate(q)
             \/ Abandon(q) \/ UpdateUsage(q, gas)
      PROVE  request'[r] = request[r]
  <2>1. q # r
    BY <1>1, <1>4
       DEF BeginCheck, CompareDate, ResetDate, BeginUpdate, Abandon, UpdateUsage,
           Begin
  <2> QED
    BY <1>1, <1>4, <2>1
       DEF BeginCheck, CompareDate, ResetDate, BeginUpdate, Abandon, UpdateUsage,
           Begin
<1>5. NextDay => request'[r] = request[r]
  BY DEF NextDay
<1>6. NetGas # {}
  BY CapAssumption
<1> QED
  BY <1>2, <1>3, <1>4, <1>5, <1>6 DEF CapStep

-----------------------------------------------------------------------------
(* Everything above together. *)
PathIInv ==
  /\ CapInv /\ PathInv
  /\ CapTyped /\ RestTyped
  /\ TakersHold /\ SentIsSettled
  /\ HeldIsInFlight
  /\ FirstDay
  /\ NothingOfYesterday

LEMMA PathIInvHoldsAtFirst == PathInit => PathIInv
<1> SUFFICES ASSUME PathInit PROVE PathIInv
  OBVIOUS
<1>1. CapInv /\ PathInv
  BY InitHolds
<1>2. /\ CapTyped /\ RestTyped /\ TakersHold /\ SentIsSettled /\ HeldIsInFlight
      /\ NothingOfYesterday
  BY CapAssumption, PathAssumption
     DEF PathInit, Init, CapTyped, TypeOK, Idle, RestTyped, NoTask, Ids,
         TakersHold, Taker, SentIsSettled, HeldIsInFlight, NothingOfYesterday
<1>3. FirstDay
  <2>1. CountedIds = {}
    BY DEF PathInit, CountedIds, Ids
  <2> QED
    BY <2>1, TotalOfEmpty DEF PathInit, Init, Idle, FirstDay
<1> QED
  BY <1>1, <1>2, <1>3 DEF PathIInv

LEMMA PathIInvIsKept ==
  ASSUME PathIInv, [PathNext]_allVars
  PROVE  PathIInv'
<1> USE DEF PathIInv
<1>1. CapInv' /\ PathInv'
  BY PathIsInductive
<1>2. CASE PathNext
  <2>1. CapStep \/ UNCHANGED vars
    BY <1>2, PathStepIsCapStep
  <2>2. CapTyped' /\ NothingOfYesterday'
    <3>1. CASE UNCHANGED vars
      BY <3>1 DEF vars, CapTyped, TypeOK, NothingOfYesterday
    <3> QED
      BY <2>1, <3>1, CapStepsAreTyped, YesterdayIsForgotten
  <2>3. RestTyped'
    BY <1>2, RestIsTyped
  <2>4. TakersHold' /\ SentIsSettled'
    BY <1>2, SentIsKeptSettled
  <2>5. HeldIsInFlight'
    BY <1>2, HeldStaysInFlight
  <2>6. FirstDay'
    BY <1>2, FirstDayGoesOn
  <2> QED
    BY <1>1, <2>2, <2>3, <2>4, <2>5, <2>6
<1>3. CASE UNCHANGED allVars
  <2>1. UNCHANGED vars /\ UNCHANGED pathVars
    BY <1>3 DEF allVars
  <2>2. CapTyped' /\ RestTyped' /\ NothingOfYesterday'
    BY <2>1 DEF vars, pathVars, historyVars, CapTyped, TypeOK, RestTyped,
                NothingOfYesterday
  <2>3. TakersHold' /\ SentIsSettled' /\ HeldIsInFlight'
    BY <2>1 DEF vars, pathVars, historyVars, TakersHold, Taker, SentIsSettled,
                HeldIsInFlight, InFlight
  <2>4. FirstDay'
    BY <2>1 DEF vars, pathVars, historyVars, FirstDay, CountedIds
  <2> QED
    BY <1>1, <2>2, <2>3, <2>4
<1> QED
  BY <1>2, <1>3

LEMMA PathIInvHolds == PathSpec => []PathIInv
BY PathIInvHoldsAtFirst, PathIInvIsKept, PTL DEF PathSpec

(* Dates, retries, reservations and sums stay what they are taken for, in every
   state of the path of a request (gas_usage_cap.rs, gas_station_core.rs). *)
THEOREM RequestPathIsTyped == PathSpec => []PathTypeOK
<1>1. PathIInv => PathTypeOK
  BY PathTypesHold DEF PathIInv
<1> QED
  BY <1>1, PathIInvHolds, PTL

(* However often a signature or a submission is retried, whatever answer is
   lost, and whenever the process restarts: what was sent to the ledger is
   counted once, given up once, or still in the hands of one call
   (gas_station_core.rs:251-261). *)
THEOREM SentGasIsNeverCountedTwice == PathSpec => []SentGasIsCountedOnce
<1>1. PathIInv => SentGasIsCountedOnce
  <2> SUFFICES ASSUME PathIInv, NEW id \in sent
               PROVE  LET calls == {t \in Sending : task[t].id = id}
                      IN  /\ Cardinality(calls) + counted[id]
                                + (IF id \in forsaken THEN 1 ELSE 0) = 1
                          /\ counted[id] = 1 => id \in DOMAIN spent
    BY DEF SentGasIsCountedOnce
  <2> DEFINE calls == {t \in Sending : task[t].id = id}
  <2>1. id \in Ids /\ id # None
    BY PathAssumption DEF PathIInv, RestTyped, PathInv, PathRecords, Ids
  <2>2. \A t \in calls : Taker(t)
    BY <2>1 DEF PathIInv, Sending, Taker, PathInv, PathRecords, Calls, TakersHold
  <2>3. counted[id] = 1 => id \in DOMAIN spent \ forsaken
    BY <2>1 DEF PathIInv, SentIsSettled
  <2>4. counted[id] \in {0, 1}
    BY <2>1 DEF PathIInv, SentIsSettled
  <2>5. CASE \E t \in Tasks : Taker(t) /\ task[t].id = id
    <3>1. PICK t \in Tasks : Taker(t) /\ task[t].id = id
      BY <2>5
    <3>2. t \in calls
      BY <3>1 DEF Sending, Taker
    <3>3. \A u \in calls : u = t
      BY <2>2, <3>1 DEF PathIInv, TakersHold, Sending
    <3>4. calls = {t}
      BY <3>2, <3>3
    <3>5. Cardinality(calls) = 1
      BY <3>4, FS_Singleton
    <3>6. counted[id] = 0 /\ id \notin forsaken
      BY <3>1 DEF PathIInv, TakersHold
    <3> QED
      BY <3>5, <3>6
  <2>6. CASE ~ \E t \in Tasks : Taker(t) /\ task[t].id = id
    <3>1. calls = {}
      BY <2>2, <2>6 DEF Sending
    <3>2. Cardinality(calls) = 0
      BY <3>1, FS_EmptySet
    <3>3. counted[id] = 1 \/ id \in forsaken
      BY <2>6 DEF PathIInv, SentIsSettled
    <3> QED
      BY <2>3, <2>4, <3>2, <3>3
  <2> QED
    BY <2>5, <2>6
<1> QED
  BY <1>1, PathIInvHolds, PTL

(* The promise of the README, for any cap, number of clients and gas prices: up
   to the first midnight what the ledger takes for the transactions that were
   answered passes the cap by no more than what the requests in flight may
   spend (README.md:122). *)
THEOREM LedgerStaysCapped == PathSpec => []LedgerGasIsCapped
<1>1. PathIInv => LedgerGasIsCapped
  BY LedgerIsCapped DEF PathIInv
<1> QED
  BY <1>1, PathIInvHolds, PTL

(* A cap that an i64 can hold refuses no request of today for the gas of
   yesterday, whatever requests reset the date, early or late
   (gas_usage_cap.rs:29-66). *)
THEOREM RefusalsStayEarned ==
  ASSUME DailyCap < I63
  PROVE  PathSpec => RefusalsAreEarned
<1> DEFINE Earned == \A r \in Requests :
             /\ request[r].calls = "check_usage"
             /\ request[r].pc = "use"
             /\ request[r].today = day
             /\ request'[r].pc = "idle"
             => charged >= DailyCap \/ restarts' # restarts
<1>1. ASSUME PathIInv, [PathNext]_allVars
      PROVE  [Earned]_vars
  <2>1. CapStep \/ UNCHANGED vars
    BY <1>1, PathStepIsCapStep DEF PathIInv, allVars
  <2>2. CASE CapStep
    BY <1>1, <2>2, RefusedForTheCap DEF PathIInv
  <2> QED
    BY <2>1, <2>2
<1> QED
  BY <1>1, PathIInvHolds, PTL DEF RefusalsAreEarned, PathSpec
=============================================================================
