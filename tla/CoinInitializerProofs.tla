----------------------- MODULE CoinInitializerProofs -----------------------
(***************************************************************************)
(* Proofs about the coin initializer: first the numbers of a split, then   *)
(* that every state of the composed system has its type, that the locks    *)
(* exclude, and that no coin is in two hands; last, that a full rescan     *)
(* brings every coin into the pool and that no coin is forgotten.          *)
(*                                                                         *)
(* The types are those of GasStationProofs without what a cleanup breaks:  *)
(* it removes the total and restarts the reservation ids.  A lock names no *)
(* owner, so that two processes can hold it when one has held it for too   *)
(* long; the exclusion is proved for as long as none has.                  *)
(***************************************************************************)
EXTENDS CoinInitializer, GasStationProofs

(* What the arithmetic of the splits needs: calibration and configuration give
   natural numbers, and a transaction creates at least two coins. *)
ParametersAreNaturals ==
  /\ GasPerObject \in Nat
  /\ InitialBalance \in Nat
  /\ MaxSplit \in Nat /\ MaxSplit >= 2
  /\ U64 \in Nat

LEMMA Division ==
  ASSUME NEW a \in Nat, NEW b \in Nat, b > 0
  PROVE  /\ a \div b \in Nat
         /\ (a \div b) * b <= a
         /\ a < (a \div b) * b + b
BY SMT

(* A quotient is the largest of the numbers that are not too large. *)
LEMMA QuotientIsLargest ==
  ASSUME NEW a \in Nat, NEW b \in Nat, b > 0, NEW n \in Nat, n * b <= a
  PROVE  a \div b >= n
<1> DEFINE q == a \div b
<1>1. q \in Nat /\ a < q * b + b
  BY Division
<1>2. n * b < (q + 1) * b
  BY <1>1
<1> HIDE DEF q
<1>3. n < q + 1
  <2> SUFFICES ASSUME n >= q + 1 PROVE FALSE
    BY <1>1
  <2>1. PICK k \in Nat : n = q + 1 + k
    <3>1. n - (q + 1) \in Nat /\ n = q + 1 + (n - (q + 1))
      BY <1>1
    <3> QED
      BY <3>1
  <2>2. n * b = (q + 1) * b + k * b
    BY <2>1, <1>1
  <2>3. k * b >= 0
    BY <2>1
  <2> QED
    BY <1>1, <1>2, <2>1, <2>2, <2>3
<1> QED
  BY <1>1, <1>3 DEF q

(* "Multiply by 2 to be conservative and resilient to precision loss"
   (iota_client.rs:236): the split it was measured with would be paid, unless
   it has cost less than one unit a piece, for which the division leaves 0. *)
THEOREM CalibrationCoversItsSplit ==
  ASSUME NEW gasUsed \in Nat
  PROVE  CalibratedGasCost(gasUsed) * 500 >= gasUsed <=> gasUsed = 0 \/ gasUsed >= 500
<1> DEFINE perPiece == gasUsed \div 500
<1>1. /\ perPiece \in Nat
      /\ perPiece * 500 <= gasUsed
      /\ gasUsed < perPiece * 500 + 500
  BY Division
<1>2. CalibratedGasCost(gasUsed) = perPiece * 2
  BY DEF CalibratedGasCost
<1> HIDE DEF perPiece
<1> QED
  BY <1>1, <1>2

(* The check of run_once (gas_station_initializer.rs:397) is exactly what keeps
   the coins that no split makes smaller from being new ones to every later
   refresh, which would add them to the pool again and again. *)
THEOREM KeptCoinsAreNotNew ==
  ASSUME ParametersAreNaturals
  PROVE  TargetPaysForSplits <=>
           \A balance \in Nat : TooSmall(balance) => balance < NewCoinBalance
<1>1. PieceCost * 2 \in Nat /\ TooSmall(PieceCost * 2)
  BY DEF ParametersAreNaturals, PieceCost, TooSmall
<1>2. PieceCost * 2 < NewCoinBalance <=> TargetPaysForSplits
  BY DEF ParametersAreNaturals, PieceCost, NewCoinBalance, TargetPaysForSplits,
         NEW_COIN_BALANCE_FACTOR_THRESHOLD
<1>3. ASSUME NEW balance \in Nat, TooSmall(balance), TargetPaysForSplits
      PROVE  balance < NewCoinBalance
  BY <1>3 DEF ParametersAreNaturals, PieceCost, NewCoinBalance, TooSmall,
              TargetPaysForSplits, NEW_COIN_BALANCE_FACTOR_THRESHOLD
<1> QED
  BY <1>1, <1>2, <1>3

(* A coin that is split has pieces to be split into, and a budget it can pay:
   the subtraction at gas_station_initializer.rs:150 does not wrap. *)
LEMMA SplitIsPaid ==
  ASSUME ParametersAreNaturals, TargetPaysForSplits,
         NEW balance \in Nat, ~TooSmall(balance)
  PROVE  /\ SplitCount(balance) \in Nat
         /\ SplitCount(balance) >= 2
         /\ SplitCount(balance) * PieceCost <= balance
<1>1. InitialBalance > 0 /\ PieceCost \in Nat /\ PieceCost > 0
  BY DEF ParametersAreNaturals, TargetPaysForSplits, PieceCost
<1> DEFINE n == balance \div PieceCost
<1>2. n \in Nat /\ n * PieceCost <= balance
  BY <1>1, Division
<1>3. n >= 2
  <2>1. 2 * PieceCost <= balance
    BY <1>1 DEF TooSmall
  <2> QED
    BY <1>1, <2>1, QuotientIsLargest
<1> HIDE DEF n
<1>4. SplitCount(balance) = IF n < MaxSplit THEN n ELSE MaxSplit
  BY DEF SplitCount, n
<1>5. CASE n < MaxSplit
  BY <1>2, <1>3, <1>4, <1>5
<1>6. CASE ~(n < MaxSplit)
  <2>1. SplitCount(balance) = MaxSplit /\ MaxSplit \in Nat /\ MaxSplit >= 2
    BY <1>4, <1>6 DEF ParametersAreNaturals
  <2>2. PICK k \in Nat : n = MaxSplit + k
    <3>1. n - MaxSplit \in Nat /\ n = MaxSplit + (n - MaxSplit)
      BY <1>2, <1>6, <2>1
    <3> QED
      BY <3>1
  <2>3. n * PieceCost = MaxSplit * PieceCost + k * PieceCost
    BY <1>1, <2>1, <2>2
  <2>4. k * PieceCost >= 0 /\ k * PieceCost \in Int /\ MaxSplit * PieceCost \in Int
    BY <1>1, <2>1, <2>2
  <2> QED
    BY <1>1, <1>2, <2>1, <2>3, <2>4
<1> QED
  BY <1>5, <1>6

(* Every piece of a split is worth the target; the rest is worth a piece, and
   with the pieces and the gas makes up the coin, so nothing wraps and what is
   written into the pool is what the ledger holds. *)
THEOREM SplitsAddUp ==
  ASSUME ParametersAreNaturals, TargetPaysForSplits,
         NEW balance \in Nat, ~TooSmall(balance), balance < U64,
         NEW gasUsed \in Nat, gasUsed <= Budget(SplitCount(balance))
  PROVE  LET count == SplitCount(balance)
             piece == PieceBalance(balance, count)
             rest == RestBalance(balance, count, gasUsed)
         IN  /\ piece >= InitialBalance
             /\ rest >= piece
             /\ piece * (count - 1) + rest + gasUsed = balance
<1> DEFINE count == SplitCount(balance)
           budget == Budget(count)
           piece == PieceBalance(balance, count)
           rest == RestBalance(balance, count, gasUsed)
<1>1. /\ count \in Nat /\ count >= 2
      /\ count * PieceCost <= balance
  BY SplitIsPaid
<1>2. /\ budget \in Nat
      /\ count * PieceCost = budget + count * InitialBalance
      /\ count * InitialBalance \in Nat
  <2> HIDE DEF count
  <2> QED
    BY <1>1 DEF ParametersAreNaturals, Budget, PieceCost
<1>3. /\ balance - budget \in Nat
      /\ (balance - budget) % U64 = balance - budget
      /\ count * InitialBalance <= balance - budget
  <2> HIDE DEF count, budget
  <2> QED
    BY <1>1, <1>2 DEF ParametersAreNaturals
<1>4. piece = (balance - budget) \div count
  BY <1>3 DEF PieceBalance
<1>5. /\ piece \in Nat
      /\ piece * count <= balance - budget
      /\ piece >= InitialBalance
  <2> HIDE DEF count, budget, piece
  <2>1. piece \in Nat /\ piece * count <= balance - budget
    BY <1>1, <1>3, <1>4, Division
  <2>2. InitialBalance * count <= balance - budget
    BY <1>1, <1>3 DEF ParametersAreNaturals
  <2>3. piece >= InitialBalance
    BY <1>1, <1>3, <1>4, <2>2, QuotientIsLargest DEF ParametersAreNaturals
  <2> QED
    BY <2>1, <2>3
<1>6. /\ piece * (count - 1) \in Nat
      /\ piece * (count - 1) + piece = piece * count
  <2> HIDE DEF count, piece
  <2> QED
    BY <1>1, <1>5
<1> DEFINE d == balance - piece * (count - 1) - gasUsed
<1>7. d \in Nat /\ d >= piece /\ d < U64
  <2>1. gasUsed <= budget
    OBVIOUS
  <2> HIDE DEF count, budget, piece
  <2> QED
    BY <1>2, <1>3, <1>5, <1>6, <2>1 DEF ParametersAreNaturals
<1>8. rest = d
  <2>1. rest = d % U64
    BY DEF RestBalance
  <2> HIDE DEF d, rest
  <2> QED
    BY <1>7, <2>1 DEF ParametersAreNaturals
<1>9. piece * (count - 1) + d + gasUsed = balance
  <2> HIDE DEF count, piece
  <2> QED
    BY <1>6
<1> HIDE DEF count, budget, piece, rest, d
<1>10. piece >= InitialBalance /\ rest >= piece
       /\ piece * (count - 1) + rest + gasUsed = balance
  BY <1>5, <1>7, <1>8, <1>9
<1> QED
  BY <1>10 DEF count, piece, rest

(* All that a split yields is smaller than the coin it splits: the tasks of
   split_gas_coins come to an end. *)
THEOREM SplitsEnd ==
  ASSUME ParametersAreNaturals, TargetPaysForSplits,
         NEW balance \in Nat, ~TooSmall(balance), balance < U64,
         NEW gasUsed \in Nat, gasUsed <= Budget(SplitCount(balance))
  PROVE  LET count == SplitCount(balance)
         IN  /\ PieceBalance(balance, count) < balance
             /\ RestBalance(balance, count, gasUsed) < balance
<1> DEFINE count == SplitCount(balance)
           piece == PieceBalance(balance, count)
           rest == RestBalance(balance, count, gasUsed)
<1>1. count \in Nat /\ count >= 2
  BY SplitIsPaid
<1>2. /\ piece >= InitialBalance
      /\ rest >= piece
      /\ piece * (count - 1) + rest + gasUsed = balance
  BY SplitsAddUp
<1>3. InitialBalance \in Nat /\ InitialBalance > 0
  BY DEF ParametersAreNaturals, TargetPaysForSplits
<1>4. piece \in Int /\ rest \in Int
  <2> HIDE DEF count
  <2>1. (balance - Budget(count)) % U64 \in Int /\ Budget(count) \in Int
    BY <1>1, <1>3 DEF ParametersAreNaturals, Budget
  <2>2. piece \in Int
    BY <1>1, <2>1 DEF PieceBalance
  <2> QED
    BY <1>1, <2>2 DEF RestBalance, ParametersAreNaturals
<1> HIDE DEF count, piece, rest
<1>5. piece * (count - 1) >= piece
  <2>1. PICK k \in Nat : count = 2 + k
    <3>1. count - 2 \in Nat /\ count = 2 + (count - 2)
      BY <1>1
    <3> QED
      BY <3>1
  <2>2. piece * (count - 1) = piece + piece * k /\ piece * k >= 0
    BY <1>2, <1>3, <1>4, <2>1
  <2> QED
    BY <1>4, <2>1, <2>2
<1>6. piece * (count - 1) \in Int
  BY <1>1, <1>4
<1>7. piece < balance /\ rest < balance
  BY <1>2, <1>3, <1>4, <1>5, <1>6
<1> QED
  BY <1>7 DEF count, piece, rest

-----------------------------------------------------------------------------
(* Some smaller sets: a set of each size is among the subsets of a larger
   one, and a finite set can be listed. *)
LEMMA SubsetOfEverySize ==
  ASSUME NEW S, IsFiniteSet(S), NEW n \in Nat, n <= Cardinality(S)
  PROVE  \E T \in SUBSET S : Cardinality(T) = n
<1> DEFINE Sizes == {k \in Nat : k >= n /\ \E T \in SUBSET S : Cardinality(T) = k}
<1>1. Cardinality(S) \in Sizes
  BY FS_CardinalityType
<1>2. PICK k \in Sizes : \A m \in Sizes : k <= m
  <2>1. Sizes \subseteq Nat /\ Sizes # {}
    BY <1>1
  <2> HIDE DEF Sizes
  <2> QED
    BY <2>1, LeastNatural
<1>3. PICK T \in SUBSET S : Cardinality(T) = k
  BY <1>2
<1>4. IsFiniteSet(T)
  BY FS_Subset
<1>5. k = n
  <2> SUFFICES ASSUME k # n PROVE FALSE
    OBVIOUS
  <2>1. k \in Nat /\ k > n
    BY <1>2
  <2>2. PICK x \in T : TRUE
    BY <1>3, <1>4, <2>1, FS_EmptySet
  <2>3. Cardinality(T \ {x}) = k - 1
    BY <1>3, <1>4, <2>2, FS_RemoveElement
  <2>4. k - 1 \in Sizes
    BY <2>1, <2>3
  <2> QED
    BY <1>2, <2>1, <2>4
<1> QED
  BY <1>3, <1>5

LEMMA ListOfASet ==
  ASSUME NEW S, IsFiniteSet(S)
  PROVE  /\ SetToSeq(S) \in [1 .. Cardinality(S) -> S]
         /\ IsInjective(SetToSeq(S))
         /\ ToSet(SetToSeq(S)) = S
<1> DEFINE n == Cardinality(S)
           list == SetToSeq(S)
<1>1. PICK f \in Bijection(1 .. n, S) : TRUE
  BY FS_CardinalityType DEF ExistsBijection
<1>2. f \in [1 .. n -> S] /\ IsInjective(f)
  BY <1>1 DEF Bijection, Injection, IsInjective
<1>3. list \in [1 .. n -> S] /\ IsInjective(list)
  BY <1>2 DEF SetToSeq
<1>4. list \in Injection(1 .. n, S)
  BY <1>3 DEF Injection, IsInjective
<1>5. n \in Nat /\ IsFiniteSet(1 .. n) /\ Cardinality(1 .. n) = n
  <2>1. n \in Nat
    BY FS_CardinalityType
  <2> HIDE DEF n
  <2>2. /\ IsFiniteSet(1 .. n)
        /\ Cardinality(1 .. n) = IF 1 > n THEN 0 ELSE n - 1 + 1
    BY <2>1, FS_Interval
  <2> QED
    BY <2>1, <2>2
<1>6. list \in Surjection(1 .. n, S)
  <2> HIDE DEF list
  <2> QED
    BY <1>4, <1>5, FS_Injection
<1> QED
  BY <1>3, <1>6 DEF Surjection, ToSet

LEMMA FreshIdsAreFresh ==
  ASSUME NEW n \in Nat, Cardinality(CoinIds \ created) >= n
  PROVE  FreshIds(n) \subseteq CoinIds \ created /\ Cardinality(FreshIds(n)) = n
<1>1. IsFiniteSet(CoinIds \ created)
  BY GasStationAssumption, FS_Subset
<1>2. Cardinality(CoinIds \ created) \in Nat
  BY <1>1, FS_CardinalityType
<1>3. \E T \in SUBSET (CoinIds \ created) : Cardinality(T) = n
  BY <1>1, <1>2, SubsetOfEverySize
<1> QED
  BY <1>3 DEF FreshIds

-----------------------------------------------------------------------------
(* InitializerTypeOK is not inductive.  That the ids of the ledger are known
   needs one coin per id, as a transaction is executed on coins of the ledger
   only then, and that a station which serves has come through its start needs
   to know what a refresh looks like. *)
InitializerRecord ==
  [pc : InitializerPCs, mode : RunMode, force : BOOLEAN,
   work : SUBSET Work, result : Seq(Coin)]

InitializersTyped == initializer \in [Stations -> InitializerRecord]

IdsAreKnown ==
  /\ created \subseteq CoinIds
  /\ \A c \in ledger : c.id \in created

RefreshPCs == {"lock", "scan", "split", "add", "unlock", "wait", "dead"}

ServersAreStarted ==
  \A s \in up : /\ initializer[s].pc \in RefreshPCs
                /\ ~initializer[s].force
                /\ initializer[s].pc = "lock" => initializer[s].mode = "Refresh"

IdsInv == ChainIsUnique /\ IdsAreKnown

InitializerInv ==
  /\ Typed
  /\ IdsInv
  /\ InitializersTyped
  /\ ServersAreStarted

LEMMA SplitParameters ==
  /\ PieceCost \in Nat /\ PieceCost > 0
  /\ \A n \in Nat : Budget(n) \in Nat
  /\ \A balance \in Nat : ~TooSmall(balance) => SplitCount(balance) \in Nat \ {0}
<1>1. PieceCost \in Nat /\ PieceCost > 0
  BY GasStationAssumption, InitializerAssumption DEF PieceCost
<1>2. \A n \in Nat : Budget(n) \in Nat
  BY InitializerAssumption DEF Budget
<1>3. ASSUME NEW balance \in Nat, ~TooSmall(balance)
      PROVE  SplitCount(balance) \in Nat \ {0}
  <2>1. 1 * PieceCost <= balance
    BY <1>1, <1>3 DEF TooSmall
  <2>2. balance \div PieceCost \in Nat /\ balance \div PieceCost >= 1
    BY <1>1, <2>1, Division, QuotientIsLargest
  <2> QED
    BY <2>2, InitializerAssumption DEF SplitCount
<1> QED
  BY <1>1, <1>2, <1>3

LEMMA EnqueueIsTyped ==
  ASSUME InitializersTyped, NEW s \in Stations,
         NEW coins, IsFiniteSet(coins), coins \subseteq Coin
  PROVE  /\ Enqueue(s, coins) \in InitializerRecord
         /\ Enqueue(s, coins).pc = initializer[s].pc
         /\ Enqueue(s, coins).mode = initializer[s].mode
         /\ Enqueue(s, coins).force = initializer[s].force
<1> DEFINE small == {c \in coins : TooSmall(c.balance)}
           tasks == {[coin |-> c, count |-> SplitCount(c.balance)] :
                       c \in {d \in coins : ~TooSmall(d.balance)}}
<1>1. SetToSeq(small) \in Seq(Coin)
  <2>1. IsFiniteSet(small) /\ small \subseteq Coin
    BY FS_Subset
  <2> HIDE DEF small
  <2>2. SetToSeq(small) \in [1 .. Cardinality(small) -> small]
    BY <2>1, ListOfASet
  <2>3. Cardinality(small) \in Nat
    BY <2>1, FS_CardinalityType
  <2> QED
    BY <2>1, <2>2, <2>3
<1>2. tasks \subseteq Work
  <2> SUFFICES ASSUME NEW c \in coins, ~TooSmall(c.balance)
               PROVE  [coin |-> c, count |-> SplitCount(c.balance)] \in Work
    OBVIOUS
  <2>1. c \in Coin /\ c.balance \in Nat
    BY DEF Coin
  <2> QED
    BY <2>1, SplitParameters DEF Work
<1>3. initializer[s] \in InitializerRecord
  BY DEF InitializersTyped
<1>4. Enqueue(s, coins) =
        [initializer[s] EXCEPT !.result = @ \o SetToSeq(small),
                               !.work = @ \cup tasks]
  BY DEF Enqueue
<1> HIDE DEF small, tasks
<1>5. /\ initializer[s].result \o SetToSeq(small) \in Seq(Coin)
      /\ initializer[s].work \cup tasks \in SUBSET Work
  BY <1>1, <1>2, <1>3 DEF InitializerRecord
<1>6. Enqueue(s, coins) =
        [initializer[s] EXCEPT !.result = initializer[s].result \o SetToSeq(small),
                               !.work = initializer[s].work \cup tasks]
  BY <1>4
<1> HIDE DEF Enqueue
<1> QED
  BY <1>3, <1>5, <1>6, Zenon DEF InitializerRecord

LEMMA PiecesAreTyped ==
  ASSUME NEW w \in Work, NEW ids, IsFiniteSet(ids), ids \subseteq CoinIds,
         NEW gas \in SplitGas
  PROVE  /\ Pieces(w, ids, gas) \subseteq Coin
         /\ IsFiniteSet(Pieces(w, ids, gas))
         /\ \A c \in Pieces(w, ids, gas) : c.id = w.coin.id \/ c.id \in ids
         /\ w.coin.id \notin ids =>
              \A c, d \in Pieces(w, ids, gas) : c.id = d.id => c = d
<1> DEFINE piece == PieceBalance(w.coin.balance, w.count)
           rest == RestBalance(w.coin.balance, w.count, gas * w.count)
           first == [id |-> w.coin.id, version |-> w.coin.version + 1,
                     balance |-> rest]
           others == {[id |-> i, version |-> 1, balance |-> piece] : i \in ids}
<1>1. /\ w.coin \in Coin /\ w.count \in Nat /\ w.count > 0
      /\ w.coin.id \in CoinIds /\ w.coin.balance \in Nat /\ w.coin.version \in Nat
  BY DEF Work, Coin
<1>2. gas \in Nat /\ U64 \in Nat /\ U64 > 0
  BY InitializerAssumption, GasStationAssumption
<1>3. piece \in Nat
  <2>1. (w.coin.balance - Budget(w.count)) % U64 \in Nat
    BY <1>1, <1>2, SplitParameters
  <2> QED
    BY <1>1, <2>1, Division DEF PieceBalance
<1>4. rest \in Nat
  <2> HIDE DEF piece
  <2>1. rest = (w.coin.balance - piece * (w.count - 1) - gas * w.count) % U64
    BY DEF RestBalance, piece
  <2>2. piece * (w.count - 1) \in Int /\ gas * w.count \in Int
    BY <1>1, <1>2, <1>3
  <2> HIDE DEF rest
  <2> QED
    BY <1>1, <1>2, <2>1, <2>2
<1>5. Pieces(w, ids, gas) = {first} \cup others
  BY DEF Pieces
<1> HIDE DEF piece, rest
<1>6. first \in Coin
  BY <1>1, <1>4 DEF Coin
<1>7. others \subseteq Coin
  BY <1>3 DEF Coin
<1>8. IsFiniteSet({first} \cup others)
  <2> DEFINE f == [i \in ids |-> [id |-> i, version |-> 1, balance |-> piece]]
  <2>1. f \in Surjection(ids, others)
    BY DEF Surjection
  <2>2. IsFiniteSet(others)
    BY <2>1, FS_Surjection
  <2> HIDE DEF others, first
  <2>3. IsFiniteSet(others \cup {first})
    BY <2>2, FS_AddElement
  <2>4. {first} \cup others = others \cup {first}
    OBVIOUS
  <2> QED
    BY <2>3, <2>4
<1> QED
  BY <1>5, <1>6, <1>7, <1>8

LEMMA CommitKeepsIds ==
  ASSUME IdsInv, NEW payment \in Payments, NEW gas \in NetGas,
         Commit(payment, gas), UNCHANGED created
  PROVE  IdsInv'
<1>1. ChainIsUnique'
  BY CommitKeepsChainUnique DEF IdsInv
<1>2. PICK c \in PaidCoins(payment) : payment[1] = RefOf(c)
  <2>1. 1 \in DOMAIN payment
    BY DEF Payments
  <2> QED
    BY <2>1, PaymentIsPaid DEF IdsInv
<1>3. c \in ledger /\ GasCoin(payment, gas).id = c.id
  BY <1>2 DEF PaidCoins, GasCoin, RefOf
<1>4. ledger' = (ledger \ PaidCoins(payment)) \cup {GasCoin(payment, gas)}
  BY DEF Commit
<1>5. \A d \in ledger' : d.id \in created
  BY <1>3, <1>4 DEF IdsInv, IdsAreKnown
<1> QED
  BY <1>1, <1>5 DEF IdsInv, IdsAreKnown

LEMMA ServingKeepsIds ==
  ASSUME Typed, IdsInv, ServingStep, UNCHANGED created
  PROVE  IdsInv'
<1>1. CASE UNCHANGED chainVars
  BY <1>1 DEF chainVars, IdsInv, ChainIsUnique, IdsAreKnown
<1>2. CASE FullnodeSyncs
  BY <1>2 DEF FullnodeSyncs, IdsInv, ChainIsUnique, IdsAreKnown
<1>3. ASSUME NEW t \in Tasks, ExecuteOk(t) PROVE IdsInv'
  <2>1. task[t].payment \in Payments
    BY <1>3, TasksPay DEF ExecuteOk, Typed
  <2>2. PICK gas \in NetGas : Commit(task[t].payment, gas)
    BY <1>3 DEF ExecuteOk
  <2> QED
    BY <2>1, <2>2, CommitKeepsIds
<1>4. ASSUME NEW t \in Tasks, ExecuteErr(t) PROVE IdsInv'
  BY <1>4 DEF ExecuteErr, IdsInv, ChainIsUnique, IdsAreKnown
<1>5. ASSUME NEW payment \in sent, NEW gas \in NetGas, LateCommit(payment, gas)
      PROVE  IdsInv'
  <2>1. payment \in Payments /\ Commit(payment, gas)
    BY <1>5 DEF Typed, ChainTyped, LateCommit
  <2> QED
    BY <2>1, CommitKeepsIds
<1> QED
  BY <1>1, <1>2, <1>3, <1>4, <1>5
     DEF ServingStep, ReserveGas, DebugCheckHealth, Reserve, StartExecution,
         TaskStep, QueryTotalBalance, QueryLatest, TriggerRescan, ReleaseCoins,
         UnlockStep, UnlockExpire, UnlockQuery, UnlockRelease, TimePasses,
         chainVars

(* A split replaces its coin by a later version of it and by new coins. *)
LEMMA SplitKeepsIds ==
  ASSUME Typed, IdsInv, NEW w \in Work, NEW gas \in SplitGas,
         CommitSplit(w, gas)
  PROVE  /\ ChainTyped'
         /\ IdsInv'
         /\ Pieces(w, FreshIds(w.count - 1), gas) \subseteq Coin
         /\ IsFiniteSet(Pieces(w, FreshIds(w.count - 1), gas))
<1> DEFINE ids == FreshIds(w.count - 1)
           pieces == Pieces(w, ids, gas)
<1>1. w.count \in Nat \ {0} /\ w.coin \in ledger /\ w.coin \in Coin
  BY DEF Work, CommitSplit
<1>2. ids \subseteq CoinIds \ created /\ w.coin.id \notin ids
  <2>1. w.count - 1 \in Nat /\ Cardinality(CoinIds \ created) >= w.count - 1
    BY <1>1 DEF CommitSplit
  <2>2. w.coin.id \in created
    BY <1>1 DEF IdsInv, IdsAreKnown
  <2> QED
    BY <2>1, <2>2, FreshIdsAreFresh
<1>3. IsFiniteSet(ids)
  BY <1>2, GasStationAssumption, FS_Subset
<1>4. /\ ledger' = (ledger \ {w.coin}) \cup pieces
      /\ created' = created \cup ids
      /\ fullnode' = ledger' \/ fullnode' = fullnode
      /\ UNCHANGED <<sent, late>>
  BY DEF CommitSplit, FullnodeFollows
<1> HIDE DEF ids
<1>5. /\ pieces \subseteq Coin
      /\ IsFiniteSet(pieces)
      /\ \A c \in pieces : c.id = w.coin.id \/ c.id \in ids
      /\ \A c, d \in pieces : c.id = d.id => c = d
  BY <1>2, <1>3, PiecesAreTyped
<1> HIDE DEF pieces
<1>6. ChainTyped'
  <2>1. IsFiniteSet(ledger \ {w.coin})
    BY FS_RemoveElement DEF Typed, ChainTyped
  <2>2. IsFiniteSet(ledger') /\ ledger' \subseteq Coin
    BY <1>4, <1>5, <2>1, FS_Union DEF Typed, ChainTyped
  <2> QED
    BY <1>4, <2>2 DEF Typed, ChainTyped
<1>7. IdsAreKnown'
  BY <1>1, <1>2, <1>4, <1>5 DEF IdsInv, IdsAreKnown
<1>8. ASSUME NEW c \in ledger', NEW d \in ledger', c.id = d.id PROVE c = d
  <2>1. \A e \in ledger \ {w.coin} : e.id # w.coin.id /\ e.id \notin ids
    BY <1>1, <1>2 DEF IdsInv, IdsAreKnown, ChainIsUnique
  <2>2. CASE c \in pieces /\ d \in pieces
    BY <1>5, <1>8, <2>2
  <2>3. CASE c \in ledger /\ d \in ledger
    BY <1>8, <2>3 DEF IdsInv, ChainIsUnique
  <2> QED
    BY <1>4, <1>5, <1>8, <2>1, <2>2, <2>3
<1>9. ChainIsUnique'
  BY <1>4, <1>8 DEF IdsInv, ChainIsUnique
<1> QED
  BY <1>5, <1>6, <1>7, <1>9 DEF IdsInv, pieces, ids

-----------------------------------------------------------------------------
(* Where a step takes a station. *)
Changes(s, pc, force) ==
  \E new \in InitializerRecord :
    /\ initializer' = [initializer EXCEPT ![s] = new]
    /\ new.pc = pc
    /\ new.force = force

LEMMA StationChanges ==
  ASSUME InitializersTyped, ServersAreStarted, NEW s \in Stations,
         NEW new \in InitializerRecord,
         initializer' = [initializer EXCEPT ![s] = new],
         up' \subseteq up \cup {s},
         s \in up' => /\ new.pc \in RefreshPCs
                      /\ ~new.force
                      /\ new.pc = "lock" => new.mode = "Refresh"
  PROVE  InitializersTyped' /\ ServersAreStarted'
BY DEF InitializersTyped, ServersAreStarted

LEMMA StationMoves ==
  ASSUME InitializersTyped, ServersAreStarted, NEW s \in Stations,
         NEW pc \in InitializerPCs, Moves(s, pc), up' \subseteq up,
         s \in up => pc \in RefreshPCs \ {"lock"}
  PROVE  InitializersTyped' /\ ServersAreStarted'
<1> DEFINE new == [initializer[s] EXCEPT !.pc = pc]
<1>1. initializer[s] \in InitializerRecord
  BY DEF InitializersTyped
<1>2. new \in InitializerRecord /\ new.pc = pc /\ new.force = initializer[s].force
  BY <1>1 DEF InitializerRecord
<1>3. initializer' = [initializer EXCEPT ![s] = new]
  BY DEF Moves
<1> HIDE DEF new
<1>4. s \in up => ~new.force
  BY <1>2 DEF ServersAreStarted
<1> QED
  BY <1>2, <1>3, <1>4, StationChanges

LEMMA DownIsTyped ==
  /\ Down \in InitializerRecord
  /\ Down.mode = "Init" /\ ~Down.force
  /\ \A pc \in InitializerPCs, force \in BOOLEAN :
       [Down EXCEPT !.pc = pc, !.force = force] \in InitializerRecord
<1>1. << >> \in Seq(Coin)
  OBVIOUS
<1>2. {} \in SUBSET Work /\ "down" \in InitializerPCs /\ "Init" \in RunMode
      /\ FALSE \in BOOLEAN
  BY DEF InitializerPCs, RunMode
<1>3. Down \in InitializerRecord
  BY <1>1, <1>2, Zenon DEF Down, InitializerRecord
<1>4. Down.mode = "Init" /\ ~Down.force
  BY DEF Down
<1>5. ASSUME NEW pc \in InitializerPCs, NEW force \in BOOLEAN
      PROVE  [Down EXCEPT !.pc = pc, !.force = force] \in InitializerRecord
  BY <1>3, <1>5 DEF InitializerRecord
<1> QED
  BY <1>3, <1>4, <1>5

LEMMA MovesAreChanges ==
  ASSUME InitializersTyped, NEW s \in Stations, NEW pc \in InitializerPCs,
         Moves(s, pc)
  PROVE  Changes(s, pc, initializer[s].force)
<1> DEFINE new == [initializer[s] EXCEPT !.pc = pc]
<1>1. initializer[s] \in InitializerRecord
  BY DEF InitializersTyped
<1>2. new \in InitializerRecord /\ new.pc = pc /\ new.force = initializer[s].force
  BY <1>1 DEF InitializerRecord
<1>3. initializer' = [initializer EXCEPT ![s] = new]
  BY DEF Moves
<1> HIDE DEF new
<1> QED
  BY <1>2, <1>3 DEF Changes

LEMMA DownIsAChange ==
  ASSUME NEW s \in Stations, NEW pc \in InitializerPCs, NEW force \in BOOLEAN
  PROVE  /\ initializer' = [initializer EXCEPT ![s] = Down] =>
              Changes(s, "down", FALSE)
         /\ initializer' = [initializer EXCEPT ![s] = [Down EXCEPT !.pc = pc]] =>
              Changes(s, pc, FALSE)
         /\ initializer' = [initializer EXCEPT
              ![s] = [Down EXCEPT !.pc = pc, !.force = force]] =>
              Changes(s, pc, force)
<1> DEFINE stopped == [Down EXCEPT !.pc = pc]
           started == [Down EXCEPT !.pc = pc, !.force = force]
<1>1. Down \in InitializerRecord /\ Down.force = FALSE /\ Down.pc = "down"
  BY DownIsTyped DEF Down
<1>2. stopped \in InitializerRecord /\ stopped.pc = pc /\ stopped.force = FALSE
  BY <1>1 DEF InitializerRecord
<1>3. started \in InitializerRecord /\ started.pc = pc /\ started.force = force
  BY <1>1 DEF InitializerRecord
<1>4. ASSUME initializer' = [initializer EXCEPT ![s] = Down]
      PROVE  Changes(s, "down", FALSE)
  BY <1>1, <1>4, Zenon DEF Changes
<1> HIDE DEF stopped, started
<1>5. ASSUME initializer' = [initializer EXCEPT ![s] = stopped]
      PROVE  Changes(s, pc, FALSE)
  BY <1>2, <1>5, Zenon DEF Changes
<1>6. ASSUME initializer' = [initializer EXCEPT ![s] = started]
      PROVE  Changes(s, pc, force)
  BY <1>3, <1>6, Zenon DEF Changes
<1> QED
  BY <1>4, <1>5, <1>6 DEF stopped, started

LEMMA ChangedServers ==
  ASSUME InitializersTyped, ServersAreStarted, NEW s \in Stations,
         NEW pc \in RefreshPCs \ {"lock"},
         Changes(s, pc, initializer[s].force), up' = up
  PROVE  InitializersTyped' /\ ServersAreStarted'
<1>1. s \in up => ~initializer[s].force
  BY DEF ServersAreStarted
<1> QED
  BY <1>1, StationChanges DEF Changes

(* A station goes down, serves, or its background task dies. *)
LEMMA StationEnds ==
  ASSUME InitializersTyped, ServersAreStarted, NEW s \in Stations,
         \/ initializer' = [initializer EXCEPT ![s] = Down] /\ up' \subseteq up \ {s}
         \/ /\ initializer' = [initializer EXCEPT ![s] = [Down EXCEPT !.pc = "wait"]]
            /\ up' = up \cup {s}
         \/ /\ initializer' = [initializer EXCEPT ![s] = [Down EXCEPT !.pc = "dead"]]
            /\ up' = up
  PROVE  InitializersTyped' /\ ServersAreStarted'
<1>1. CASE initializer' = [initializer EXCEPT ![s] = Down] /\ up' \subseteq up \ {s}
  BY <1>1, DownIsTyped, StationChanges
<1>2. ASSUME NEW pc \in {"wait", "dead"}, up' \subseteq up \cup {s},
             initializer' = [initializer EXCEPT ![s] = [Down EXCEPT !.pc = pc]]
      PROVE  InitializersTyped' /\ ServersAreStarted'
  <2> DEFINE new == [Down EXCEPT !.pc = pc]
  <2>1. /\ new \in InitializerRecord
        /\ new.pc \in RefreshPCs \ {"lock"}
        /\ ~new.force
    <3>1. pc \in InitializerPCs /\ pc \in RefreshPCs \ {"lock"}
      BY <1>2 DEF InitializerPCs, RefreshPCs
    <3>2. Down \in InitializerRecord /\ ~Down.force
      BY DownIsTyped
    <3>3. new \in InitializerRecord /\ new.pc = pc /\ new.force = Down.force
      BY <3>1, <3>2 DEF InitializerRecord
    <3> HIDE DEF new
    <3> QED
      BY <3>1, <3>2, <3>3
  <2> HIDE DEF new
  <2> QED
    BY <1>2, <2>1, StationChanges DEF new
<1> QED
  BY <1>1, <1>2

(* Steps that run a script, and start or stop a server, and leave alone the
   coins and those who hold some. *)
LEMMA ScriptsAreTyped ==
  ASSUME Typed, IdsInv,
         UNCHANGED <<chainVars, granted, task, unlocker, rescanQueue, crashes,
                     lostReplies, created>>,
         up' \subseteq Stations,
         \/ UNCHANGED <<available, nextReservationId, reservations>>
         \/ CleanUpCoinRegistry
         \/ \E coins \in Seq(Coin) : PushCoins(coins)
  PROVE  Typed' /\ IdsInv'
<1>1. PoolTyped'
  <2>1. CASE UNCHANGED <<available, nextReservationId, reservations>>
    BY <2>1 DEF Typed, PoolTyped
  <2>2. CASE CleanUpCoinRegistry
    BY <2>2 DEF CleanUpCoinRegistry, PoolTyped
  <2>3. ASSUME NEW coins \in Seq(Coin), PushCoins(coins) PROVE PoolTyped'
    BY <2>3, AddingIsTyped DEF Typed
  <2> QED
    BY <2>1, <2>2, <2>3
<1>2. ChainTyped' /\ GrantsTyped' /\ TasksTyped' /\ UnlockersTyped' /\ ProcessesTyped'
  BY DEF Typed, chainVars, ChainTyped, GrantsTyped, TasksTyped, UnlockersTyped,
         ProcessesTyped
<1>3. IdsInv'
  BY DEF chainVars, IdsInv, ChainIsUnique, IdsAreKnown
<1> QED
  BY <1>1, <1>2, <1>3 DEF Typed

-----------------------------------------------------------------------------
LEMMA ServingKeepsInv ==
  ASSUME InitializerInv, Serving
  PROVE  InitializerInv'
<1>1. ServingStep /\ UNCHANGED initializerVars
  BY DEF Serving, ServingStep
<1>2. Typed' /\ IdsInv'
  BY <1>1, ServingIsTyped, ServingKeepsIds DEF InitializerInv, initializerVars
<1>3. UNCHANGED up
  BY <1>1
     DEF ServingStep, LateCommit, ReserveGas, DebugCheckHealth, Reserve, StartExecution,
         TaskStep, QueryTotalBalance, ExecuteOk, ExecuteErr, QueryLatest,
         TriggerRescan, ReleaseCoins, UnlockStep, UnlockExpire, UnlockQuery,
         UnlockRelease, FullnodeSyncs, TimePasses, processVars, faultVars
<1>4. InitializersTyped' /\ ServersAreStarted'
  BY <1>1, <1>3
     DEF InitializerInv, initializerVars, InitializersTyped, ServersAreStarted
<1> QED
  BY <1>2, <1>4 DEF InitializerInv

LEMMA StartKeepsInv ==
  ASSUME InitializerInv, NEW s \in Stations, Start(s)
  PROVE  InitializerInv'
<1> USE DEF InitializerInv
<1>1. s \notin up
  BY DEF Start, At, ServersAreStarted, RefreshPCs
<1>2. PICK force \in {FALSE, FullRescans} :
        initializer' = [initializer EXCEPT
          ![s] = [Down EXCEPT !.pc = "boot", !.force = force]]
  BY DEF Start
<1>3. UNCHANGED <<chainVars, granted, processVars, created>>
  BY DEF Start
<1>4. InitializersTyped' /\ ServersAreStarted'
  <2> DEFINE new == [Down EXCEPT !.pc = "boot", !.force = force]
  <2>1. "boot" \in InitializerPCs /\ force \in BOOLEAN
    BY InitializerAssumption DEF InitializerPCs
  <2>2. new \in InitializerRecord
    BY <2>1, DownIsTyped
  <2> HIDE DEF new
  <2>3. initializer' = [initializer EXCEPT ![s] = new]
    BY <1>2 DEF new
  <2>4. up' = up
    BY <1>3 DEF processVars, faultVars
  <2> QED
    BY <1>1, <2>2, <2>3, <2>4, StationChanges
<1>5. Typed' /\ IdsInv'
  <2>1. UNCHANGED <<available, nextReservationId, reservations>>
    BY DEF Start, InitCoinStats, reservationVars
  <2> QED
    BY <1>3, <2>1, ScriptsAreTyped
       DEF processVars, faultVars, Typed, ProcessesTyped
<1> QED
  BY <1>4, <1>5

(* The steps of an initializer that change no coin: what each does to its own
   record and to the set of servers. *)
LEMMA ScriptStepsKeepInv ==
  ASSUME InitializerInv, NEW s \in Stations,
         \/ CheckInitialized(s) \/ BeginMaintenance(s) \/ CleanUp(s)
         \/ ResetStats(s) \/ AcquireLock(s) \/ ReleaseLock(s)
         \/ EndMaintenance(s)
  PROVE  InitializerInv'
<1> USE DEF InitializerInv
<1>1. /\ initializer[s].pc \in RefreshPCs \/ s \notin up
      /\ s \in up => ~initializer[s].force
      /\ s \in up /\ initializer[s].pc = "lock" => initializer[s].mode = "Refresh"
      /\ up \subseteq Stations
  BY DEF ServersAreStarted, Typed, ProcessesTyped
<1>2. Typed' /\ IdsInv'
  <2>1. \/ UNCHANGED <<available, nextReservationId, reservations>>
        \/ CleanUpCoinRegistry
    BY DEF CheckInitialized, BeginMaintenance, CleanUp, ResetStats, AcquireLock,
           ReleaseLock, EndMaintenance, AcquireMaintenanceLock, InitCoinStats,
           AcquireInitLock, ReleaseInitLock, ReleaseMaintenanceLock,
           registryVars, poolVars, reservationVars
  <2>2. UNCHANGED <<chainVars, granted, task, unlocker, rescanQueue, crashes,
                    lostReplies, created>>
    BY DEF CheckInitialized, BeginMaintenance, CleanUp, ResetStats, AcquireLock,
           ReleaseLock, EndMaintenance, ScriptOnly, Serve, Panic, processVars,
           faultVars
  <2>3. up' \subseteq Stations
    <3>1. up' = up \/ up' = up \cup {s}
      BY DEF CheckInitialized, BeginMaintenance, CleanUp, ResetStats, AcquireLock,
             ReleaseLock, EndMaintenance, ScriptOnly, Serve, Panic, processVars,
             faultVars
    <3> QED
      BY <1>1, <3>1
  <2> QED
    BY <2>1, <2>2, <2>3, ScriptsAreTyped
<1>3. ASSUME Serve(s) PROVE InitializersTyped' /\ ServersAreStarted'
  BY <1>3, StationEnds DEF Serve
<1>4. ASSUME initializer' = [initializer EXCEPT ![s] = Down], s \notin up,
             UNCHANGED processVars
      PROVE  InitializersTyped' /\ ServersAreStarted'
  <2>1. up' \subseteq up \ {s}
    BY <1>4 DEF processVars, faultVars
  <2> QED
    BY <1>4, <2>1, StationEnds
<1>5. ASSUME NEW pc \in InitializerPCs, Moves(s, pc), UNCHANGED processVars,
             s \in up => pc \in RefreshPCs \ {"lock"}
      PROVE  InitializersTyped' /\ ServersAreStarted'
  BY <1>5, StationMoves DEF processVars, faultVars
<1>6. InitializersTyped' /\ ServersAreStarted'
  <2>1. CASE CheckInitialized(s)
    <3>1. s \notin up /\ "lock" \in InitializerPCs
      BY <1>1, <2>1 DEF CheckInitialized, At, RefreshPCs, InitializerPCs
    <3> QED
      BY <2>1, <3>1, <1>3, <1>5 DEF CheckInitialized
  <2>2. CASE BeginMaintenance(s)
    <3>1. s \notin up /\ "clean" \in InitializerPCs
      BY <1>1, <2>2 DEF BeginMaintenance, At, RefreshPCs, InitializerPCs
    <3> QED
      BY <2>2, <3>1, <1>4, <1>5 DEF BeginMaintenance, Panic
  <2>3. CASE CleanUp(s)
    <3>1. s \notin up /\ "stats" \in InitializerPCs
      BY <1>1, <2>3 DEF CleanUp, At, RefreshPCs, InitializerPCs
    <3> QED
      BY <2>3, <3>1, <1>5 DEF CleanUp, ScriptOnly
  <2>4. CASE ResetStats(s)
    <3>1. s \notin up /\ "lock" \in InitializerPCs
      BY <1>1, <2>4 DEF ResetStats, At, RefreshPCs, InitializerPCs
    <3> QED
      BY <2>4, <3>1, <1>5 DEF ResetStats, ScriptOnly
  <2>5. CASE AcquireLock(s)
    <3>1. {"scan", "wait", "fail"} \subseteq InitializerPCs
          /\ {"scan", "wait"} \subseteq RefreshPCs \ {"lock"}
      BY DEF InitializerPCs, RefreshPCs
    <3>2. UNCHANGED processVars /\ initializer[s].pc = "lock"
      BY <2>5 DEF AcquireLock, ScriptOnly, At
    <3>3. Moves(s, "scan") \/ LockRefused(s)
      BY <2>5 DEF AcquireLock
    <3>4. CASE Moves(s, "scan")
      BY <3>1, <3>2, <3>4, <1>5
    <3>5. CASE LockRefused(s)
      BY <3>1, <3>2, <3>5, <1>1, <1>4, <1>5 DEF LockRefused
    <3> QED
      BY <3>3, <3>4, <3>5
  <2>6. CASE ReleaseLock(s)
    <3>1. {"end", "wait"} \subseteq InitializerPCs
          /\ "wait" \in RefreshPCs \ {"lock"}
      BY DEF InitializerPCs, RefreshPCs
    <3> QED
      BY <2>6, <3>1, <1>1, <1>3, <1>5 DEF ReleaseLock
  <2>7. CASE EndMaintenance(s)
    <3>1. s \notin up
      BY <1>1, <2>7 DEF EndMaintenance, RefreshPCs
    <3> QED
      BY <2>7, <3>1, <1>3, <1>4 DEF EndMaintenance, Panic
  <2> QED
    BY <2>1, <2>2, <2>3, <2>4, <2>5, <2>6, <2>7
<1> QED
  BY <1>2, <1>6

LEMMA ScanChanges ==
  ASSUME InitializerInv, NEW s \in Stations, Scan(s)
  PROVE  \E pc \in {"split", "unlock"} : Changes(s, pc, initializer[s].force)
<1> DEFINE found == {c \in fullnode : c.balance >= Threshold(s)}
           next == IF found = {} THEN "unlock" ELSE "split"
           new == [Enqueue(s, found) EXCEPT !.pc = next]
<1>1. IsFiniteSet(found) /\ found \subseteq Coin
  BY FS_Subset DEF InitializerInv, Typed, ChainTyped
<1>2. initializer' = [initializer EXCEPT ![s] = new]
  BY DEF Scan
<1> HIDE DEF found
<1>3. /\ Enqueue(s, found) \in InitializerRecord
      /\ Enqueue(s, found).force = initializer[s].force
  BY <1>1, EnqueueIsTyped DEF InitializerInv
<1>4. next \in InitializerPCs /\ next \in {"split", "unlock"}
  BY DEF InitializerPCs
<1> HIDE DEF next
<1>5. new \in InitializerRecord /\ new.pc = next /\ new.force = initializer[s].force
  BY <1>3, <1>4 DEF InitializerRecord
<1> HIDE DEF new
<1> QED
  BY <1>2, <1>4, <1>5 DEF Changes

LEMMA ScanKeepsInv ==
  ASSUME InitializerInv, NEW s \in Stations, Scan(s)
  PROVE  InitializerInv'
<1>1. UNCHANGED <<registryVars, chainVars, granted, processVars, created>>
  BY DEF Scan, ScriptOnly
<1>2. up' = up
  BY <1>1 DEF processVars, faultVars
<1>3. InitializersTyped' /\ ServersAreStarted'
  BY <1>2, ScanChanges, ChangedServers DEF InitializerInv, RefreshPCs
<1>4. Typed' /\ IdsInv'
  BY <1>1, <1>2, ScriptsAreTyped
     DEF registryVars, poolVars, reservationVars, processVars, faultVars,
         InitializerInv, Typed, ProcessesTyped
<1> QED
  BY <1>3, <1>4 DEF InitializerInv

(* The steps of a split leave the registry and the stations alone. *)
LEMMA SplitsAreTyped ==
  ASSUME InitializerInv, NEW s \in Stations, At(s, "split"),
         UNCHANGED <<registryVars, granted, processVars>>,
         ChainTyped', IdsInv',
         \/ Changes(s, "split", initializer[s].force)
         \/ initializer' = [initializer EXCEPT ![s] =
              IF s \in up THEN [Down EXCEPT !.pc = "dead"] ELSE Down]
  PROVE  InitializerInv'
<1> USE DEF InitializerInv
<1>1. up' = up
  BY DEF processVars, faultVars
<1>2. Typed'
  BY DEF Typed, registryVars, poolVars, reservationVars, processVars, faultVars,
         PoolTyped, GrantsTyped, TasksTyped, UnlockersTyped, ProcessesTyped
<1>3. InitializersTyped' /\ ServersAreStarted'
  <2>1. CASE Changes(s, "split", initializer[s].force)
    <3>1. "split" \in RefreshPCs \ {"lock"}
      BY DEF RefreshPCs
    <3> QED
      BY <1>1, <2>1, <3>1, ChangedServers
  <2>2. CASE initializer' = [initializer EXCEPT ![s] =
               IF s \in up THEN [Down EXCEPT !.pc = "dead"] ELSE Down]
    BY <1>1, <2>2, StationEnds
  <2> QED
    BY <2>1, <2>2
<1> QED
  BY <1>2, <1>3

LEMMA SplitOkChanges ==
  ASSUME InitializerInv, NEW s \in Stations, At(s, "split"),
         NEW w \in initializer[s].work, SplitOk(s, w)
  PROVE  ChainTyped' /\ IdsInv' /\ Changes(s, "split", initializer[s].force)
<1> USE DEF InitializerInv
<1>1. initializer[s] \in InitializerRecord /\ w \in Work
  BY DEF InitializersTyped, InitializerRecord
<1>2. PICK gas \in SplitGas :
        /\ CommitSplit(w, gas)
        /\ LET rest == Enqueue(s, Pieces(w, FreshIds(w.count - 1), gas))
           IN  initializer' = [initializer EXCEPT
                 ![s] = [rest EXCEPT !.work = @ \ {w}]]
  BY DEF SplitOk
<1> DEFINE pieces == Pieces(w, FreshIds(w.count - 1), gas)
           rest == Enqueue(s, pieces)
           new == [rest EXCEPT !.work = @ \ {w}]
<1>3. ChainTyped' /\ IdsInv' /\ pieces \subseteq Coin /\ IsFiniteSet(pieces)
  BY <1>1, <1>2, SplitKeepsIds
<1>4. initializer' = [initializer EXCEPT ![s] = new]
  BY <1>2
<1> HIDE DEF pieces
<1>5. /\ rest \in InitializerRecord
      /\ rest.pc = "split"
      /\ rest.force = initializer[s].force
  BY <1>3, EnqueueIsTyped DEF At
<1> HIDE DEF rest
<1>6. /\ new \in InitializerRecord
      /\ new.pc = "split"
      /\ new.force = initializer[s].force
  BY <1>5 DEF InitializerRecord
<1> HIDE DEF new
<1> QED
  BY <1>3, <1>4, <1>6 DEF Changes

LEMMA SplitErrChanges ==
  ASSUME InitializerInv, NEW s \in Stations, At(s, "split"),
         NEW w \in initializer[s].work, SplitErr(s, w)
  PROVE  /\ ChainTyped' /\ IdsInv'
         /\ \/ Changes(s, "split", initializer[s].force)
            \/ initializer' = [initializer EXCEPT ![s] =
                 IF s \in up THEN [Down EXCEPT !.pc = "dead"] ELSE Down]
<1> USE DEF InitializerInv
<1>1. initializer[s] \in InitializerRecord /\ w \in Work
  BY DEF InitializersTyped, InitializerRecord
<1>2. ChainTyped' /\ IdsInv'
  <2>1. CASE UNCHANGED <<chainVars, created>>
    BY <2>1 DEF chainVars, Typed, ChainTyped, IdsInv, ChainIsUnique, IdsAreKnown
  <2>2. ASSUME NEW gas \in SplitGas, CommitSplit(w, gas)
        PROVE  ChainTyped' /\ IdsInv'
    BY <1>1, <2>2, SplitKeepsIds
  <2> QED
    BY <2>1, <2>2 DEF SplitErr
<1> DEFINE latest == {c \in fullnode' : c.id = w.coin.id}
           again == {[w EXCEPT !.coin = c] : c \in latest}
           new == [initializer[s] EXCEPT !.work = (@ \ {w}) \cup again]
<1>3. again \subseteq Work
  <2> SUFFICES ASSUME NEW c \in latest PROVE [w EXCEPT !.coin = c] \in Work
    OBVIOUS
  <2>1. c \in Coin
    BY <1>2 DEF ChainTyped
  <2> QED
    BY <1>1, <2>1 DEF Work
<1>4. \/ initializer' = [initializer EXCEPT ![s] =
              IF s \in up THEN [Down EXCEPT !.pc = "dead"] ELSE Down]
      \/ initializer' = [initializer EXCEPT ![s].work = (@ \ {w}) \cup again]
  BY DEF SplitErr
<1> HIDE DEF again
<1>5. /\ new \in InitializerRecord
      /\ new.pc = "split"
      /\ new.force = initializer[s].force
  BY <1>1, <1>3 DEF InitializerRecord, At
<1>6. [initializer EXCEPT ![s].work = (@ \ {w}) \cup again] =
        [initializer EXCEPT ![s] = new]
  OBVIOUS
<1> HIDE DEF new
<1> QED
  BY <1>2, <1>4, <1>5, <1>6 DEF Changes

LEMMA SplitKeepsInv ==
  ASSUME InitializerInv, NEW s \in Stations, Split(s)
  PROVE  InitializerInv'
<1>1. At(s, "split") /\ UNCHANGED <<registryVars, granted, processVars>>
  BY DEF Split
<1>2. CASE Moves(s, "add") /\ UNCHANGED <<chainVars, created>>
  <2>1. "add" \in InitializerPCs /\ "add" \in RefreshPCs \ {"lock"}
    BY DEF InitializerPCs, RefreshPCs
  <2>2. up' = up
    BY <1>1 DEF processVars, faultVars
  <2>3. InitializersTyped' /\ ServersAreStarted'
    BY <1>2, <2>1, <2>2, StationMoves DEF InitializerInv
  <2>4. Typed' /\ IdsInv'
    BY <1>1, <1>2, <2>2, ScriptsAreTyped
       DEF registryVars, poolVars, reservationVars, processVars, faultVars,
           InitializerInv, Typed, ProcessesTyped
  <2> QED
    BY <2>3, <2>4 DEF InitializerInv
<1> QED
  BY <1>1, <1>2, SplitOkChanges, SplitErrChanges, SplitsAreTyped DEF Split

LEMMA AddChunkChanges ==
  ASSUME InitializerInv, NEW s \in Stations, AddChunk(s)
  PROVE  \/ /\ \E coins \in Seq(Coin) : PushCoins(coins)
            /\ \/ Changes(s, "add", initializer[s].force)
               \/ initializer' = [initializer EXCEPT ![s] =
                    IF s \in up THEN [Down EXCEPT !.pc = "dead"] ELSE Down]
         \/ UNCHANGED registryVars /\ Changes(s, "unlock", initializer[s].force)
<1> USE DEF InitializerInv
<1> DEFINE result == initializer[s].result
           n == IF Len(result) < ChunkSize THEN Len(result) ELSE ChunkSize
           chunk == SubSeq(result, 1, n)
           rest == SubSeq(result, n + 1, Len(result))
           new == [initializer[s] EXCEPT !.result = rest]
<1>1. initializer[s] \in InitializerRecord /\ initializer[s].pc = "add"
  BY DEF InitializersTyped, AddChunk, At
<1>2. result \in Seq(Coin) /\ Len(result) \in Nat
  BY <1>1 DEF InitializerRecord
<1>3. n \in 0 .. Len(result)
  BY <1>2, InitializerAssumption
<1>4. \/ /\ PushCoins(chunk)
         /\ \/ initializer' = [initializer EXCEPT ![s] = new]
            \/ initializer' = [initializer EXCEPT ![s] =
                 IF s \in up THEN [Down EXCEPT !.pc = "dead"] ELSE Down]
      \/ Moves(s, "unlock") /\ UNCHANGED registryVars
  BY DEF AddChunk, AddNewCoins, AddNewCoinsFailed
<1> HIDE DEF n
<1>5. chunk \in Seq(Coin) /\ rest \in Seq(Coin)
  BY <1>2, <1>3, SplitAt
<1> HIDE DEF chunk, rest
<1>6. /\ new \in InitializerRecord
      /\ new.pc = "add"
      /\ new.force = initializer[s].force
  BY <1>1, <1>5 DEF InitializerRecord
<1> HIDE DEF new
<1>7. "unlock" \in InitializerPCs
  BY DEF InitializerPCs
<1> QED
  BY <1>4, <1>5, <1>6, <1>7, MovesAreChanges DEF Changes

LEMMA AddChunkKeepsInv ==
  ASSUME InitializerInv, NEW s \in Stations, AddChunk(s)
  PROVE  InitializerInv'
<1> USE DEF InitializerInv
<1>1. UNCHANGED <<chainVars, granted, processVars, created>> /\ up' = up
  BY DEF AddChunk, ScriptOnly, processVars, faultVars
<1>2. Typed' /\ IdsInv'
  <2>1. \/ UNCHANGED <<available, nextReservationId, reservations>>
        \/ \E coins \in Seq(Coin) : PushCoins(coins)
    BY AddChunkChanges DEF registryVars, poolVars, reservationVars
  <2> QED
    BY <1>1, <2>1, ScriptsAreTyped DEF processVars, faultVars, Typed, ProcessesTyped
<1>3. InitializersTyped' /\ ServersAreStarted'
  <2>1. {"add", "unlock"} \subseteq RefreshPCs \ {"lock"}
    BY DEF RefreshPCs
  <2>2. ASSUME NEW pc \in {"add", "unlock"}, Changes(s, pc, initializer[s].force)
        PROVE  InitializersTyped' /\ ServersAreStarted'
    BY <1>1, <2>1, <2>2, ChangedServers
  <2>3. CASE initializer' = [initializer EXCEPT ![s] =
               IF s \in up THEN [Down EXCEPT !.pc = "dead"] ELSE Down]
    BY <1>1, <2>3, StationEnds
  <2> QED
    BY <2>2, <2>3, AddChunkChanges
<1> QED
  BY <1>2, <1>3

LEMMA WakeKeepsInv ==
  ASSUME InitializerInv, NEW s \in Stations, Wake(s),
         rescanQueue' \in [Stations -> 0 .. RescanBuffer]
  PROVE  InitializerInv'
<1> USE DEF InitializerInv
<1> DEFINE new == [Down EXCEPT !.pc = "lock", !.mode = "Refresh"]
<1>1. new \in InitializerRecord /\ new.mode = "Refresh" /\ ~new.force
  <2>1. "lock" \in InitializerPCs /\ "Refresh" \in RunMode
    BY DEF InitializerPCs, RunMode
  <2>2. Down \in InitializerRecord /\ ~Down.force
    BY DownIsTyped
  <2> QED
    BY <2>1, <2>2 DEF InitializerRecord
<1>2. new.pc \in RefreshPCs
  <2>1. Down \in InitializerRecord
    BY DownIsTyped
  <2> QED
    BY <2>1 DEF InitializerRecord, RefreshPCs
<1>3. initializer' = [initializer EXCEPT ![s] = new]
  BY DEF Wake
<1> HIDE DEF new
<1>4. up' = up
  BY DEF Wake, faultVars
<1>5. InitializersTyped' /\ ServersAreStarted'
  BY <1>1, <1>2, <1>3, <1>4, StationChanges
<1>6. Typed' /\ IdsInv'
  BY DEF Wake, registryVars, poolVars, reservationVars, chainVars, faultVars,
         Typed, PoolTyped, ChainTyped, GrantsTyped, TasksTyped, UnlockersTyped,
         ProcessesTyped, IdsInv, ChainIsUnique, IdsAreKnown
<1> QED
  BY <1>5, <1>6

LEMMA CrashAnywhereKeepsInv ==
  ASSUME InitializerInv, NEW s \in Stations, CrashAnywhere(s)
  PROVE  InitializerInv'
<1> USE DEF InitializerInv
<1>1. CASE s \in up
  <2>1. Crash(s)
    BY <1>1 DEF CrashAnywhere
  <2>2. Typed'
    BY <2>1, CrashIsTyped
  <2>3. IdsInv'
    BY <2>1 DEF CrashAnywhere, Crash, chainVars, IdsInv, ChainIsUnique, IdsAreKnown
  <2>4. up' \subseteq up \ {s}
    BY <2>1 DEF Crash
  <2>5. InitializersTyped' /\ ServersAreStarted'
    BY <2>4, StationEnds DEF CrashAnywhere
  <2> QED
    BY <2>2, <2>3, <2>5
<1>2. CASE s \notin up
  <2>1. UNCHANGED <<registryVars, chainVars, granted, task, unlocker,
                    rescanQueue, up, lostReplies, created>>
        /\ crashes' = crashes + 1
    BY <1>2 DEF CrashAnywhere
  <2>2. Typed' /\ IdsInv'
    BY <2>1
       DEF registryVars, poolVars, reservationVars, chainVars, Typed, PoolTyped,
           ChainTyped, GrantsTyped, TasksTyped, UnlockersTyped, ProcessesTyped,
           IdsInv, ChainIsUnique, IdsAreKnown
  <2>3. InitializersTyped' /\ ServersAreStarted'
    <3>1. up' \subseteq up \ {s}
      BY <1>2, <2>1
    <3> QED
      BY <3>1, StationEnds DEF CrashAnywhere
  <2> QED
    BY <2>2, <2>3
<1> QED
  BY <1>1, <1>2

LEMMA DepositKeepsInv ==
  ASSUME InitializerInv, Deposit
  PROVE  InitializerInv'
<1> USE DEF InitializerInv
<1> DEFINE id == CHOOSE i \in CoinIds \ created : TRUE
           coin == [id |-> id, balance |-> DepositBalance, version |-> 1]
<1>1. id \in CoinIds \ created
  BY DEF Deposit
<1>2. coin \in Coin
  BY <1>1, InitializerAssumption DEF Coin
<1>3. /\ ledger' = ledger \cup {coin}
      /\ fullnode' = ledger' \/ fullnode' = fullnode
      /\ created' = created \cup {coin.id}
      /\ UNCHANGED <<registryVars, sent, late, granted, processVars, initializer>>
  BY DEF Deposit, FullnodeFollows
<1>4. coin.id = id
  OBVIOUS
<1> HIDE DEF coin, id
<1>5. ChainTyped'
  <2>1. IsFiniteSet(ledger') /\ ledger' \subseteq Coin
    BY <1>2, <1>3, FS_AddElement DEF Typed, ChainTyped
  <2> QED
    BY <1>3, <2>1 DEF Typed, ChainTyped
<1>6. IdsInv'
  <2>1. \A c \in ledger : c.id # coin.id
    BY <1>1, <1>4 DEF IdsInv, IdsAreKnown
  <2>2. \A c, d \in ledger' : c.id = d.id => c = d
    BY <1>3, <2>1 DEF IdsInv, ChainIsUnique
  <2> QED
    BY <1>1, <1>3, <1>4, <2>2 DEF IdsInv, IdsAreKnown, ChainIsUnique
<1>7. Typed'
  BY <1>3, <1>5
     DEF Typed, registryVars, poolVars, reservationVars, processVars, faultVars,
         PoolTyped, GrantsTyped, TasksTyped, UnlockersTyped, ProcessesTyped
<1>8. InitializersTyped' /\ ServersAreStarted'
  BY <1>3 DEF processVars, faultVars, InitializersTyped, ServersAreStarted
<1> QED
  BY <1>6, <1>7, <1>8

LEMMA InitializerStepsKeepInv ==
  ASSUME InitializerInv, [InitializerNext]_allVars
  PROVE  InitializerInv'
<1>1. ASSUME NEW s \in Stations, WakeByTrigger(s) \/ WakeByTicker(s)
      PROVE  InitializerInv'
  <2>1. rescanQueue \in [Stations -> 0 .. RescanBuffer]
    BY DEF InitializerInv, Typed, ProcessesTyped
  <2>2. rescanQueue' \in [Stations -> 0 .. RescanBuffer]
    BY <1>1, <2>1, GasStationAssumption DEF WakeByTrigger, WakeByTicker
  <2> QED
    BY <1>1, <2>2, WakeKeepsInv DEF WakeByTrigger, WakeByTicker
<1>2. ASSUME NEW s \in Stations, InitializerStep(s) PROVE InitializerInv'
  BY <1>1, <1>2, ScriptStepsKeepInv, ScanKeepsInv, SplitKeepsInv, AddChunkKeepsInv
     DEF InitializerStep
<1>3. CASE UNCHANGED allVars
  <2>1. Typed'
    BY <1>3, QuietStepsAreTyped DEF allVars, InitializerInv
  <2> QED
    BY <1>3, <2>1
       DEF allVars, vars, initializerVars, chainVars, processVars, faultVars,
           InitializerInv, IdsInv, ChainIsUnique, IdsAreKnown,
           InitializersTyped, ServersAreStarted
<1> QED
  BY <1>1, <1>2, <1>3, ServingKeepsInv, StartKeepsInv, CrashAnywhereKeepsInv,
     DepositKeepsInv
     DEF InitializerNext

LEMMA InitializersStartTyped == InitializerInit => InitializerInv
<1> SUFFICES ASSUME InitializerInit PROVE InitializerInv
  OBVIOUS
<1>1. IsFiniteSet(InitialLedger)
  <2> DEFINE f == [c \in InitialLedger |-> c.id]
  <2>1. f \in Injection(InitialLedger, CoinIds)
    BY InitializerAssumption DEF Coin, Injection, IsInjective
  <2> QED
    BY <2>1, GasStationAssumption, FS_Injection
<1>2. PoolTyped /\ GrantsTyped
  BY DEF InitializerInit, RegistryInit, PoolTyped, GrantsTyped
<1>3. ChainTyped /\ IdsInv
  BY <1>1, InitializerAssumption
     DEF InitializerInit, ChainTyped, IdsInv, ChainIsUnique, IdsAreKnown, Coin
<1>4. TasksTyped /\ UnlockersTyped
  <2>1. IdleTask.pc = "idle"
    BY DEF IdleTask
  <2> QED
    BY <2>1, IdleIsTyped DEF InitializerInit, TasksTyped, UnlockersTyped
<1>5. ProcessesTyped
  BY GasStationAssumption DEF InitializerInit, ProcessesTyped
<1>6. InitializersTyped /\ ServersAreStarted
  BY DownIsTyped DEF InitializerInit, InitializersTyped, ServersAreStarted
<1> QED
  BY <1>2, <1>3, <1>4, <1>5, <1>6 DEF InitializerInv, Typed

(* Whatever crashes, is lost or lags, and in whatever order stations start,
   split and clean up while others serve, all that is kept of coins is of its
   type: the sizes of the pieces are computed, not read, no payment is empty,
   every id of the ledger is one that has been created, and no station serves
   before its start is over (gas_station_initializer.rs:111-190). *)
THEOREM InitializersAreTyped == InitializerSpec => [](TypeOK /\ InitializerTypeOK)
<1>1. InitializerInv => InitializerTypeOK
  BY DEF InitializerInv, InitializersTyped, InitializerRecord, IdsInv, IdsAreKnown,
         ServersAreStarted, RefreshPCs, InitializerTypeOK
<1>2. InitializerInv => TypeOK
  BY DEF Payments, LateCommits, InitializerInv, Typed, PoolTyped, ChainTyped, GrantsTyped, TasksTyped,
         UnlockersTyped, ProcessesTyped, TypeOK
<1> QED
  BY <1>1, <1>2, InitializersStartTyped, InitializerStepsKeepInv, PTL
     DEF InitializerSpec

-----------------------------------------------------------------------------
(* The locks.  They name no owner and expire whatever their owner does, so the
   exclusion holds while a lock that has been taken, and not been released,
   outlives what it protects. *)
LocksOutlive ==
  /\ (\E s \in Stations : Splitting(s)) => initLock = 0 \/ Active(initLock)
  /\ (\E s \in Stations : Rescanning(s)) =>
       maintenanceLock = 0 \/ Active(maintenanceLock)

(* Whoever works under a lock has taken it, and nobody else has released it. *)
LocksInv ==
  /\ now \in Nat \ {0}
  /\ \A s \in Stations : Splitting(s) => initLock # 0
  /\ \A s \in Stations : Rescanning(s) => maintenanceLock # 0
  /\ \A s \in Stations :
       initializer[s].pc \in {"clean", "stats", "end", "fail"} => initializer[s].force
  /\ LocksExclude

(* A step that takes no lock, releases none, and takes no station into what
   they protect. *)
LEMMA NoLockIsTouched ==
  ASSUME LocksInv, UNCHANGED <<initLock, maintenanceLock>>,
         now' = now \/ now' = now + 1,
         \A s \in Stations : Splitting(s)' => Splitting(s),
         \A s \in Stations : Rescanning(s)' => Rescanning(s),
         \A s \in Stations :
           initializer'[s].pc \in {"clean", "stats", "end", "fail"} =>
             initializer'[s].force
  PROVE  LocksInv'
<1>1. now' \in Nat \ {0}
  BY DEF LocksInv
<1>2. LocksExclude'
  BY DEF LocksInv, LocksExclude
<1> QED
  BY <1>1, <1>2 DEF LocksInv

LEMMA StationStaysWithin ==
  ASSUME LocksInv, InitializersTyped, NEW s \in Stations, NEW new,
         initializer' = [initializer EXCEPT ![s] = new],
         UNCHANGED <<now, initLock, maintenanceLock>>,
         new.pc \in {"scan", "split", "add", "unlock"} => Splitting(s),
         new.force /\ new.pc \notin {"down", "boot"} => Rescanning(s),
         new.pc \in {"clean", "stats", "end", "fail"} => new.force
  PROVE  LocksInv'
<1>1. \A r \in Stations : initializer'[r] = IF r = s THEN new ELSE initializer[r]
  BY DEF InitializersTyped
<1>2. /\ \A r \in Stations : Splitting(r)' => Splitting(r)
      /\ \A r \in Stations : Rescanning(r)' => Rescanning(r)
      /\ \A r \in Stations :
           initializer'[r].pc \in {"clean", "stats", "end", "fail"} =>
             initializer'[r].force
  BY <1>1 DEF Splitting, Rescanning, LocksInv
<1> QED
  BY <1>2, NoLockIsTouched

LEMMA ServingLeavesLocks ==
  ASSUME InitializerInv, LocksInv, Serving \/ Deposit \/ UNCHANGED allVars
  PROVE  LocksInv'
<1>1. UNCHANGED <<initLock, maintenanceLock, initializer>>
  BY DEF Serving, LateCommit, ReserveGas, DebugCheckHealth, Reserve, ReserveGranted,
         StartExecution, ReadyForExecution, TaskStep, QueryTotalBalance,
         ExecuteOk, ExecuteErr, QueryLatest, TriggerRescan, ReleaseCoins,
         UnlockStep, UnlockExpire, ExpireCoins, UnlockQuery, UnlockRelease,
         AddNewCoins, AddNewCoinsFailed, PushCoins, FullnodeSyncs, TimePasses,
         Tick, Deposit, allVars, vars, registryVars, lockVars, initializerVars
<1>2. now' = now \/ now' = now + 1
  BY DEF Serving, LateCommit, ReserveGas, DebugCheckHealth, Reserve, ReserveGranted,
         StartExecution, ReadyForExecution, TaskStep, QueryTotalBalance,
         ExecuteOk, ExecuteErr, QueryLatest, TriggerRescan, ReleaseCoins,
         UnlockStep, UnlockExpire, ExpireCoins, UnlockQuery, UnlockRelease,
         AddNewCoins, AddNewCoinsFailed, PushCoins, FullnodeSyncs, TimePasses,
         Tick, Deposit, allVars, vars, registryVars, lockVars, initializerVars
<1>3. /\ \A s \in Stations : Splitting(s)' => Splitting(s)
      /\ \A s \in Stations : Rescanning(s)' => Rescanning(s)
      /\ \A s \in Stations :
           initializer'[s].pc \in {"clean", "stats", "end", "fail"} =>
             initializer'[s].force
  BY <1>1 DEF Splitting, Rescanning, LocksInv
<1> QED
  BY <1>1, <1>2, <1>3, NoLockIsTouched

(* The two acquisitions: while the lock lasts they fail, so that nobody else
   is at work when one succeeds. *)
LEMMA TakingTheInitLock ==
  ASSUME InitializerInv, LocksInv, LocksOutlive, NEW s \in Stations,
         At(s, "lock"), AcquireInitLock, Moves(s, "scan")
  PROVE  LocksInv'
<1>1. \A r \in Stations :
        initializer'[r] = IF r = s THEN [initializer[s] EXCEPT !.pc = "scan"]
                                   ELSE initializer[r]
  BY DEF Moves, InitializerInv, InitializersTyped
<1>2. /\ initializer'[s].pc = "scan"
      /\ initializer'[s].force = initializer[s].force
  BY <1>1 DEF InitializerInv, InitializersTyped, InitializerRecord
<1>3. ~Active(initLock) /\ initLock' = now + LockDuration
      /\ UNCHANGED <<now, maintenanceLock>>
  BY DEF AcquireInitLock, Acquired
<1>4. \A r \in Stations : ~Splitting(r)
  BY <1>3 DEF LocksInv, LocksOutlive
<1>5. \A r \in Stations : Splitting(r)' => r = s
  BY <1>1, <1>4 DEF Splitting
<1>6. \A r \in Stations : Rescanning(r)' => Rescanning(r)
  BY <1>1, <1>2 DEF Rescanning, At
<1>7. LocksExclude'
  BY <1>5, <1>6 DEF LocksExclude, LocksInv
<1>8. initLock' # 0
  BY <1>3, ConstantsAssumption DEF LocksInv
<1>9. \A r \in Stations :
        initializer'[r].pc \in {"clean", "stats", "end", "fail"} =>
          initializer'[r].force
  BY <1>1, <1>2 DEF LocksInv
<1> QED
  BY <1>3, <1>6, <1>7, <1>8, <1>9 DEF LocksInv

LEMMA TakingTheMaintenanceLock ==
  ASSUME InitializerInv, LocksInv, LocksOutlive, NEW s \in Stations,
         At(s, "boot"), initializer[s].force, AcquireMaintenanceLock,
         Moves(s, "clean")
  PROVE  LocksInv'
<1>1. \A r \in Stations :
        initializer'[r] = IF r = s THEN [initializer[s] EXCEPT !.pc = "clean"]
                                   ELSE initializer[r]
  BY DEF Moves, InitializerInv, InitializersTyped
<1>2. /\ initializer'[s].pc = "clean"
      /\ initializer'[s].force = initializer[s].force
  BY <1>1 DEF InitializerInv, InitializersTyped, InitializerRecord
<1>3. ~Active(maintenanceLock) /\ maintenanceLock' = now + LockDuration
      /\ UNCHANGED <<now, initLock>>
  BY DEF AcquireMaintenanceLock, Acquired
<1>4. \A r \in Stations : ~Rescanning(r)
  BY <1>3 DEF LocksInv, LocksOutlive
<1>5. \A r \in Stations : Rescanning(r)' => r = s
  BY <1>1, <1>4 DEF Rescanning
<1>6. \A r \in Stations : Splitting(r)' => Splitting(r)
  BY <1>1, <1>2 DEF Splitting
<1>7. LocksExclude'
  BY <1>5, <1>6 DEF LocksExclude, LocksInv
<1>8. maintenanceLock' # 0
  BY <1>3, ConstantsAssumption DEF LocksInv
<1>9. \A r \in Stations :
        initializer'[r].pc \in {"clean", "stats", "end", "fail"} =>
          initializer'[r].force
  BY <1>1, <1>2 DEF LocksInv
<1> QED
  BY <1>3, <1>6, <1>7, <1>8, <1>9 DEF LocksInv

(* A release by the one who is at work: nobody else is. *)
LEMMA ReleasingLocks ==
  ASSUME InitializerInv, LocksInv, NEW s \in Stations, NEW new,
         initializer' = [initializer EXCEPT ![s] = new],
         UNCHANGED now,
         \/ /\ Splitting(s) /\ ReleaseInitLock
            /\ new.force /\ new.pc \notin {"down", "boot"} => Rescanning(s)
         \/ /\ Rescanning(s) /\ ReleaseMaintenanceLock
            /\ ~new.force,
         new.pc \notin {"scan", "split", "add", "unlock"},
         new.pc \in {"clean", "stats", "end", "fail"} => new.force
  PROVE  LocksInv'
<1>1. \A r \in Stations : initializer'[r] = IF r = s THEN new ELSE initializer[r]
  BY DEF InitializerInv, InitializersTyped
<1>2. \A r \in Stations : Splitting(r)' => Splitting(r) /\ r # s
  BY <1>1 DEF Splitting
<1>3. \A r \in Stations :
        initializer'[r].pc \in {"clean", "stats", "end", "fail"} =>
          initializer'[r].force
  BY <1>1 DEF LocksInv
<1>4. CASE /\ Splitting(s) /\ ReleaseInitLock
           /\ new.force /\ new.pc \notin {"down", "boot"} => Rescanning(s)
  <2>1. \A r \in Stations : ~Splitting(r)'
    BY <1>2, <1>4 DEF LocksInv, LocksExclude
  <2>2. \A r \in Stations : Rescanning(r)' => Rescanning(r)
    BY <1>1, <1>4 DEF Rescanning
  <2>3. LocksExclude'
    BY <2>1, <2>2 DEF LocksExclude, LocksInv
  <2> QED
    BY <1>3, <1>4, <2>1, <2>2, <2>3 DEF LocksInv, ReleaseInitLock
<1>5. CASE Rescanning(s) /\ ReleaseMaintenanceLock /\ ~new.force
  <2>1. \A r \in Stations : Rescanning(r)' => Rescanning(r) /\ r # s
    BY <1>1, <1>5 DEF Rescanning
  <2>2. \A r \in Stations : ~Rescanning(r)'
    BY <1>5, <2>1 DEF LocksInv, LocksExclude
  <2>3. LocksExclude'
    BY <1>2, <2>2 DEF LocksExclude, LocksInv
  <2> QED
    BY <1>2, <1>3, <1>5, <2>2, <2>3 DEF LocksInv, ReleaseMaintenanceLock
<1> QED
  BY <1>4, <1>5
LEMMA ChangesWithin ==
  ASSUME InitializerInv, LocksInv, NEW s \in Stations, NEW pc, NEW force,
         Changes(s, pc, force),
         UNCHANGED <<now, initLock, maintenanceLock>>,
         pc \in {"scan", "split", "add", "unlock"} => Splitting(s),
         force /\ pc \notin {"down", "boot"} => Rescanning(s),
         pc \in {"clean", "stats", "end", "fail"} => force
  PROVE  LocksInv'
BY StationStaysWithin DEF Changes, InitializerInv

LEMMA StartLeavesLocks ==
  ASSUME InitializerInv, LocksInv, NEW s \in Stations, Start(s)
  PROVE  LocksInv'
<1>1. PICK force \in {FALSE, FullRescans} :
        initializer' = [initializer EXCEPT
          ![s] = [Down EXCEPT !.pc = "boot", !.force = force]]
  BY DEF Start
<1>2. "boot" \in InitializerPCs /\ force \in BOOLEAN
  BY InitializerAssumption DEF InitializerPCs
<1>3. Changes(s, "boot", force)
  BY <1>1, <1>2, DownIsAChange
<1>4. UNCHANGED <<now, initLock, maintenanceLock>>
  BY DEF Start, InitCoinStats, lockVars
<1> QED
  BY <1>3, <1>4, ChangesWithin

LEMMA WorkersLeaveLocks ==
  ASSUME InitializerInv, LocksInv, NEW s \in Stations,
         \/ CheckInitialized(s) \/ CleanUp(s) \/ ResetStats(s)
         \/ Scan(s) \/ Split(s) \/ AddChunk(s)
         \/ Wake(s) \/ CrashAnywhere(s)
  PROVE  LocksInv'
<1> USE DEF InitializerInv
<1>1. UNCHANGED <<now, initLock, maintenanceLock>>
  BY DEF CheckInitialized, CleanUp, ResetStats, Scan, Split, AddChunk, Wake,
         CrashAnywhere, Crash, CleanUpCoinRegistry, InitCoinStats, AddNewCoins,
         AddNewCoinsFailed, PushCoins, registryVars, lockVars
<1>2. /\ "down" \in InitializerPCs /\ "lock" \in InitializerPCs
      /\ "stats" \in InitializerPCs /\ "add" \in InitializerPCs
      /\ "unlock" \in InitializerPCs /\ "wait" \in InitializerPCs
      /\ "dead" \in InitializerPCs
  BY DEF InitializerPCs
<1>3. initializer[s] \in InitializerRecord
  BY DEF InitializersTyped
<1>4. CASE CheckInitialized(s)
  <2>1. ~initializer[s].force
    BY <1>4 DEF CheckInitialized
  <2>2. Changes(s, "lock", FALSE) \/ Changes(s, "wait", FALSE)
    BY <1>2, <1>3, <1>4, <2>1, MovesAreChanges, DownIsAChange
       DEF CheckInitialized, Serve, InitializerRecord
  <2> QED
    BY <1>1, <2>2, ChangesWithin
<1>5. CASE CleanUp(s)
  <2>1. Changes(s, "stats", initializer[s].force)
    BY <1>2, <1>5, MovesAreChanges DEF CleanUp
  <2>2. Rescanning(s)
    BY <1>5 DEF CleanUp, At, Rescanning, LocksInv
  <2>3. initializer[s].force
    BY <1>5 DEF CleanUp, At, LocksInv
  <2> QED
    BY <1>1, <2>1, <2>2, <2>3, ChangesWithin
<1>6. CASE ResetStats(s)
  <2>1. Changes(s, "lock", initializer[s].force)
    BY <1>2, <1>6, MovesAreChanges DEF ResetStats
  <2>2. Rescanning(s)
    BY <1>6 DEF ResetStats, At, Rescanning, LocksInv
  <2> QED
    BY <1>1, <2>1, <2>2, ChangesWithin
<1>7. ASSUME NEW pc, pc \in {"split", "add", "unlock"}, Splitting(s),
             Changes(s, pc, initializer[s].force)
      PROVE  LocksInv'
  <2>1. initializer[s].force => Rescanning(s)
    BY <1>7 DEF Splitting, Rescanning
  <2> QED
    BY <1>1, <1>7, <2>1, ChangesWithin
<1>8. CASE Scan(s)
  <2>1. Splitting(s)
    BY <1>8 DEF Scan, At, Splitting
  <2> QED
    BY <1>7, <1>8, <2>1, ScanChanges
<1>9. ASSUME initializer' = [initializer EXCEPT ![s] =
               IF s \in up THEN [Down EXCEPT !.pc = "dead"] ELSE Down]
      PROVE  LocksInv'
  <2>1. Changes(s, "dead", FALSE) \/ Changes(s, "down", FALSE)
    BY <1>2, <1>9, DownIsAChange
  <2> QED
    BY <1>1, <2>1, ChangesWithin
<1>10. CASE Split(s)
  <2>1. Splitting(s) /\ At(s, "split")
    BY <1>10 DEF Split, At, Splitting
  <2>2. ASSUME NEW w \in initializer[s].work, SplitOk(s, w) PROVE LocksInv'
    BY <1>7, <2>1, <2>2, SplitOkChanges
  <2>3. ASSUME NEW w \in initializer[s].work, SplitErr(s, w) PROVE LocksInv'
    BY <1>7, <1>9, <2>1, <2>3, SplitErrChanges
  <2>4. CASE Moves(s, "add")
    BY <1>2, <1>7, <2>1, <2>4, MovesAreChanges
  <2> QED
    BY <1>10, <2>2, <2>3, <2>4 DEF Split
<1>11. CASE AddChunk(s)
  <2>1. Splitting(s)
    BY <1>11 DEF AddChunk, At, Splitting
  <2> QED
    BY <1>7, <1>9, <1>11, <2>1, AddChunkChanges
<1>12. CASE Wake(s)
  <2>1. Changes(s, "lock", FALSE)
    <3> DEFINE new == [Down EXCEPT !.pc = "lock", !.mode = "Refresh"]
    <3>1. Down \in InitializerRecord /\ ~Down.force
      BY DownIsTyped
    <3>2. new \in InitializerRecord /\ new.pc = "lock" /\ new.force = FALSE
      BY <1>2, <3>1 DEF InitializerRecord, RunMode
    <3> HIDE DEF new
    <3> QED
      BY <1>12, <3>2 DEF Wake, Changes, new
  <2> QED
    BY <1>1, <2>1, ChangesWithin
<1>13. CASE CrashAnywhere(s)
  <2>1. Changes(s, "down", FALSE)
    BY <1>2, <1>13, DownIsAChange DEF CrashAnywhere
  <2> QED
    BY <1>1, <2>1, ChangesWithin
<1> QED
  BY <1>4, <1>5, <1>6, <1>8, <1>10, <1>11, <1>12, <1>13

LEMMA LockStepsExclude ==
  ASSUME IgnoreLocks = FALSE, InitializerInv, LocksInv, LocksOutlive,
         NEW s \in Stations,
         \/ BeginMaintenance(s) \/ AcquireLock(s)
         \/ ReleaseLock(s) \/ EndMaintenance(s)
  PROVE  LocksInv'
<1> USE DEF InitializerInv
<1>1. /\ {"down", "clean", "scan", "fail", "wait", "end"} \subseteq InitializerPCs
      /\ FALSE \in BOOLEAN
  BY DEF InitializerPCs
<1>2. initializer[s].force \in BOOLEAN
  BY DEF InitializersTyped, InitializerRecord
<1>3. CASE BeginMaintenance(s)
  <2>1. CASE AcquireMaintenanceLock /\ Moves(s, "clean")
    BY <1>3, <2>1, TakingTheMaintenanceLock DEF BeginMaintenance
  <2>2. CASE UNCHANGED registryVars /\ Panic(s)
    <3>1. Changes(s, "down", FALSE)
      BY <1>1, <2>2, DownIsAChange DEF Panic
    <3> QED
      BY <2>2, <3>1, ChangesWithin DEF registryVars, lockVars
  <2> QED
    BY <1>3, <2>1, <2>2 DEF BeginMaintenance
<1>4. CASE AcquireLock(s)
  <2>1. CASE AcquireInitLock /\ Moves(s, "scan")
    BY <1>4, <2>1, TakingTheInitLock DEF AcquireLock
  <2>2. CASE UNCHANGED registryVars /\ LockRefused(s)
    <3>1. \/ Changes(s, "wait", initializer[s].force)
          \/ Changes(s, "fail", initializer[s].force) /\ initializer[s].force
          \/ Changes(s, "down", FALSE)
      BY <1>1, <2>2, MovesAreChanges, DownIsAChange DEF LockRefused
    <3>2. initializer[s].force => Rescanning(s)
      BY <1>4 DEF AcquireLock, At, Rescanning
    <3> QED
      BY <2>2, <3>1, <3>2, ChangesWithin DEF registryVars, lockVars
  <2> QED
    BY <1>4, <2>1, <2>2 DEF AcquireLock
<1>5. CASE ReleaseLock(s)
  <2>1. \/ Changes(s, "end", initializer[s].force) /\ initializer[s].force
        \/ Changes(s, "wait", initializer[s].force) /\ ~initializer[s].force
        \/ Changes(s, "wait", FALSE)
    BY <1>1, <1>5, MovesAreChanges, DownIsAChange DEF ReleaseLock, Serve
  <2>2. Splitting(s) /\ ReleaseInitLock /\ UNCHANGED now
    BY <1>5 DEF ReleaseLock, ReleaseInitLock, At, Splitting
  <2>3. initializer[s].force => Rescanning(s)
    BY <1>5 DEF ReleaseLock, At, Rescanning
  <2>4. ASSUME NEW pc, pc \in {"end", "wait"}, NEW force,
               Changes(s, pc, force), force => initializer[s].force,
               pc = "end" => force
        PROVE  LocksInv'
    BY <2>2, <2>3, <2>4, ReleasingLocks DEF Changes
  <2> QED
    BY <1>2, <2>1, <2>4
<1>6. CASE EndMaintenance(s)
  <2>1. Changes(s, "wait", FALSE) \/ Changes(s, "down", FALSE)
    BY <1>1, <1>6, DownIsAChange DEF EndMaintenance, Serve, Panic
  <2>2. Rescanning(s) /\ ReleaseMaintenanceLock /\ UNCHANGED now
    BY <1>6 DEF EndMaintenance, ReleaseMaintenanceLock, Rescanning, LocksInv
  <2>3. ASSUME NEW pc, pc \in {"down", "wait"}, Changes(s, pc, FALSE)
        PROVE  LocksInv'
    BY <2>2, <2>3, ReleasingLocks DEF Changes
  <2> QED
    BY <2>1, <2>3
<1> QED
  BY <1>3, <1>4, <1>5, <1>6

LEMMA StepsExclude ==
  ASSUME IgnoreLocks = FALSE, InitializerInv, LocksInv, LocksOutlive,
         [InitializerNext]_allVars
  PROVE  LocksInv'
<1>1. ASSUME NEW s \in Stations, InitializerStep(s) \/ WakeByTicker(s)
      PROVE  LocksInv'
  BY <1>1, WorkersLeaveLocks, LockStepsExclude
     DEF InitializerStep, WakeByTrigger, WakeByTicker
<1> QED
  BY <1>1, ServingLeavesLocks, StartLeavesLocks, WorkersLeaveLocks
     DEF InitializerNext

LEMMA LocksStartFree == InitializerInit => LocksInv
<1> SUFFICES ASSUME InitializerInit PROVE LocksInv
  OBVIOUS
<1>1. now = 1 /\ \A s \in Stations : initializer[s].pc = "down"
  BY DEF InitializerInit, RegistryInit, Down
<1> QED
  BY <1>1 DEF LocksInv, Splitting, Rescanning, LocksExclude

(* "This cannot be done concurrently on multiple gas stations"
   (acquire_init_lock.lua:5-6), and neither can two full rescans, however many
   stations start, crash, panic or are refused: as long as no lock expires
   under the one who works behind it, and nobody ignores locks. *)
THEOREM LocksExcludeWhileTheyLast ==
  ASSUME IgnoreLocks = FALSE
  PROVE  InitializerSpec /\ []LocksOutlive => []LocksExclude
<1>1. LocksInv => LocksExclude
  BY DEF LocksInv
<1> QED
  BY <1>1, InitializersStartTyped, InitializerStepsKeepInv, LocksStartFree,
     StepsExclude, PTL
     DEF InitializerSpec

(* A lock that has been taken expires after the clock's last tick. *)
LocksExpireLate ==
  /\ now \in Nat \ {0} /\ now <= LockDuration + 1
  /\ initLock = 0 \/ (initLock \in Nat /\ initLock > LockDuration)
  /\ maintenanceLock = 0 \/ (maintenanceLock \in Nat /\ maintenanceLock > LockDuration)

LEMMA LocksKeepExpiringLate ==
  ASSUME MaxTime \in Nat, MaxTime <= LockDuration,
         LocksExpireLate, [InitializerNext]_allVars
  PROVE  LocksExpireLate'
<1> USE DEF LocksExpireLate
<1>1. LockDuration \in Nat \ {0}
  BY ConstantsAssumption
<1>2. CASE UNCHANGED <<now, initLock, maintenanceLock>>
  BY <1>2
<1>3. CASE TimePasses
  BY <1>1, <1>3 DEF TimePasses, Tick, lockVars
<1>4. CASE AcquireInitLock \/ ReleaseInitLock
  BY <1>1, <1>4 DEF AcquireInitLock, ReleaseInitLock, Acquired
<1>5. CASE AcquireMaintenanceLock \/ ReleaseMaintenanceLock
  BY <1>1, <1>5 DEF AcquireMaintenanceLock, ReleaseMaintenanceLock, Acquired
<1>6. ASSUME NEW s \in Stations, InitializerStep(s) PROVE LocksExpireLate'
  BY <1>2, <1>4, <1>5, <1>6
     DEF InitializerStep, CheckInitialized, BeginMaintenance, CleanUp, ResetStats,
         AcquireLock, Scan, Split, AddChunk, ReleaseLock, EndMaintenance,
         WakeByTrigger, Wake, CleanUpCoinRegistry, InitCoinStats, AddNewCoins,
         AddNewCoinsFailed, PushCoins, registryVars, lockVars
<1>7. CASE Serving
  BY <1>2, <1>3, <1>7
     DEF Serving, LateCommit, ReserveGas, DebugCheckHealth, Reserve, ReserveGranted,
         StartExecution, ReadyForExecution, TaskStep, QueryTotalBalance,
         ExecuteOk, ExecuteErr, QueryLatest, TriggerRescan, ReleaseCoins,
         UnlockStep, UnlockExpire, ExpireCoins, UnlockQuery, UnlockRelease,
         AddNewCoins, AddNewCoinsFailed, PushCoins, FullnodeSyncs, registryVars,
         lockVars
<1> QED
  BY <1>2, <1>6, <1>7
     DEF InitializerNext, Start, InitCoinStats, WakeByTicker, Wake, CrashAnywhere,
         Crash, Deposit, allVars, vars, registryVars, lockVars

(* What the run locks shows, for any number of stations and starts: with a
   clock that ends before the first lock could expire, nothing is assumed. *)
THEOREM LocksExcludeOnAShortClock ==
  ASSUME IgnoreLocks = FALSE, MaxTime \in Nat, MaxTime <= LockDuration
  PROVE  InitializerSpec => []LocksExclude
<1>1. InitializerInit => LocksExpireLate
  BY ConstantsAssumption DEF InitializerInit, RegistryInit, LocksExpireLate
<1>2. LocksExpireLate => LocksOutlive
  BY ConstantsAssumption DEF LocksExpireLate, LocksOutlive, Active
<1>3. InitializerSpec => []LocksExpireLate
  BY <1>1, LocksKeepExpiringLate, PTL DEF InitializerSpec
<1>4. InitializerSpec => []LocksOutlive
  BY <1>2, <1>3, PTL
<1> QED
  BY <1>4, LocksExcludeWhileTheyLast, PTL

-----------------------------------------------------------------------------
(***************************************************************************)
(* Custody.  SoleCustody says who holds a coin; that it stays so needs what *)
(* they hold to be as the ledger has it and too small for a refresh, so     *)
(* that what a refresh finds is held by nobody.                             *)
(***************************************************************************)

(* A list of coins may be added to the pool if it has each coin
   once, as the ledger has it, and none that a refresh would take for new. *)
Poolable(coins, chain) ==
  /\ IsInjective(IdsOf(coins))
  /\ \A i \in DOMAIN coins :
       coins[i] \in chain /\ coins[i].balance < OversizeThreshold

ArePoolable(ids, chain) ==
  \A id \in ids : \E c \in chain : c.id = id /\ c.balance < OversizeThreshold

KeepsAside(k) == \E i \in DOMAIN k.updated : Oversized(k.updated[i])

TaskIds(k) == {k.payment[i].id : i \in DOMAIN k.payment}

(* What CustodyOf says of a task that is k. *)
TaskCoins(k) ==
  IF k.pc = "release"
  THEN IF KeepsAside(k) THEN {} ELSE ToSet(IdsOf(k.updated))
  ELSE TaskIds(k)

(* A task gives back what the ledger has after its transaction, which it
   computes from what it read before. *)
IsSoundTask(k, chain) ==
  /\ k.pc = "release" /\ ~KeepsAside(k) => Poolable(k.updated, chain)
  /\ k.pc # "release" => ArePoolable(TaskIds(k), chain)
  /\ k.pc = "execute" => k.before = TotalBalance({c \in chain : c.id \in TaskIds(k)})

IsSoundUnlocker(u, chain) ==
  /\ ArePoolable(u.batch, chain)
  /\ u.pc = "release" =>
       Poolable(u.updated, chain) /\ ToSet(IdsOf(u.updated)) \subseteq u.batch

IsSoundWork(work, result, chain) ==
  /\ Poolable(result, chain)
  /\ \A w \in work : w.coin \in chain /\ w.coin.id \notin ToSet(IdsOf(result))
  /\ \A v, w \in work : v.coin.id = w.coin.id => v = w

(* What a custodian holds can come back to the pool as it is. *)
IsSound(h) ==
  CASE h[1] = "pool"        -> Poolable(available, ledger)
    [] h[1] = "reservation" -> /\ IsInjective(reservations[h[2]])
                               /\ ArePoolable(ToSet(reservations[h[2]]), ledger)
    [] h[1] = "task"        -> IsSoundTask(task[h[2]], ledger)
    [] h[1] = "unlocker"    -> IsSoundUnlocker(unlocker[h[2]], ledger)
    [] h[1] = "initializer" ->
         IsSoundWork(initializer[h[2]].work, initializer[h[2]].result, ledger)

CustodyInv ==
  /\ \A g, h \in Custodians : g # h => CustodyOf(g) \cap CustodyOf(h) = {}
  /\ \A h \in Custodians : IsSound(h)

(* What h knows does not change. *)
IsUnmoved(h) ==
  CASE h[1] = "pool"        -> available' = available
    [] h[1] = "reservation" -> reservations'[h[2]] = reservations[h[2]]
    [] h[1] = "task"        -> task'[h[2]] = task[h[2]]
    [] h[1] = "unlocker"    -> unlocker'[h[2]] = unlocker[h[2]]
    [] h[1] = "initializer" -> /\ initializer'[h[2]].work = initializer[h[2]].work
                               /\ initializer'[h[2]].result = initializer[h[2]].result

WorkCoins(work, result) == {w.coin.id : w \in work} \cup ToSet(IdsOf(result))

LEMMA CustodyByKind ==
  /\ CustodyOf(<<"pool">>) = ToSet(IdsOf(available))
  /\ CustodyOf(<<"pool">>)' = ToSet(IdsOf(available'))
  /\ \A r : /\ CustodyOf(<<"reservation", r>>) = ToSet(reservations[r])
            /\ CustodyOf(<<"reservation", r>>)' = ToSet(reservations'[r])
  /\ \A t : /\ CustodyOf(<<"task", t>>) = TaskCoins(task[t])
            /\ CustodyOf(<<"task", t>>)' = TaskCoins(task'[t])
  /\ \A s : /\ CustodyOf(<<"unlocker", s>>) = unlocker[s].batch
            /\ CustodyOf(<<"unlocker", s>>)' = unlocker'[s].batch
  /\ \A s : /\ CustodyOf(<<"initializer", s>>) =
                 WorkCoins(initializer[s].work, initializer[s].result)
            /\ CustodyOf(<<"initializer", s>>)' =
                 WorkCoins(initializer'[s].work, initializer'[s].result)
<1>1. /\ CustodyOf(<<"pool">>) = ToSet(IdsOf(available))
      /\ CustodyOf(<<"pool">>)' = ToSet(IdsOf(available'))
  BY DEF CustodyOf, CoinsOf
<1>2. ASSUME NEW r
      PROVE  /\ CustodyOf(<<"reservation", r>>) = ToSet(reservations[r])
             /\ CustodyOf(<<"reservation", r>>)' = ToSet(reservations'[r])
  BY DEF CustodyOf, CoinsOf
<1>3. ASSUME NEW t
      PROVE  /\ CustodyOf(<<"task", t>>) = TaskCoins(task[t])
             /\ CustodyOf(<<"task", t>>)' = TaskCoins(task'[t])
  BY DEF CustodyOf, CoinsOf, TaskCoins, KeepsAside, TaskIds, PaymentIds
<1>4. ASSUME NEW s
      PROVE  /\ CustodyOf(<<"unlocker", s>>) = unlocker[s].batch
             /\ CustodyOf(<<"unlocker", s>>)' = unlocker'[s].batch
  BY DEF CustodyOf, CoinsOf
<1>5. ASSUME NEW s
      PROVE  /\ CustodyOf(<<"initializer", s>>) =
                  WorkCoins(initializer[s].work, initializer[s].result)
             /\ CustodyOf(<<"initializer", s>>)' =
                  WorkCoins(initializer'[s].work, initializer'[s].result)
  BY DEF CustodyOf, InitializerCoins, WorkCoins
<1> QED
  BY <1>1, <1>2, <1>3, <1>4, <1>5

LEMMA SoundnessByKind ==
  /\ IsSound(<<"pool">>) <=> Poolable(available, ledger)
  /\ IsSound(<<"pool">>)' <=> Poolable(available', ledger')
  /\ \A r : /\ IsSound(<<"reservation", r>>) <=>
                 /\ IsInjective(reservations[r])
                 /\ ArePoolable(ToSet(reservations[r]), ledger)
            /\ IsSound(<<"reservation", r>>)' <=>
                 /\ IsInjective(reservations'[r])
                 /\ ArePoolable(ToSet(reservations'[r]), ledger')
  /\ \A t : /\ IsSound(<<"task", t>>) <=> IsSoundTask(task[t], ledger)
            /\ IsSound(<<"task", t>>)' <=> IsSoundTask(task'[t], ledger')
  /\ \A s : /\ IsSound(<<"unlocker", s>>) <=> IsSoundUnlocker(unlocker[s], ledger)
            /\ IsSound(<<"unlocker", s>>)' <=> IsSoundUnlocker(unlocker'[s], ledger')
  /\ \A s : /\ IsSound(<<"initializer", s>>) <=>
                 IsSoundWork(initializer[s].work, initializer[s].result, ledger)
            /\ IsSound(<<"initializer", s>>)' <=>
                 IsSoundWork(initializer'[s].work, initializer'[s].result, ledger')
BY DEF IsSound

LEMMA UnmovedByKind ==
  /\ IsUnmoved(<<"pool">>) <=> available' = available
  /\ \A r : IsUnmoved(<<"reservation", r>>) <=> reservations'[r] = reservations[r]
  /\ \A t : IsUnmoved(<<"task", t>>) <=> task'[t] = task[t]
  /\ \A s : IsUnmoved(<<"unlocker", s>>) <=> unlocker'[s] = unlocker[s]
  /\ \A s : IsUnmoved(<<"initializer", s>>) <=>
              /\ initializer'[s].work = initializer[s].work
              /\ initializer'[s].result = initializer[s].result
BY DEF IsUnmoved

LEMMA KindsOfCustodians ==
  /\ <<"pool">> \in Custodians
  /\ \A r : <<"reservation", r>> \in Custodians <=> r \in DOMAIN reservations
  /\ \A r : (<<"reservation", r>> \in Custodians)' <=> r \in DOMAIN reservations'
  /\ \A t \in Tasks : <<"task", t>> \in Custodians
  /\ \A s \in Stations : <<"unlocker", s>> \in Custodians
  /\ \A s \in Stations : <<"initializer", s>> \in Custodians
  /\ Custodians = {<<"pool">>}
       \cup {<<"reservation", r>> : r \in DOMAIN reservations}
       \cup {<<"task", t>> : t \in Tasks}
       \cup {<<"unlocker", s>> : s \in Stations}
       \cup {<<"initializer", s>> : s \in Stations}
  /\ Custodians' = {<<"pool">>}
       \cup {<<"reservation", r>> : r \in DOMAIN reservations'}
       \cup {<<"task", t>> : t \in Tasks}
       \cup {<<"unlocker", s>> : s \in Stations}
       \cup {<<"initializer", s>> : s \in Stations}
BY DEF Custodians, Holders

(* A chain that differs in some coins only is as good for all others. *)
LEMMA PoolableStays ==
  ASSUME NEW chain, NEW next, NEW touched,
         \A c : c.id \notin touched => (c \in next <=> c \in chain)
  PROVE  /\ \A coins : Poolable(coins, chain) /\ ToSet(IdsOf(coins)) \cap touched = {}
                         => Poolable(coins, next)
         /\ \A ids : ids \cap touched = {} =>
              /\ ArePoolable(ids, chain) => ArePoolable(ids, next)
              /\ {c \in next : c.id \in ids} = {c \in chain : c.id \in ids}
<1>1. ASSUME NEW coins, Poolable(coins, chain), ToSet(IdsOf(coins)) \cap touched = {}
      PROVE  Poolable(coins, next)
  <2>1. \A i \in DOMAIN coins : coins[i].id \notin touched
    BY <1>1 DEF ToSet, IdsOf
  <2> QED
    BY <1>1, <2>1 DEF Poolable
<1>2. ASSUME NEW ids, ids \cap touched = {}
      PROVE  /\ ArePoolable(ids, chain) => ArePoolable(ids, next)
             /\ {c \in next : c.id \in ids} = {c \in chain : c.id \in ids}
  BY <1>2 DEF ArePoolable
<1> QED
  BY <1>1, <1>2

LEMMA TasksStaySound ==
  ASSUME NEW chain, NEW next, NEW touched,
         \A c : c.id \notin touched => (c \in next <=> c \in chain),
         NEW k, IsSoundTask(k, chain), TaskCoins(k) \cap touched = {}
  PROVE  IsSoundTask(k, next)
<1>1. CASE k.pc = "release" /\ KeepsAside(k)
  BY <1>1 DEF IsSoundTask
<1>2. CASE k.pc = "release" /\ ~KeepsAside(k)
  <2>1. TaskCoins(k) = ToSet(IdsOf(k.updated))
    BY <1>2 DEF TaskCoins
  <2>2. Poolable(k.updated, next)
    BY <1>2, <2>1, PoolableStays DEF IsSoundTask
  <2> QED
    BY <1>2, <2>2 DEF IsSoundTask
<1>3. CASE k.pc # "release"
  <2>1. TaskCoins(k) = TaskIds(k)
    BY <1>3 DEF TaskCoins
  <2>2. PICK ids : ids = TaskIds(k)
    OBVIOUS
  <2>3. ids \cap touched = {} /\ ArePoolable(ids, chain)
    BY <1>3, <2>1, <2>2 DEF IsSoundTask
  <2>4. ArePoolable(ids, next) /\ {c \in next : c.id \in ids} = {c \in chain : c.id \in ids}
    BY <2>3, PoolableStays
  <2> QED
    BY <1>3, <2>2, <2>4 DEF IsSoundTask
<1> QED
  BY <1>1, <1>2, <1>3

LEMMA UnlockersStaySound ==
  ASSUME NEW chain, NEW next, NEW touched,
         \A c : c.id \notin touched => (c \in next <=> c \in chain),
         NEW u, IsSoundUnlocker(u, chain), u.batch \cap touched = {}
  PROVE  IsSoundUnlocker(u, next)
<1>1. ArePoolable(u.batch, next)
  BY PoolableStays DEF IsSoundUnlocker
<1>2. ASSUME u.pc = "release" PROVE Poolable(u.updated, next)
  <2>1. ToSet(IdsOf(u.updated)) \cap touched = {}
    BY <1>2 DEF IsSoundUnlocker
  <2> QED
    BY <1>2, <2>1, PoolableStays DEF IsSoundUnlocker
<1> QED
  BY <1>1, <1>2 DEF IsSoundUnlocker

LEMMA WorkStaysSound ==
  ASSUME NEW chain, NEW next, NEW touched,
         \A c : c.id \notin touched => (c \in next <=> c \in chain),
         NEW work, NEW result, IsSoundWork(work, result, chain),
         WorkCoins(work, result) \cap touched = {}
  PROVE  IsSoundWork(work, result, next)
<1>1. Poolable(result, next)
  BY PoolableStays DEF IsSoundWork, WorkCoins
<1>2. \A w \in work : w.coin \in next
  BY DEF IsSoundWork, WorkCoins
<1> QED
  BY <1>1, <1>2 DEF IsSoundWork

(* Who keeps what it had, and whose coins the chain has not touched, is as
   sound as before. *)
LEMMA UnmovedStaySound ==
  ASSUME NEW touched, \A c : c.id \notin touched => (c \in ledger' <=> c \in ledger),
         NEW h \in Custodians, IsUnmoved(h), IsSound(h), CustodyOf(h) \cap touched = {}
  PROVE  CustodyOf(h)' = CustodyOf(h) /\ IsSound(h)'
<1>1. PICK next : next = ledger'
  OBVIOUS
<1>2. CASE h = <<"pool">>
  <2>1. available' = available /\ CustodyOf(h)' = CustodyOf(h)
    BY <1>2, UnmovedByKind, CustodyByKind
  <2>2. Poolable(available, ledger) /\ ToSet(IdsOf(available)) \cap touched = {}
    BY <1>2, CustodyByKind, SoundnessByKind
  <2>3. Poolable(available, next)
    BY <1>1, <2>2, PoolableStays
  <2> QED
    BY <1>1, <1>2, <2>1, <2>3, SoundnessByKind
<1>3. ASSUME NEW r, h = <<"reservation", r>>
      PROVE  CustodyOf(h)' = CustodyOf(h) /\ IsSound(h)'
  <2>1. reservations'[r] = reservations[r] /\ CustodyOf(h)' = CustodyOf(h)
    BY <1>3, UnmovedByKind, CustodyByKind
  <2>2. /\ IsInjective(reservations[r])
        /\ ArePoolable(ToSet(reservations[r]), ledger)
        /\ ToSet(reservations[r]) \cap touched = {}
    BY <1>3, CustodyByKind, SoundnessByKind
  <2>3. ArePoolable(ToSet(reservations[r]), next)
    BY <1>1, <2>2, PoolableStays
  <2> QED
    BY <1>1, <1>3, <2>1, <2>2, <2>3, SoundnessByKind
<1>4. ASSUME NEW t \in Tasks, h = <<"task", t>>
      PROVE  CustodyOf(h)' = CustodyOf(h) /\ IsSound(h)'
  <2>1. task'[t] = task[t] /\ CustodyOf(h)' = CustodyOf(h)
    BY <1>4, UnmovedByKind, CustodyByKind
  <2>2. IsSoundTask(task[t], ledger) /\ TaskCoins(task[t]) \cap touched = {}
    BY <1>4, CustodyByKind, SoundnessByKind
  <2>3. IsSoundTask(task[t], next)
    BY <1>1, <2>2, TasksStaySound
  <2> QED
    BY <1>1, <1>4, <2>1, <2>3, SoundnessByKind
<1>5. ASSUME NEW s \in Stations, h = <<"unlocker", s>>
      PROVE  CustodyOf(h)' = CustodyOf(h) /\ IsSound(h)'
  <2>1. unlocker'[s] = unlocker[s] /\ CustodyOf(h)' = CustodyOf(h)
    BY <1>5, UnmovedByKind, CustodyByKind
  <2>2. IsSoundUnlocker(unlocker[s], ledger) /\ unlocker[s].batch \cap touched = {}
    BY <1>5, CustodyByKind, SoundnessByKind
  <2>3. IsSoundUnlocker(unlocker[s], next)
    BY <1>1, <2>2, UnlockersStaySound
  <2> QED
    BY <1>1, <1>5, <2>1, <2>3, SoundnessByKind
<1>6. ASSUME NEW s \in Stations, h = <<"initializer", s>>
      PROVE  CustodyOf(h)' = CustodyOf(h) /\ IsSound(h)'
  <2>1. /\ initializer'[s].work = initializer[s].work
        /\ initializer'[s].result = initializer[s].result
        /\ CustodyOf(h)' = CustodyOf(h)
    BY <1>6, UnmovedByKind, CustodyByKind
  <2>2. /\ IsSoundWork(initializer[s].work, initializer[s].result, ledger)
        /\ WorkCoins(initializer[s].work, initializer[s].result) \cap touched = {}
    BY <1>6, CustodyByKind, SoundnessByKind
  <2>3. IsSoundWork(initializer[s].work, initializer[s].result, next)
    BY <1>1, <2>2, WorkStaysSound
  <2> QED
    BY <1>1, <1>6, <2>1, <2>3, SoundnessByKind
<1> QED
  BY <1>2, <1>3, <1>4, <1>5, <1>6, KindsOfCustodians

(* A step in which coins move, if at all, from the custodians src, or from
   nobody, to the custodian dst. *)
LEMMA CustodyMoves ==
  ASSUME CustodyInv,
         NEW touched, \A c : c.id \notin touched => (c \in ledger' <=> c \in ledger),
         NEW dst, IsSound(dst)', NEW src \in SUBSET Custodians,
         \A h \in Custodians' \ (src \cup {dst}) :
           h \in Custodians /\ IsUnmoved(h) /\ CustodyOf(h) \cap touched = {},
         \A h \in (src \cap Custodians') \ {dst} :
           /\ CustodyOf(h)' \subseteq CustodyOf(h)
           /\ CustodyOf(h)' \cap CustodyOf(dst)' = {}
           /\ IsSound(h)',
         \A x \in CustodyOf(dst)' :
           \/ dst \in Custodians /\ x \in CustodyOf(dst)
           \/ \E k \in src : x \in CustodyOf(k)
           \/ \A h \in Custodians : x \notin CustodyOf(h)
  PROVE  CustodyInv'
<1>1. ASSUME NEW h \in Custodians' \ {dst}
      PROVE  /\ h \in Custodians /\ IsSound(h)'
             /\ CustodyOf(h)' \subseteq CustodyOf(h)
  <2>1. CASE h \in src
    BY <1>1, <2>1
  <2>2. CASE h \notin src
    <3>1. h \in Custodians /\ IsUnmoved(h) /\ CustodyOf(h) \cap touched = {}
      BY <1>1, <2>2
    <3>2. IsSound(h)
      BY <3>1 DEF CustodyInv
    <3> QED
      BY <3>1, <3>2, UnmovedStaySound
  <2> QED
    BY <2>1, <2>2
<1>2. ASSUME NEW h \in Custodians' \ {dst}, NEW x,
             x \in CustodyOf(h)', x \in CustodyOf(dst)'
      PROVE  FALSE
  <2>1. h \in Custodians /\ x \in CustodyOf(h)
    BY <1>1, <1>2
  <2>2. ASSUME dst \in Custodians, x \in CustodyOf(dst) PROVE FALSE
    BY <1>2, <2>1, <2>2 DEF CustodyInv
  <2>3. ASSUME NEW k \in src, x \in CustodyOf(k) PROVE FALSE
    <3>1. CASE k = h
      BY <1>2, <2>3, <3>1
    <3>2. CASE k # h
      BY <2>1, <2>3, <3>2 DEF CustodyInv
    <3> QED
      BY <3>1, <3>2
  <2> QED
    BY <1>2, <2>1, <2>2, <2>3
<1>3. ASSUME NEW g \in Custodians' \ {dst}, NEW h \in Custodians' \ {dst}, g # h
      PROVE  CustodyOf(g)' \cap CustodyOf(h)' = {}
  BY <1>1, <1>3 DEF CustodyInv
<1>4. (\A g, h \in Custodians : g # h => CustodyOf(g) \cap CustodyOf(h) = {})'
  BY <1>2, <1>3
<1>5. (\A h \in Custodians : IsSound(h))'
  BY <1>1
<1> QED
  BY <1>4, <1>5 DEF CustodyInv

LEMMA NobodyMoves ==
  ASSUME CustodyInv, UNCHANGED <<available, reservations, task, unlocker>>,
         \A s \in Stations : /\ initializer'[s].work = initializer[s].work
                             /\ initializer'[s].result = initializer[s].result,
         NEW touched, \A c : c.id \notin touched => (c \in ledger' <=> c \in ledger),
         \A h \in Custodians : CustodyOf(h) \cap touched = {}
  PROVE  CustodyInv'
<1> DEFINE pool == <<"pool">>
<1>1. Custodians' = Custodians /\ pool \in Custodians
  BY KindsOfCustodians
<1>2. \A h \in Custodians : IsUnmoved(h)
  BY UnmovedByKind, KindsOfCustodians
<1>3. \A h \in Custodians : IsSound(h)
  BY DEF CustodyInv
<1>4. CustodyOf(pool)' = CustodyOf(pool) /\ IsSound(pool)'
  BY <1>1, <1>2, <1>3, UnmovedStaySound
<1> HIDE DEF pool
<1>5. {} \in SUBSET Custodians
  OBVIOUS
<1>6. \A h \in Custodians' \ ({} \cup {pool}) :
        h \in Custodians /\ IsUnmoved(h) /\ CustodyOf(h) \cap touched = {}
  BY <1>1, <1>2
<1>7. \A x \in CustodyOf(pool)' :
        \/ pool \in Custodians /\ x \in CustodyOf(pool)
        \/ \E k \in {} : x \in CustodyOf(k)
        \/ \A h \in Custodians : x \notin CustodyOf(h)
  BY <1>1, <1>4
<1>8. \A h \in ({} \cap Custodians') \ {pool} :
        /\ CustodyOf(h)' \subseteq CustodyOf(h)
        /\ CustodyOf(h)' \cap CustodyOf(pool)' = {}
        /\ IsSound(h)'
  OBVIOUS
<1> QED
  BY <1>4, <1>5, <1>6, <1>7, <1>8, CustodyMoves, Zenon

LEMMA InitializerTakes ==
  ASSUME CustodyInv, UNCHANGED <<available, reservations, task, unlocker>>,
         NEW s \in Stations,
         \A r \in Stations \ {s} : initializer'[r] = initializer[r],
         NEW touched, \A c : c.id \notin touched => (c \in ledger' <=> c \in ledger),
         \A h \in Custodians \ {<<"initializer", s>>} : CustodyOf(h) \cap touched = {},
         IsSoundWork(initializer'[s].work, initializer'[s].result, ledger'),
         \A x \in WorkCoins(initializer'[s].work, initializer'[s].result) :
           \/ x \in WorkCoins(initializer[s].work, initializer[s].result)
           \/ \A h \in Custodians : x \notin CustodyOf(h)
  PROVE  CustodyInv'
<1> DEFINE dst == <<"initializer", s>>
<1>1. Custodians' = Custodians /\ dst \in Custodians
  BY KindsOfCustodians
<1>2. \A h \in Custodians \ {dst} : IsUnmoved(h)
  BY UnmovedByKind, KindsOfCustodians
<1>3. IsSound(dst)'
  BY SoundnessByKind
<1>4. \A x \in CustodyOf(dst)' :
        x \in CustodyOf(dst) \/ \A h \in Custodians : x \notin CustodyOf(h)
  BY CustodyByKind
<1> HIDE DEF dst
<1>5. {} \in SUBSET Custodians
  OBVIOUS
<1>6. \A h \in Custodians' \ ({} \cup {dst}) :
        h \in Custodians /\ IsUnmoved(h) /\ CustodyOf(h) \cap touched = {}
  BY <1>1, <1>2 DEF dst
<1> QED
  BY <1>1, <1>3, <1>4, <1>5, <1>6, CustodyMoves

(* An initializer that stops holds nothing any more. *)
LEMMA InitializerStops ==
  ASSUME CustodyInv, UNCHANGED <<available, reservations, task, unlocker, ledger>>,
         NEW s \in Stations,
         \A r \in Stations \ {s} : initializer'[r] = initializer[r],
         initializer'[s].work = {}, initializer'[s].result = << >>
  PROVE  CustodyInv'
<1>1. IsSoundWork({}, << >>, ledger')
  <2>1. IdsOf(<< >>) = << >> /\ ToSet(<< >>) = {} /\ IsInjective(<< >>)
    BY DEF IdsOf, ToSet, IsInjective
  <2> QED
    BY <2>1 DEF IsSoundWork, Poolable
<1>2. WorkCoins({}, << >>) = {}
  BY DEF WorkCoins, ToSet, IdsOf
<1>3. \A c : c.id \notin {} => (c \in ledger' <=> c \in ledger)
  OBVIOUS
<1> QED
  BY <1>1, <1>2, <1>3, InitializerTakes

LEMMA TaskChanges ==
  ASSUME CustodyInv, UNCHANGED <<available, reservations, unlocker, initializer>>,
         NEW t \in Tasks, \A u \in Tasks \ {t} : task'[u] = task[u],
         NEW touched \in SUBSET TaskCoins(task[t]),
         \A c : c.id \notin touched => (c \in ledger' <=> c \in ledger),
         IsSoundTask(task'[t], ledger'),
         TaskCoins(task'[t]) \subseteq TaskCoins(task[t])
  PROVE  CustodyInv'
<1> DEFINE dst == <<"task", t>>
<1>1. Custodians' = Custodians /\ dst \in Custodians
  BY KindsOfCustodians
<1>2. \A h \in Custodians \ {dst} : IsUnmoved(h)
  BY UnmovedByKind, KindsOfCustodians
<1>3. IsSound(dst)'
  BY SoundnessByKind
<1>4. CustodyOf(dst)' \subseteq CustodyOf(dst) /\ touched \subseteq CustodyOf(dst)
  BY CustodyByKind
<1> HIDE DEF dst
<1>5. \A h \in Custodians \ {dst} : CustodyOf(h) \cap touched = {}
  BY <1>1, <1>4 DEF CustodyInv
<1>6. \A h \in Custodians' \ ({} \cup {dst}) :
        h \in Custodians /\ IsUnmoved(h) /\ CustodyOf(h) \cap touched = {}
  BY <1>1, <1>2, <1>5
<1>7. {} \in SUBSET Custodians
  OBVIOUS
<1> QED
  BY <1>1, <1>3, <1>4, <1>6, <1>7, CustodyMoves

LEMMA UnlockerChanges ==
  ASSUME CustodyInv, UNCHANGED <<available, reservations, task, initializer, ledger>>,
         NEW s \in Stations, \A r \in Stations \ {s} : unlocker'[r] = unlocker[r],
         IsSoundUnlocker(unlocker'[s], ledger'),
         unlocker'[s].batch \subseteq unlocker[s].batch
  PROVE  CustodyInv'
<1> DEFINE dst == <<"unlocker", s>>
<1>1. Custodians' = Custodians /\ dst \in Custodians
  BY KindsOfCustodians
<1>2. \A h \in Custodians \ {dst} : IsUnmoved(h)
  BY UnmovedByKind, KindsOfCustodians
<1>3. IsSound(dst)'
  BY SoundnessByKind
<1>4. CustodyOf(dst)' \subseteq CustodyOf(dst)
  BY CustodyByKind
<1> HIDE DEF dst
<1>5. \A c : c.id \notin {} => (c \in ledger' <=> c \in ledger)
  OBVIOUS
<1>6. \A h \in Custodians' \ ({} \cup {dst}) :
        h \in Custodians /\ IsUnmoved(h) /\ CustodyOf(h) \cap {} = {}
  BY <1>1, <1>2
<1>7. {} \in SUBSET Custodians
  OBVIOUS
<1> QED
  BY <1>1, <1>3, <1>4, <1>5, <1>6, <1>7, CustodyMoves

(* Two lists without a coin in common make a list that is as good. *)
LEMMA PoolableConcat ==
  ASSUME NEW chain, NEW s \in Seq(Coin), NEW t \in Seq(Coin),
         Poolable(s, chain), Poolable(t, chain),
         ToSet(IdsOf(s)) \cap ToSet(IdsOf(t)) = {}
  PROVE  /\ Poolable(s \o t, chain)
         /\ ToSet(IdsOf(s \o t)) = ToSet(IdsOf(s)) \cup ToSet(IdsOf(t))
<1>1. /\ IsInjective(IdsOf(s \o t))
      /\ ToSet(IdsOf(s \o t)) = ToSet(IdsOf(s)) \cup ToSet(IdsOf(t))
  BY IdsOfConcatIsInjective DEF Poolable
<1>2. ASSUME NEW i \in DOMAIN (s \o t)
      PROVE  (s \o t)[i] \in chain /\ (s \o t)[i].balance < OversizeThreshold
  <2>1. \/ i \in DOMAIN s /\ (s \o t)[i] = s[i]
        \/ i - Len(s) \in DOMAIN t /\ (s \o t)[i] = t[i - Len(s)]
    OBVIOUS
  <2> QED
    BY <2>1 DEF Poolable
<1> QED
  BY <1>1, <1>2 DEF Poolable

(* add_new_coins of coins that one custodian had, and has no more. *)
LEMMA GivingBackKeepsCustody ==
  ASSUME CustodyInv, available \in Seq(Coin), NEW coins \in Seq(Coin),
         available' = available \o coins, UNCHANGED <<reservations, ledger>>,
         Poolable(coins, ledger),
         NEW giver \in Custodians, giver # <<"pool">>,
         ToSet(IdsOf(coins)) \subseteq CustodyOf(giver),
         CustodyOf(giver)' \subseteq CustodyOf(giver) \ ToSet(IdsOf(coins)),
         IsSound(giver)',
         \A h \in Custodians' \ {giver, <<"pool">>} : IsUnmoved(h)
  PROVE  CustodyInv'
<1> DEFINE pool == <<"pool">>
<1>1. Custodians' = Custodians /\ pool \in Custodians
  BY KindsOfCustodians
<1>2. CustodyOf(pool) \cap CustodyOf(giver) = {}
  BY <1>1 DEF CustodyInv
<1>3. CustodyOf(pool) = ToSet(IdsOf(available)) /\ Poolable(available, ledger)
  BY <1>1, CustodyByKind, SoundnessByKind DEF CustodyInv
<1>4. /\ Poolable(available \o coins, ledger)
      /\ ToSet(IdsOf(available \o coins)) = ToSet(IdsOf(available)) \cup ToSet(IdsOf(coins))
  BY <1>2, <1>3, PoolableConcat
<1>5. IsSound(pool)' /\ CustodyOf(pool)' = CustodyOf(pool) \cup ToSet(IdsOf(coins))
  <2>1. Poolable(available', ledger')
    BY <1>4
  <2>2. IsSound(pool)'
    BY <2>1, SoundnessByKind
  <2>3. ToSet(IdsOf(available')) = CustodyOf(pool) \cup ToSet(IdsOf(coins))
    BY <1>3, <1>4
  <2>4. CustodyOf(pool)' = ToSet(IdsOf(available'))
    BY CustodyByKind
  <2> QED
    BY <2>2, <2>3, <2>4
<1> HIDE DEF pool
<1>6. PICK touched, givers : touched = {} /\ givers = {giver}
  OBVIOUS
<1>7. \A c : c.id \notin touched => (c \in ledger' <=> c \in ledger)
  OBVIOUS
<1>8. givers \in SUBSET Custodians
  BY <1>6
<1>9. \A h \in Custodians' \ (givers \cup {pool}) :
        h \in Custodians /\ IsUnmoved(h) /\ CustodyOf(h) \cap touched = {}
  BY <1>1, <1>6 DEF pool
<1>10. \A h \in (givers \cap Custodians') \ {pool} :
         /\ CustodyOf(h)' \subseteq CustodyOf(h)
         /\ CustodyOf(h)' \cap CustodyOf(pool)' = {}
         /\ IsSound(h)'
  BY <1>2, <1>5, <1>6
<1>11. \A x \in CustodyOf(pool)' :
         \/ pool \in Custodians /\ x \in CustodyOf(pool)
         \/ \E k \in givers : x \in CustodyOf(k)
         \/ \A h \in Custodians : x \notin CustodyOf(h)
  BY <1>1, <1>5, <1>6
<1> QED
  BY <1>5, <1>7, <1>8, <1>9, <1>10, <1>11, CustodyMoves

(* Both halves of a list that may be added to the pool are such lists. *)
LEMMA PoolableHalves ==
  ASSUME NEW chain, NEW s \in Seq(Coin), NEW t \in Seq(Coin), Poolable(s \o t, chain)
  PROVE  /\ Poolable(s, chain) /\ Poolable(t, chain)
         /\ ToSet(IdsOf(s)) \cap ToSet(IdsOf(t)) = {}
         /\ ToSet(IdsOf(s \o t)) = ToSet(IdsOf(s)) \cup ToSet(IdsOf(t))
<1>1. /\ IsInjective(IdsOf(s)) /\ IsInjective(IdsOf(t))
      /\ ToSet(IdsOf(s)) \cap ToSet(IdsOf(t)) = {}
      /\ ToSet(IdsOf(s \o t)) = ToSet(IdsOf(s)) \cup ToSet(IdsOf(t))
  BY IdsOfConcatIsInjective DEF Poolable
<1>2. \A i \in DOMAIN s : i \in DOMAIN (s \o t) /\ (s \o t)[i] = s[i]
  OBVIOUS
<1>3. \A i \in DOMAIN t : Len(s) + i \in DOMAIN (s \o t) /\ (s \o t)[Len(s) + i] = t[i]
  OBVIOUS
<1> QED
  BY <1>1, <1>2, <1>3 DEF Poolable

(* The ids of such a list are those of coins that may be reserved. *)
LEMMA PoolableIds ==
  ASSUME NEW chain, NEW coins, Poolable(coins, chain)
  PROVE  IsInjective(IdsOf(coins)) /\ ArePoolable(ToSet(IdsOf(coins)), chain)
BY DEF Poolable, ArePoolable, ToSet, IdsOf

(* Coins pass from one custodian to another, nothing else happens. *)
LEMMA CoinsPass ==
  ASSUME CustodyInv, UNCHANGED ledger, NEW giver \in Custodians, NEW dst,
         \A h \in Custodians' \ {giver, dst} : h \in Custodians /\ IsUnmoved(h),
         IsSound(giver)', IsSound(dst)',
         CustodyOf(giver)' \subseteq CustodyOf(giver),
         CustodyOf(giver)' \cap CustodyOf(dst)' = {},
         CustodyOf(dst)' \subseteq CustodyOf(giver)
  PROVE  CustodyInv'
<1>1. PICK touched : touched = {}
  OBVIOUS
<1>2. \A c : c.id \notin touched => (c \in ledger' <=> c \in ledger)
  OBVIOUS
<1>3. ASSUME NEW h \in Custodians' \ {dst}
      PROVE  /\ h \in Custodians /\ IsSound(h)'
             /\ CustodyOf(h)' \subseteq CustodyOf(h)
             /\ CustodyOf(h)' \cap CustodyOf(dst)' = {}
  <2>1. CASE h = giver
    BY <2>1
  <2>2. CASE h # giver
    <3>1. h \in Custodians /\ IsUnmoved(h) /\ IsSound(h) /\ CustodyOf(h) \cap touched = {}
      BY <1>1, <1>3, <2>2 DEF CustodyInv
    <3>2. CustodyOf(h)' = CustodyOf(h) /\ IsSound(h)'
      BY <1>2, <3>1, UnmovedStaySound
    <3>3. CustodyOf(h) \cap CustodyOf(giver) = {}
      BY <2>2, <3>1 DEF CustodyInv
    <3> QED
      BY <3>1, <3>2, <3>3
  <2> QED
    BY <2>1, <2>2
<1>4. ASSUME NEW g \in Custodians' \ {dst}, NEW h \in Custodians' \ {dst}, g # h
      PROVE  CustodyOf(g)' \cap CustodyOf(h)' = {}
  BY <1>3, <1>4 DEF CustodyInv
<1>5. (\A g, h \in Custodians : g # h => CustodyOf(g) \cap CustodyOf(h) = {})'
  BY <1>3, <1>4
<1>6. (\A h \in Custodians : IsSound(h))'
  BY <1>3
<1> QED
  BY <1>5, <1>6 DEF CustodyInv

LEMMA ReserveKeepsSoleCustody ==
  ASSUME Typed, CustodyInv, UNCHANGED initializer,
         NEW budget \in Nat \ {0}, NEW duration, Reserve(budget, duration)
  PROVE  CustodyInv'
<1>1. PICK id \in Nat : id = nextReservationId + 1
  BY DEF Typed, PoolTyped
<1>2. PICK dst : dst = <<"reservation", id>>
  OBVIOUS
<1>3. PICK pool : pool = <<"pool">>
  OBVIOUS
<1>4. PICK n \in 1 .. Len(available), taken \in Seq(Coin) :
           /\ n = PoppedCoins(budget)
           /\ taken = SubSeq(available, 1, n)
           /\ Len(taken) = n
           /\ available = taken \o available'
           /\ available' \in Seq(Coin)
           /\ reservations' =
                [x \in DOMAIN reservations \cup {nextReservationId + 1} |->
                   IF x = nextReservationId + 1 THEN IdsOf(taken)
                   ELSE reservations[x]]
  BY GrantTakesTheFront DEF Reserve, Typed
<1>5. UNCHANGED <<ledger, task, unlocker>>
  BY DEF Reserve, chainVars, processVars
<1>6. Poolable(available, ledger) /\ pool \in Custodians
  BY <1>3, KindsOfCustodians, SoundnessByKind DEF CustodyInv
<1>7. PICK rest \in Seq(Coin) : rest = available'
  BY <1>4
<1>8. /\ Poolable(taken, ledger) /\ Poolable(rest, ledger)
      /\ ToSet(IdsOf(taken)) \cap ToSet(IdsOf(rest)) = {}
      /\ ToSet(IdsOf(available)) = ToSet(IdsOf(taken)) \cup ToSet(IdsOf(rest))
  <2>1. available = taken \o rest
    BY <1>4, <1>7
  <2> QED
    BY <1>6, <2>1, PoolableHalves
<1>9. id \notin DOMAIN reservations
  BY <1>1 DEF Typed, PoolTyped
<1>10. /\ reservations'[id] = IdsOf(taken)
       /\ \A r \in DOMAIN reservations : reservations'[r] = reservations[r]
       /\ DOMAIN reservations' = DOMAIN reservations \cup {id}
  BY <1>1, <1>4, <1>9
<1>11. CustodyOf(dst)' = ToSet(IdsOf(taken)) /\ IsSound(dst)'
  <2>1. /\ CustodyOf(dst)' = ToSet(reservations'[id])
        /\ IsSound(dst)' <=> /\ IsInjective(reservations'[id])
                             /\ ArePoolable(ToSet(reservations'[id]), ledger')
    BY <1>2, CustodyByKind, SoundnessByKind
  <2>2. IsInjective(IdsOf(taken)) /\ ArePoolable(ToSet(IdsOf(taken)), ledger)
    BY <1>8, PoolableIds
  <2> QED
    BY <1>5, <1>10, <2>1, <2>2
<1>12. /\ CustodyOf(pool) = ToSet(IdsOf(available))
       /\ CustodyOf(pool)' = ToSet(IdsOf(rest))
       /\ IsSound(pool)'
  BY <1>3, <1>5, <1>7, <1>8, CustodyByKind, SoundnessByKind
<1>13. \A h \in Custodians' \ {pool, dst} : h \in Custodians /\ IsUnmoved(h)
  <2> SUFFICES ASSUME NEW h \in Custodians' \ {pool, dst}
               PROVE  h \in Custodians /\ IsUnmoved(h)
    OBVIOUS
  <2>1. CASE h = <<"pool">>
    BY <1>3, <2>1
  <2>2. ASSUME NEW q \in DOMAIN reservations', h = <<"reservation", q>>
        PROVE  h \in Custodians /\ IsUnmoved(h)
    BY <1>10, <1>2, <2>2, KindsOfCustodians, UnmovedByKind
  <2>3. ASSUME NEW u \in Tasks, h = <<"task", u>>
        PROVE  h \in Custodians /\ IsUnmoved(h)
    BY <1>5, <2>3, KindsOfCustodians, UnmovedByKind
  <2>4. ASSUME NEW u \in Stations, h = <<"unlocker", u>>
        PROVE  h \in Custodians /\ IsUnmoved(h)
    BY <1>5, <2>4, KindsOfCustodians, UnmovedByKind
  <2>5. ASSUME NEW u \in Stations, h = <<"initializer", u>>
        PROVE  h \in Custodians /\ IsUnmoved(h)
    BY <2>5, KindsOfCustodians, UnmovedByKind
  <2> QED
    BY <2>1, <2>2, <2>3, <2>4, <2>5, KindsOfCustodians
<1>14. CustodyOf(pool)' \subseteq CustodyOf(pool) /\ CustodyOf(pool)' \cap CustodyOf(dst)' = {}
  BY <1>8, <1>11, <1>12
<1>15. CustodyOf(dst)' \subseteq CustodyOf(pool)
  BY <1>8, <1>11, <1>12
<1> QED
  BY <1>5, <1>6, <1>11, <1>12, <1>13, <1>14, <1>15, CoinsPass

LEMMA StartExecutionKeepsSoleCustody ==
  ASSUME Typed, CustodyInv, GrantsMatch, UNCHANGED <<initializer, lostReplies>>,
         lostReplies = 0, NEW t \in Tasks, NEW g \in granted, StartExecution(t, g)
  PROVE  CustodyInv'
<1>1. PICK touched : touched = {}
  OBVIOUS
<1>2. PICK r : r = g.reservation
  OBVIOUS
<1>3. PICK dst : dst = <<"task", t>>
  OBVIOUS
<1>4. PICK giver : giver = <<"reservation", r>>
  OBVIOUS
<1>5. /\ r \in DOMAIN reservations
      /\ reservations' = Restrict(reservations, DOMAIN reservations \ {r})
      /\ task' = [task EXCEPT ![t].pc = "query", ![t].payment = g.coins]
      /\ UNCHANGED <<available, unlocker, ledger>>
  BY <1>2 DEF StartExecution, ReadyForExecution, ReplyIsLost, poolVars, chainVars, Typed,
         ProcessesTyped
<1>6. /\ task'[t].payment = g.coins /\ task'[t].pc = "query"
      /\ \A u \in Tasks \ {t} : task'[u] = task[u]
  BY <1>5 DEF Typed, TasksTyped
<1>7. /\ DOMAIN reservations' = DOMAIN reservations \ {r}
      /\ \A q \in DOMAIN reservations' : reservations'[q] = reservations[q]
  BY <1>5 DEF Restrict
<1>8. dst \in Custodians /\ giver \in Custodians /\ giver \notin Custodians'
  BY <1>3, <1>4, <1>5, <1>7, KindsOfCustodians
<1>9. PICK paid : paid = TaskIds(task'[t])
  OBVIOUS
<1>10. /\ paid = ToSet(reservations[r])
       /\ CustodyOf(giver) = ToSet(reservations[r])
       /\ ArePoolable(ToSet(reservations[r]), ledger)
  <2>1. paid = {g.coins[i].id : i \in DOMAIN g.coins}
    BY <1>6, <1>9 DEF TaskIds
  <2>2. paid = ToSet(reservations[r])
    BY <1>5, <1>2, <2>1 DEF GrantsMatch
  <2>3. IsSound(giver)
    BY <1>8 DEF CustodyInv
  <2> QED
    BY <1>4, <2>2, <2>3, CustodyByKind, SoundnessByKind
<1>11. CustodyOf(dst)' = paid /\ IsSound(dst)'
  <2>1. CustodyOf(dst)' = TaskCoins(task'[t])
    BY <1>3, CustodyByKind
  <2>2. IsSound(dst)' <=> IsSoundTask(task'[t], ledger')
    BY <1>3, SoundnessByKind
  <2>3. TaskCoins(task'[t]) = paid
    BY <1>6, <1>9 DEF TaskCoins
  <2>4. IsSoundTask(task'[t], ledger')
    BY <1>5, <1>6, <1>9, <1>10 DEF IsSoundTask
  <2> QED
    BY <2>1, <2>2, <2>3, <2>4
<1>12. PICK src : src = {giver}
  OBVIOUS
<1>13. \A h \in Custodians' \ (src \cup {dst}) :
          h \in Custodians /\ IsUnmoved(h) /\ CustodyOf(h) \cap touched = {}
  <2> SUFFICES ASSUME NEW h \in Custodians' \ (src \cup {dst})
               PROVE  h \in Custodians /\ IsUnmoved(h)
    BY <1>1
  <2>1. CASE h = <<"pool">>
    BY <1>5, <2>1, KindsOfCustodians, UnmovedByKind
  <2>2. ASSUME NEW q \in DOMAIN reservations', h = <<"reservation", q>>
        PROVE  h \in Custodians /\ IsUnmoved(h)
    BY <1>7, <2>2, KindsOfCustodians, UnmovedByKind
  <2>3. ASSUME NEW u \in Tasks, h = <<"task", u>>
        PROVE  h \in Custodians /\ IsUnmoved(h)
    BY <1>6, <1>3, <2>3, KindsOfCustodians, UnmovedByKind
  <2>4. ASSUME NEW u \in Stations, h = <<"unlocker", u>>
        PROVE  h \in Custodians /\ IsUnmoved(h)
    BY <1>5, <2>4, KindsOfCustodians, UnmovedByKind
  <2>5. ASSUME NEW u \in Stations, h = <<"initializer", u>>
        PROVE  h \in Custodians /\ IsUnmoved(h)
    BY <2>5, KindsOfCustodians, UnmovedByKind
  <2> QED
    BY <2>1, <2>2, <2>3, <2>4, <2>5, KindsOfCustodians
<1>14. \A c : c.id \notin touched => (c \in ledger' <=> c \in ledger)
  BY <1>5
<1>15. src \in SUBSET Custodians
  BY <1>8, <1>12
<1>16. \A h \in (src \cap Custodians') \ {dst} :
         /\ CustodyOf(h)' \subseteq CustodyOf(h)
         /\ CustodyOf(h)' \cap CustodyOf(dst)' = {}
         /\ IsSound(h)'
  BY <1>8, <1>12
<1>17. \A x \in CustodyOf(dst)' :
         \/ dst \in Custodians /\ x \in CustodyOf(dst)
         \/ \E k \in src : x \in CustodyOf(k)
         \/ \A h \in Custodians : x \notin CustodyOf(h)
  BY <1>10, <1>11, <1>12
<1>18. IsSound(dst)'
  BY <1>11
<1> QED
  BY <1>18, <1>13, <1>14, <1>15, <1>16, <1>17, CustodyMoves

LEMMA ExpiryKeepsSoleCustody ==
  ASSUME Typed, CustodyInv, UNCHANGED <<initializer, lostReplies>>,
         lostReplies = 0, NEW s \in Stations, UnlockExpire(s)
  PROVE  CustodyInv'
<1>1. PICK dst : dst = <<"unlocker", s>>
  OBVIOUS
<1>2. PICK touched : touched = {}
  OBVIOUS
<1>3. PICK ids : ids = UNION {ToSet(reservations[r]) : r \in ExpiredReservations}
  OBVIOUS
<1>4. /\ reservations' = Restrict(reservations, DOMAIN reservations \ DueReservations)
      /\ \/ unlocker' = unlocker
         \/ unlocker' = [unlocker EXCEPT ![s].pc = "latest", ![s].batch = ids]
      /\ UNCHANGED <<available, task, ledger>>
  BY <1>3 DEF UnlockExpire, ExpireCoins, poolVars, chainVars
<1>5. /\ DOMAIN reservations' = DOMAIN reservations \ DueReservations
      /\ \A r \in DOMAIN reservations' : reservations'[r] = reservations[r]
  BY <1>4 DEF Restrict
<1>6. /\ \A u \in Stations \ {s} : unlocker'[u] = unlocker[u]
      /\ \/ unlocker'[s] = unlocker[s]
         \/ unlocker'[s].pc = "latest" /\ unlocker'[s].batch = ids
  BY <1>4 DEF Typed, UnlockersTyped
<1>7. PICK src : src = {<<"reservation", r>> : r \in ExpiredReservations}
  OBVIOUS
<1>8. /\ src \in SUBSET Custodians
      /\ src \cap Custodians' = {}
      /\ dst \in Custodians
  BY <1>5, <1>7, <1>1, KindsOfCustodians DEF ExpiredReservations
<1>9. /\ \A x \in ids : \E k \in src : x \in CustodyOf(k)
      /\ ArePoolable(ids, ledger)
  <2> SUFFICES ASSUME NEW x \in ids
               PROVE  /\ \E k \in src : x \in CustodyOf(k)
                      /\ \E c \in ledger : c.id = x /\ c.balance < OversizeThreshold
    BY DEF ArePoolable
  <2>1. PICK r \in ExpiredReservations : x \in ToSet(reservations[r])
    BY <1>3
  <2> DEFINE k == <<"reservation", r>>
  <2>2. k \in src /\ k \in Custodians
    BY <1>7, <1>8
  <2>3. IsSound(k)
    BY <2>2 DEF CustodyInv
  <2>4. CustodyOf(k) = ToSet(reservations[r]) /\ ArePoolable(ToSet(reservations[r]), ledger)
    BY <2>3, CustodyByKind, SoundnessByKind
  <2> HIDE DEF k
  <2> QED
    BY <2>1, <2>2, <2>4 DEF ArePoolable
<1>10. /\ CustodyOf(dst)' = CustodyOf(dst) \/ CustodyOf(dst)' = ids
       /\ IsSound(dst)'
  <2>1. /\ CustodyOf(dst) = unlocker[s].batch /\ CustodyOf(dst)' = unlocker'[s].batch
        /\ IsSound(dst) <=> IsSoundUnlocker(unlocker[s], ledger)
        /\ IsSound(dst)' <=> IsSoundUnlocker(unlocker'[s], ledger')
    BY <1>1, CustodyByKind, SoundnessByKind
  <2>2. IsSoundUnlocker(unlocker[s], ledger)
    BY <1>8, <2>1 DEF CustodyInv
  <2>3. CASE unlocker'[s] = unlocker[s]
    BY <1>4, <2>1, <2>2, <2>3
  <2>4. CASE unlocker'[s].pc = "latest" /\ unlocker'[s].batch = ids
    BY <1>4, <1>9, <2>1, <2>4 DEF IsSoundUnlocker
  <2> QED
    BY <1>6, <2>3, <2>4
<1>11. \A h \in Custodians' \ (src \cup {dst}) :
          h \in Custodians /\ IsUnmoved(h) /\ CustodyOf(h) \cap touched = {}
  <2> SUFFICES ASSUME NEW h \in Custodians' \ (src \cup {dst})
               PROVE  h \in Custodians /\ IsUnmoved(h)
    BY <1>2
  <2>1. CASE h = <<"pool">>
    BY <1>4, <2>1, KindsOfCustodians, UnmovedByKind
  <2>2. ASSUME NEW q \in DOMAIN reservations', h = <<"reservation", q>>
        PROVE  h \in Custodians /\ IsUnmoved(h)
    BY <1>5, <2>2, KindsOfCustodians, UnmovedByKind
  <2>3. ASSUME NEW u \in Tasks, h = <<"task", u>>
        PROVE  h \in Custodians /\ IsUnmoved(h)
    BY <1>4, <2>3, KindsOfCustodians, UnmovedByKind
  <2>4. ASSUME NEW u \in Stations, h = <<"unlocker", u>>
        PROVE  h \in Custodians /\ IsUnmoved(h)
    BY <1>6, <1>1, <2>4, KindsOfCustodians, UnmovedByKind
  <2>5. ASSUME NEW u \in Stations, h = <<"initializer", u>>
        PROVE  h \in Custodians /\ IsUnmoved(h)
    BY <2>5, KindsOfCustodians, UnmovedByKind
  <2> QED
    BY <2>1, <2>2, <2>3, <2>4, <2>5, KindsOfCustodians
<1>12. \A c : c.id \notin touched => (c \in ledger' <=> c \in ledger)
  BY <1>4
<1>13. \A h \in (src \cap Custodians') \ {dst} :
         /\ CustodyOf(h)' \subseteq CustodyOf(h)
         /\ CustodyOf(h)' \cap CustodyOf(dst)' = {}
         /\ IsSound(h)'
  BY <1>8
<1>14. \A x \in CustodyOf(dst)' :
         \/ dst \in Custodians /\ x \in CustodyOf(dst)
         \/ \E k \in src : x \in CustodyOf(k)
         \/ \A h \in Custodians : x \notin CustodyOf(h)
  BY <1>8, <1>9, <1>10
<1>15. IsSound(dst)'
  BY <1>10
<1>16. src \in SUBSET Custodians
  BY <1>8
<1> QED
  BY <1>15, <1>16, <1>11, <1>12, <1>13, <1>14, CustodyMoves

LEMMA IdleHandsAreEmpty ==
  ASSUME NEW chain
  PROVE  /\ IsSoundTask(IdleTask, chain) /\ TaskCoins(IdleTask) = {}
         /\ IsSoundUnlocker(IdleUnlocker, chain) /\ IdleUnlocker.batch = {}
<1>1. TaskIds(IdleTask) = {} /\ IdleTask.pc = "idle"
  BY DEF TaskIds, IdleTask
<1>2. IdleUnlocker.batch = {} /\ IdleUnlocker.pc = "idle"
  BY DEF IdleUnlocker
<1> QED
  BY <1>1, <1>2 DEF IsSoundTask, TaskCoins, IsSoundUnlocker, ArePoolable

(* What is read of coins that may be reserved is a list that may be added. *)
LEMMA LatestArePoolable ==
  ASSUME ChainTyped, ChainIsUnique, fullnode = ledger, NEW ids,
         ArePoolable(ids, ledger), NEW coins \in SetToSeqs(LatestGasObjects(ids))
  PROVE  /\ Poolable(coins, ledger)
         /\ ToSet(IdsOf(coins)) \subseteq ids
         /\ \A i \in DOMAIN coins : ~Oversized(coins[i])
<1>1. IsInjective(IdsOf(coins)) /\ ToSet(IdsOf(coins)) \subseteq ids
  BY LatestIdsAreDistinct
<1>2. ASSUME NEW i \in DOMAIN coins
      PROVE  /\ coins[i] \in ledger /\ coins[i].balance < OversizeThreshold
             /\ ~Oversized(coins[i])
  <2>1. coins[i] \in ledger
    BY LatestAreLive
  <2>2. coins[i].id \in ids
    BY <1>1 DEF ToSet, IdsOf
  <2>3. PICK c \in ledger : c.id = coins[i].id /\ c.balance < OversizeThreshold
    BY <2>2 DEF ArePoolable
  <2>4. c = coins[i]
    BY <2>1, <2>3 DEF ChainIsUnique
  <2>5. c.balance \in Nat
    BY <2>3 DEF ChainTyped, Coin
  <2> QED
    BY <2>1, <2>3, <2>4, <2>5, GasStationAssumption DEF Oversized
<1> QED
  BY <1>1, <1>2 DEF Poolable

(* The steps of a task that commit nothing and give nothing back. *)
LEMMA ReadingKeepsSoleCustody ==
  ASSUME Typed, ChainIsUnique, fullnode = ledger, CustodyInv, UNCHANGED initializer,
         ResponsesGetLost = FALSE, NEW t \in Tasks,
         \/ QueryTotalBalance(t) \/ ExecuteErr(t) \/ QueryLatest(t)
         \/ TriggerRescan(t)
  PROVE  CustodyInv'
<1>1. /\ UNCHANGED <<available, reservations, unlocker, ledger>>
      /\ \A u \in Tasks \ {t} : task'[u] = task[u]
  BY DEF QueryTotalBalance, ExecuteErr, QueryLatest, TriggerRescan, registryVars,
         poolVars, reservationVars, chainVars, Typed, TasksTyped
<1>2. IsSoundTask(task[t], ledger)
  <2>1. IsSound(<<"task", t>>)
    BY KindsOfCustodians DEF CustodyInv
  <2> QED
    BY <2>1, SoundnessByKind
<1>3. TaskIds(task[t]) = PaymentIds(t)
  BY DEF TaskIds, PaymentIds
<1>4. PICK next : next = task'[t]
  OBVIOUS
<1>5. IsSoundTask(next, ledger) /\ TaskCoins(next) \subseteq TaskCoins(task[t])
  <2>1. CASE QueryTotalBalance(t)
    <3>1. /\ task[t].pc = "query" /\ next.pc = "execute"
          /\ next.payment = task[t].payment
          /\ next.before = TotalBalance(LatestGasObjects(PaymentIds(t)))
      BY <1>4, <2>1 DEF QueryTotalBalance, Typed, TasksTyped
    <3>2. LatestGasObjects(PaymentIds(t)) = {c \in ledger : c.id \in PaymentIds(t)}
      BY LatestAreLive DEF Typed, LiveOf
    <3>3. TaskIds(next) = TaskIds(task[t])
      BY <3>1 DEF TaskIds
    <3>4. ArePoolable(TaskIds(next), ledger) /\ TaskCoins(next) = TaskCoins(task[t])
      BY <1>2, <3>1, <3>3 DEF IsSoundTask, TaskCoins
    <3>5. next.before = TotalBalance({c \in ledger : c.id \in TaskIds(next)})
      BY <1>3, <3>1, <3>2, <3>3
    <3> QED
      BY <3>1, <3>4, <3>5 DEF IsSoundTask
  <2>2. CASE ExecuteErr(t)
    <3>1. /\ task[t].pc = "execute" /\ next.pc = "latest"
          /\ next.payment = task[t].payment
      BY <1>4, <2>2 DEF ExecuteErr, Typed, TasksTyped
    <3>2. TaskIds(next) = TaskIds(task[t])
      BY <3>1 DEF TaskIds
    <3> QED
      BY <1>2, <3>1, <3>2 DEF IsSoundTask, TaskCoins
  <2>3. CASE QueryLatest(t)
    <3>1. PICK coins \in SetToSeqs(LatestGasObjects(PaymentIds(t))) :
            task' = [task EXCEPT ![t].pc = "release", ![t].updated = coins]
      BY <2>3 DEF QueryLatest
    <3>2. next.pc = "release" /\ next.updated = coins /\ task[t].pc = "latest"
      <4>1. next = [task[t] EXCEPT !.pc = "release", !.updated = coins]
        BY <1>4, <3>1 DEF Typed, TasksTyped
      <4> QED
        BY <2>3, <4>1 DEF QueryLatest, Typed, TasksTyped
    <3>3. ArePoolable(PaymentIds(t), ledger)
      BY <1>2, <1>3, <3>2 DEF IsSoundTask
    <3>4. /\ Poolable(coins, ledger)
          /\ ToSet(IdsOf(coins)) \subseteq PaymentIds(t)
      BY <3>3, LatestArePoolable DEF Typed
    <3> QED
      BY <1>3, <3>2, <3>4 DEF IsSoundTask, TaskCoins
  <2>4. CASE TriggerRescan(t)
    <3>1. next = IdleTask
      BY <1>4, <2>4 DEF TriggerRescan, Typed, TasksTyped
    <3> QED
      BY <3>1, IdleHandsAreEmpty
  <2> QED
    BY <2>1, <2>2, <2>3, <2>4
<1>6. PICK touched \in SUBSET TaskCoins(task[t]) : touched = {}
  OBVIOUS
<1>7. \A c : c.id \notin touched => (c \in ledger' <=> c \in ledger)
  BY <1>1
<1>8. /\ IsSoundTask(task'[t], ledger')
      /\ TaskCoins(task'[t]) \subseteq TaskCoins(task[t])
  BY <1>1, <1>4, <1>5
<1> QED
  BY <1>1, <1>7, <1>8, TaskChanges

(* A refresh takes what has the threshold for new, a task puts aside only what
   has more. *)
NoneIsOnTheEdge ==
  \A t \in Tasks : \A i \in DOMAIN task[t].updated :
    task[t].updated[i].balance # OversizeThreshold

LEMMA UpdatedCoinIsExact ==
  ASSUME Typed, ChainIsUnique, BalancesFit', NEW t \in Tasks,
         IsSoundTask(task[t], ledger), task[t].pc = "execute",
         NEW gas \in NetGas, Commit(task[t].payment, gas)
  PROVE  /\ UpdatedCoin(t, gas) = GasCoin(task[t].payment, gas)
         /\ GasCoin(task[t].payment, gas) \in ledger'
<1>1. PICK payment \in Payments : payment = task[t].payment
  BY TasksPay DEF Typed
<1>2. task[t].before = TotalBalance(PaidCoins(payment))
  <2>1. PaidCoins(payment) = {c \in ledger : c.id \in PaidIds(payment)}
    BY <1>1, CommitIsExact DEF Typed, LiveOf
  <2>2. TaskIds(task[t]) = PaidIds(payment)
    BY <1>1 DEF TaskIds, PaidIds
  <2> QED
    BY <2>1, <2>2 DEF IsSoundTask
<1>3. GasCoin(payment, gas) \in ledger'
  BY <1>1 DEF Commit
<1>4. GasCoin(payment, gas).balance = task[t].before - gas
  BY <1>2 DEF GasCoin
<1>5. task[t].before - gas \in 0 .. U64 - 1
  <2>1. GasCoin(payment, gas).balance < U64
    BY <1>3 DEF BalancesFit
  <2>2. task[t].before >= gas
    BY <1>1, <1>2 DEF Commit, Executable
  <2> QED
    BY <1>4, <2>1, <2>2, GasStationAssumption DEF Typed, TasksTyped
<1>6. (task[t].before - gas) % U64 = task[t].before - gas
  BY <1>5, GasStationAssumption
<1>7. UpdatedCoin(t, gas) =
        [GasCoin(payment, gas) EXCEPT !.balance = GasCoin(payment, gas).balance]
  BY <1>1, <1>4, <1>6 DEF UpdatedCoin
<1> QED
  BY <1>1, <1>3, <1>7 DEF GasCoin

LEMMA ExecuteOkKeepsSoleCustody ==
  ASSUME Typed, Typed', ChainIsUnique, CustodyInv, UNCHANGED initializer,
         BalancesFit', NoneIsOnTheEdge', NEW t \in Tasks, ExecuteOk(t)
  PROVE  CustodyInv'
<1>1. /\ UNCHANGED <<available, reservations, unlocker>>
      /\ task[t].pc = "execute"
      /\ task[t].payment \in Payments
  BY TasksPay DEF ExecuteOk, registryVars, poolVars, reservationVars, Typed
<1>2. IsSoundTask(task[t], ledger)
  <2>1. IsSound(<<"task", t>>)
    BY KindsOfCustodians DEF CustodyInv
  <2> QED
    BY <2>1, SoundnessByKind
<1>3. PICK gas \in NetGas :
        /\ Commit(task[t].payment, gas)
        /\ task' = [task EXCEPT ![t].pc = "release",
                                ![t].updated = <<UpdatedCoin(t, gas)>>]
  BY DEF ExecuteOk
<1>4. PICK coin : coin = GasCoin(task[t].payment, gas)
  OBVIOUS
<1>5. PICK next : next = task'[t]
  OBVIOUS
<1>6. PICK chain : chain = ledger'
  OBVIOUS
<1>7. /\ next.pc = "release" /\ next.updated = <<coin>>
      /\ \A u \in Tasks \ {t} : task'[u] = task[u]
  BY <1>1, <1>2, <1>3, <1>4, <1>5, UpdatedCoinIsExact DEF Typed, TasksTyped
<1>8. /\ coin \in chain
      /\ coin.balance \in Nat /\ coin.balance # OversizeThreshold
      /\ coin.id \in TaskIds(task[t])
  <2>1. coin \in ledger'
    BY <1>3, <1>4 DEF Commit
  <2>2. coin \in Coin
    BY <2>1 DEF Typed, ChainTyped
  <2>3. coin.balance # OversizeThreshold
    <3>1. 1 \in DOMAIN next.updated /\ next.updated[1] = coin
      BY <1>7
    <3> QED
      BY <1>5, <3>1 DEF NoneIsOnTheEdge
  <2>4. coin.id \in PaidIds(task[t].payment)
    BY <1>1, <1>3, <1>4, CommitIsExact DEF Typed
  <2> QED
    BY <1>6, <2>1, <2>2, <2>3, <2>4 DEF Coin, PaidIds, TaskIds
<1>9. IdsOf(<<coin>>) = <<coin.id>> /\ ToSet(IdsOf(<<coin>>)) = {coin.id}
  BY DEF IdsOf, ToSet
<1>10. IsSoundTask(next, chain)
  <2>1. ASSUME ~KeepsAside(next) PROVE Poolable(next.updated, chain)
    <3>1. coin.balance < OversizeThreshold
      BY <1>7, <1>8, <2>1, GasStationAssumption DEF KeepsAside, Oversized
    <3>2. IsInjective(<<coin.id>>)
      BY DEF IsInjective
    <3> QED
      BY <1>7, <1>8, <1>9, <3>1, <3>2 DEF Poolable
  <2> QED
    BY <1>7, <2>1 DEF IsSoundTask
<1>11. TaskCoins(task[t]) = TaskIds(task[t])
  BY <1>1 DEF TaskCoins
<1>12. TaskCoins(next) \subseteq TaskCoins(task[t])
  BY <1>7, <1>8, <1>9, <1>11 DEF TaskCoins
<1>13. PICK touched \in SUBSET TaskCoins(task[t]) : touched = TaskIds(task[t])
  BY <1>11
<1>14. \A c : c.id \notin touched => (c \in ledger' <=> c \in ledger)
  <2>1. ledger' = (ledger \ PaidCoins(task[t].payment)) \cup {coin}
    BY <1>3, <1>4 DEF Commit
  <2>2. PaidCoins(task[t].payment) = {c \in ledger : c.id \in TaskIds(task[t])}
    BY <1>1, <1>3, CommitIsExact DEF Typed, LiveOf, PaidIds, TaskIds
  <2> QED
    BY <1>8, <1>13, <2>1, <2>2
<1>15. /\ IsSoundTask(task'[t], ledger')
       /\ TaskCoins(task'[t]) \subseteq TaskCoins(task[t])
  BY <1>5, <1>6, <1>10, <1>12
<1> QED
  BY <1>1, <1>7, <1>14, <1>15, TaskChanges

LEMMA ReleaseKeepsSoleCustody ==
  ASSUME Typed, CustodyInv, UNCHANGED <<initializer, lostReplies>>,
         lostReplies = 0, availableTotal # Absent, NEW t \in Tasks, ReleaseCoins(t)
  PROVE  CustodyInv'
<1>1. /\ task[t].pc = "release" /\ ~KeepsAside(task[t])
      /\ AddNewCoins(task[t].updated)
      /\ task' = [task EXCEPT ![t] = IdleTask]
      /\ UNCHANGED <<unlocker, ledger>>
  BY DEF ReleaseCoins, AddNewCoinsFailed, ReplyIsLost, ReplyArrives, KeepsAside,
         chainVars, Typed, ProcessesTyped
<1>2. PICK coins \in Seq(Coin) : coins = task[t].updated
  BY DEF Typed, TasksTyped
<1>3. /\ available \in Seq(Coin)
      /\ available' = available \o coins /\ UNCHANGED <<reservations, ledger>>
  BY <1>1, <1>2 DEF AddNewCoins, PushCoins, reservationVars, Typed, PoolTyped
<1>4. task'[t] = IdleTask /\ \A u \in Tasks \ {t} : task'[u] = task[u]
  BY <1>1 DEF Typed, TasksTyped
<1>5. PICK giver \in Custodians : giver = <<"task", t>>
  BY KindsOfCustodians
<1>6. giver # <<"pool">>
  BY <1>5
<1>7. /\ Poolable(coins, ledger)
      /\ CustodyOf(giver) = ToSet(IdsOf(coins))
  <2>1. IsSound(giver)
    BY DEF CustodyInv
  <2>2. IsSoundTask(task[t], ledger)
    BY <1>5, <2>1, SoundnessByKind
  <2> QED
    BY <1>1, <1>2, <1>5, <2>2, CustodyByKind DEF IsSoundTask, TaskCoins
<1>8. CustodyOf(giver)' = {} /\ IsSound(giver)'
  <2>1. IsSoundTask(task'[t], ledger') /\ TaskCoins(task'[t]) = {}
    BY <1>4, IdleHandsAreEmpty
  <2> QED
    BY <1>5, <2>1, CustodyByKind, SoundnessByKind
<1>9. \A h \in Custodians' \ {giver, <<"pool">>} : IsUnmoved(h)
  BY <1>1, <1>3, <1>4, <1>5, KindsOfCustodians, UnmovedByKind
<1>10. CustodyOf(giver)' \subseteq CustodyOf(giver) \ ToSet(IdsOf(coins))
  BY <1>8
<1>11. ToSet(IdsOf(coins)) \subseteq CustodyOf(giver)
  BY <1>7
<1> QED
  BY <1>3, <1>6, <1>7, <1>8, <1>9, <1>10, <1>11, GivingBackKeepsCustody

LEMMA UnlockQueryKeepsSoleCustody ==
  ASSUME Typed, ChainIsUnique, fullnode = ledger, CustodyInv, UNCHANGED initializer,
         NEW s \in Stations, UnlockQuery(s)
  PROVE  CustodyInv'
<1>1. /\ UNCHANGED <<available, reservations, task, ledger>>
      /\ \A r \in Stations \ {s} : unlocker'[r] = unlocker[r]
  BY DEF UnlockQuery, registryVars, poolVars, reservationVars, chainVars, Typed,
         UnlockersTyped
<1>2. IsSoundUnlocker(unlocker[s], ledger)
  <2>1. IsSound(<<"unlocker", s>>)
    BY KindsOfCustodians DEF CustodyInv
  <2> QED
    BY <2>1, SoundnessByKind
<1>3. PICK coins \in SetToSeqs(LatestGasObjects(unlocker[s].batch)) :
        unlocker' = [unlocker EXCEPT ![s].pc = "release", ![s].updated = coins]
  BY DEF UnlockQuery
<1>4. /\ unlocker'[s].batch = unlocker[s].batch
      /\ unlocker'[s].updated = coins
  BY <1>3 DEF Typed, UnlockersTyped
<1>5. /\ Poolable(coins, ledger)
      /\ ToSet(IdsOf(coins)) \subseteq unlocker[s].batch
  BY <1>2, LatestArePoolable DEF Typed, IsSoundUnlocker
<1>6. IsSoundUnlocker(unlocker'[s], ledger')
  BY <1>1, <1>2, <1>4, <1>5 DEF IsSoundUnlocker
<1> QED
  BY <1>1, <1>4, <1>6, UnlockerChanges

LEMMA UnlockReleaseKeepsSoleCustody ==
  ASSUME Typed, CustodyInv, UNCHANGED <<initializer, lostReplies>>,
         lostReplies = 0, availableTotal # Absent,
         NEW s \in Stations, UnlockRelease(s)
  PROVE  CustodyInv'
<1>1. /\ unlocker[s].pc = "release"
      /\ AddNewCoins(unlocker[s].updated)
      /\ unlocker' = [unlocker EXCEPT ![s] = IdleUnlocker]
      /\ UNCHANGED <<task, ledger>>
  BY DEF UnlockRelease, AddNewCoinsFailed, ReplyIsLost, ReplyArrives, chainVars,
         Typed, ProcessesTyped
<1>2. PICK coins \in Seq(Coin) : coins = unlocker[s].updated
  BY DEF Typed, UnlockersTyped
<1>3. /\ available \in Seq(Coin)
      /\ available' = available \o coins /\ UNCHANGED <<reservations, ledger>>
  BY <1>1, <1>2 DEF AddNewCoins, PushCoins, reservationVars, Typed, PoolTyped
<1>4. unlocker'[s] = IdleUnlocker /\ \A r \in Stations \ {s} : unlocker'[r] = unlocker[r]
  BY <1>1 DEF Typed, UnlockersTyped
<1>5. PICK giver \in Custodians : giver = <<"unlocker", s>>
  BY KindsOfCustodians
<1>6. giver # <<"pool">>
  BY <1>5
<1>7. /\ Poolable(coins, ledger)
      /\ ToSet(IdsOf(coins)) \subseteq CustodyOf(giver)
  <2>1. IsSound(giver)
    BY DEF CustodyInv
  <2>2. IsSoundUnlocker(unlocker[s], ledger)
    BY <1>5, <2>1, SoundnessByKind
  <2> QED
    BY <1>1, <1>2, <1>5, <2>2, CustodyByKind DEF IsSoundUnlocker
<1>8. CustodyOf(giver)' = {} /\ IsSound(giver)'
  <2>1. IsSoundUnlocker(unlocker'[s], ledger') /\ unlocker'[s].batch = {}
    BY <1>4, IdleHandsAreEmpty
  <2> QED
    BY <1>5, <2>1, CustodyByKind, SoundnessByKind
<1>9. \A h \in Custodians' \ {giver, <<"pool">>} : IsUnmoved(h)
  BY <1>1, <1>3, <1>4, <1>5, KindsOfCustodians, UnmovedByKind
<1>10. CustodyOf(giver)' \subseteq CustodyOf(giver) \ ToSet(IdsOf(coins))
  BY <1>8
<1> QED
  BY <1>3, <1>6, <1>7, <1>8, <1>9, <1>10, GivingBackKeepsCustody

(* A process that stops drops what it has in its hands. *)
LEMMA CrashKeepsSoleCustody ==
  ASSUME Typed, InitializersTyped, CustodyInv, NEW s \in Stations, CrashAnywhere(s)
  PROVE  CustodyInv'
<1>1. /\ UNCHANGED <<available, reservations, ledger>>
      /\ initializer' = [initializer EXCEPT ![s] = Down]
      /\ \A t \in Tasks : task'[t] \in {task[t], IdleTask}
      /\ \A r \in Stations : unlocker'[r] \in {unlocker[r], IdleUnlocker}
  BY DEF CrashAnywhere, Crash, registryVars, poolVars, reservationVars, chainVars,
         Typed, TasksTyped, UnlockersTyped
<1>2. /\ \A r \in Stations \ {s} : initializer'[r] = initializer[r]
      /\ initializer'[s].work = {} /\ initializer'[s].result = << >>
  BY <1>1 DEF InitializersTyped, Down
<1>3. IsSoundWork({}, << >>, ledger) /\ WorkCoins({}, << >>) = {}
  <2>1. IdsOf(<< >>) = << >> /\ ToSet(<< >>) = {} /\ IsInjective(<< >>)
    BY DEF IdsOf, ToSet, IsInjective
  <2> QED
    BY <2>1 DEF IsSoundWork, Poolable, WorkCoins
<1>4. ASSUME NEW h \in Custodians'
      PROVE  /\ h \in Custodians
             /\ CustodyOf(h)' \subseteq CustodyOf(h)
             /\ IsSound(h)'
  <2>1. h \in Custodians /\ IsSound(h)
    BY <1>1, KindsOfCustodians DEF CustodyInv
  <2>2. PICK touched : touched = {}
    OBVIOUS
  <2>3. CASE IsUnmoved(h)
    <3>1. \A c : c.id \notin touched => (c \in ledger' <=> c \in ledger)
      BY <1>1
    <3>2. CustodyOf(h) \cap touched = {}
      BY <2>2
    <3> QED
      BY <2>1, <2>3, <3>1, <3>2, UnmovedStaySound
  <2>4. ASSUME NEW t \in Tasks, h = <<"task", t>>, task'[t] = IdleTask
        PROVE  CustodyOf(h)' \subseteq CustodyOf(h) /\ IsSound(h)'
    BY <2>4, IdleHandsAreEmpty, CustodyByKind, SoundnessByKind
  <2>5. ASSUME NEW r \in Stations, h = <<"unlocker", r>>, unlocker'[r] = IdleUnlocker
        PROVE  CustodyOf(h)' \subseteq CustodyOf(h) /\ IsSound(h)'
    BY <2>5, IdleHandsAreEmpty, CustodyByKind, SoundnessByKind
  <2>6. CASE h = <<"initializer", s>>
    BY <1>1, <1>2, <1>3, <2>1, <2>6, CustodyByKind, SoundnessByKind
  <2>7. \/ IsUnmoved(h)
        \/ \E t \in Tasks : h = <<"task", t>> /\ task'[t] = IdleTask
        \/ \E r \in Stations : h = <<"unlocker", r>> /\ unlocker'[r] = IdleUnlocker
        \/ h = <<"initializer", s>>
    BY <1>1, <1>2, <1>4, KindsOfCustodians, UnmovedByKind
  <2>8. CASE \E t \in Tasks : h = <<"task", t>> /\ task'[t] = IdleTask
    BY <2>1, <2>4, <2>8
  <2>9. CASE \E r \in Stations : h = <<"unlocker", r>> /\ unlocker'[r] = IdleUnlocker
    BY <2>1, <2>5, <2>9
  <2> QED
    BY <2>1, <2>3, <2>6, <2>7, <2>8, <2>9
<1>5. (\A g, h \in Custodians : g # h => CustodyOf(g) \cap CustodyOf(h) = {})'
  BY <1>4 DEF CustodyInv
<1>6. (\A h \in Custodians : IsSound(h))'
  BY <1>4
<1> QED
  BY <1>5, <1>6 DEF CustodyInv

Tasked(coins) ==
  {[coin |-> c, count |-> SplitCount(c.balance)] :
     c \in {d \in coins : ~TooSmall(d.balance)}}

Untasked(coins) == SetToSeq({c \in coins : TooSmall(c.balance)})

LEMMA SmallIsBelowThreshold ==
  ASSUME NEW balance \in Nat, TooSmall(balance)
  PROVE  balance < OversizeThreshold
<1>1. PieceCost \in Nat
  BY SplitParameters
<1> QED
  BY <1>1, InitializerAssumption, GasStationAssumption DEF TooSmall

AreNew(coins, work, result, chain) ==
  /\ \A c, d \in chain : c.id = d.id => c = d
  /\ IsFiniteSet(coins) /\ coins \subseteq chain /\ coins \subseteq Coin
  /\ \A c \in coins : c.id \notin WorkCoins(work, result)

(* enqueue_task of live coins that the initializer has not read yet. *)
LEMMA EnqueuedWorkIsSound ==
  ASSUME NEW chain,
         NEW work, NEW result \in Seq(Coin), IsSoundWork(work, result, chain),
         NEW coins, AreNew(coins, work, result, chain),
         NEW allWork, allWork = work \cup Tasked(coins),
         NEW allResult, allResult = result \o Untasked(coins)
  PROVE  /\ IsSoundWork(allWork, allResult, chain)
         /\ WorkCoins(allWork, allResult)
              \subseteq WorkCoins(work, result) \cup {c.id : c \in coins}
<1> USE DEF AreNew
<1> DEFINE small == {c \in coins : TooSmall(c.balance)}
<1>1. PICK list : list = Untasked(coins)
  OBVIOUS
<1>2. /\ list \in Seq(Coin)
      /\ IsInjective(list)
      /\ ToSet(list) = small
  <2>1. IsFiniteSet(small) /\ small \subseteq Coin
    BY FS_Subset
  <2>2. list = SetToSeq(small)
    BY <1>1 DEF Untasked
  <2> HIDE DEF small
  <2>3. /\ list \in [1 .. Cardinality(small) -> small]
        /\ IsInjective(list) /\ ToSet(list) = small
    BY <2>1, <2>2, ListOfASet
  <2>4. Cardinality(small) \in Nat
    BY <2>1, FS_CardinalityType
  <2> QED
    BY <2>1, <2>3, <2>4
<1>3. \A i \in DOMAIN list : list[i] \in small
  BY <1>2 DEF ToSet
<1>4. IsInjective(IdsOf(list))
  <2>1. \A i, j \in DOMAIN list : list[i].id = list[j].id => i = j
    BY <1>2, <1>3 DEF IsInjective
  <2> QED
    BY <2>1 DEF IsInjective, IdsOf
<1>5. Poolable(list, chain)
  <2>1. ASSUME NEW i \in DOMAIN list
        PROVE  list[i] \in chain /\ list[i].balance < OversizeThreshold
    <3>1. list[i] \in coins /\ list[i] \in Coin /\ TooSmall(list[i].balance)
      BY <1>3
    <3>2. list[i].balance \in Nat
      BY <3>1 DEF Coin
    <3> QED
      BY <3>1, <3>2, SmallIsBelowThreshold
  <2> QED
    BY <1>4, <2>1 DEF Poolable
<1>6. \A x \in ToSet(IdsOf(list)) : \E c \in coins : TooSmall(c.balance) /\ x = c.id
  BY <1>3 DEF ToSet, IdsOf
<1>7. ToSet(IdsOf(result)) \cap ToSet(IdsOf(list)) = {}
  BY <1>6 DEF WorkCoins
<1>8. /\ Poolable(result \o list, chain)
      /\ ToSet(IdsOf(result \o list)) = ToSet(IdsOf(result)) \cup ToSet(IdsOf(list))
  BY <1>2, <1>5, <1>7, PoolableConcat DEF IsSoundWork
<1>9. \A w \in Tasked(coins) :
        /\ w.coin \in coins /\ ~TooSmall(w.coin.balance)
        /\ w.count = SplitCount(w.coin.balance)
        /\ w = [coin |-> w.coin, count |-> w.count]
  BY DEF Tasked
<1>10. \A w \in work \cup Tasked(coins) : w.coin \in chain
  BY <1>9 DEF IsSoundWork
<1>11. ASSUME NEW w \in work \cup Tasked(coins)
       PROVE  w.coin.id \notin ToSet(IdsOf(result \o list))
  <2>1. CASE w \in work
    <3>1. w.coin.id \notin ToSet(IdsOf(result)) /\ w.coin.id \in WorkCoins(work, result)
      BY <2>1 DEF IsSoundWork, WorkCoins
    <3> QED
      BY <1>6, <1>8, <3>1
  <2>2. CASE w \in Tasked(coins)
    <3>1. w.coin \in coins /\ ~TooSmall(w.coin.balance)
      BY <1>9, <2>2
    <3>2. w.coin.id \notin ToSet(IdsOf(result))
      BY <3>1 DEF WorkCoins
    <3>3. w.coin.id \notin ToSet(IdsOf(list))
      BY <1>6, <3>1
    <3> QED
      BY <1>8, <3>2, <3>3
  <2> QED
    BY <2>1, <2>2
<1>12. ASSUME NEW v \in work \cup Tasked(coins), NEW w \in work \cup Tasked(coins),
              v.coin.id = w.coin.id
       PROVE  v = w
  <2>1. CASE v \in work /\ w \in work
    BY <1>12, <2>1 DEF IsSoundWork
  <2>2. CASE v \in Tasked(coins) /\ w \in Tasked(coins)
    <3>1. v.coin = w.coin
      BY <1>9, <1>12, <2>2
    <3> QED
      BY <1>9, <2>2, <3>1
  <2>3. ASSUME NEW x \in work, NEW y \in Tasked(coins) PROVE x.coin.id # y.coin.id
    <3>1. x.coin.id \in WorkCoins(work, result)
      BY DEF WorkCoins
    <3> QED
      BY <1>9, <3>1
  <2> QED
    BY <1>12, <2>1, <2>2, <2>3
<1>13. ASSUME NEW x \in WorkCoins(work \cup Tasked(coins), result \o list)
       PROVE  x \in WorkCoins(work, result) \/ \E c \in coins : x = c.id
  BY <1>6, <1>8, <1>9 DEF WorkCoins
<1>14. IsSoundWork(work \cup Tasked(coins), result \o list, chain)
  BY <1>8, <1>10, <1>11, <1>12 DEF IsSoundWork
<1> QED
  BY <1>1, <1>13, <1>14

LEMMA EnqueuedFields ==
  ASSUME InitializersTyped, NEW s \in Stations, NEW coins
  PROVE  /\ Enqueue(s, coins).work = initializer[s].work \cup Tasked(coins)
         /\ Enqueue(s, coins).result = initializer[s].result \o Untasked(coins)
         /\ Enqueue(s, coins) = [initializer[s] EXCEPT
              !.result = initializer[s].result \o Untasked(coins),
              !.work = initializer[s].work \cup Tasked(coins)]
<1>1. initializer[s] \in InitializerRecord
  BY DEF InitializersTyped
<1>2. Enqueue(s, coins) = [initializer[s] EXCEPT
              !.result = initializer[s].result \o Untasked(coins),
              !.work = initializer[s].work \cup Tasked(coins)]
  BY DEF Enqueue, Tasked, Untasked
<1> HIDE DEF Enqueue
<1> QED
  BY <1>1, <1>2 DEF InitializerRecord

(* Whoever holds a coin, it is live, and small if it can go to the pool. *)
LEMMA HeldCoinsAreLive ==
  ASSUME CustodyInv, NEW h \in Custodians, NEW x \in CustodyOf(h)
  PROVE  /\ \E c \in ledger : c.id = x
         /\ \/ \E c \in ledger : c.id = x /\ c.balance < OversizeThreshold
            \/ \E s \in Stations : h = <<"initializer", s>>
<1> DEFINE IsPooled == \E c \in ledger : c.id = x /\ c.balance < OversizeThreshold
<1>1. IsSound(h)
  BY DEF CustodyInv
<1>2. ASSUME NEW coins, Poolable(coins, ledger), x \in ToSet(IdsOf(coins)) PROVE IsPooled
  BY <1>2 DEF Poolable, ToSet, IdsOf
<1>3. ASSUME NEW ids, ArePoolable(ids, ledger), x \in ids PROVE IsPooled
  BY <1>3 DEF ArePoolable
<1> HIDE DEF IsPooled
<1>4. CASE h = <<"pool">>
  <2>1. IsPooled
    BY <1>1, <1>2, <1>4, CustodyByKind, SoundnessByKind
  <2> QED
    BY <2>1 DEF IsPooled
<1>5. ASSUME NEW r, h = <<"reservation", r>>
      PROVE  IsPooled
  BY <1>1, <1>3, <1>5, CustodyByKind, SoundnessByKind
<1>6. ASSUME NEW t \in Tasks, h = <<"task", t>>
      PROVE  IsPooled
  <2>1. IsSoundTask(task[t], ledger) /\ x \in TaskCoins(task[t])
    BY <1>1, <1>6, CustodyByKind, SoundnessByKind
  <2>2. CASE task[t].pc = "release"
    <3>1. Poolable(task[t].updated, ledger) /\ x \in ToSet(IdsOf(task[t].updated))
      BY <2>1, <2>2 DEF IsSoundTask, TaskCoins
    <3> QED
      BY <1>2, <3>1
  <2>3. CASE task[t].pc # "release"
    <3>1. ArePoolable(TaskIds(task[t]), ledger) /\ x \in TaskIds(task[t])
      BY <2>1, <2>3 DEF IsSoundTask, TaskCoins
    <3> QED
      BY <1>3, <3>1
  <2> QED
    BY <2>2, <2>3
<1>7. ASSUME NEW s \in Stations, h = <<"unlocker", s>>
      PROVE  IsPooled
  <2>1. ArePoolable(unlocker[s].batch, ledger) /\ x \in unlocker[s].batch
    BY <1>1, <1>7, CustodyByKind, SoundnessByKind DEF IsSoundUnlocker
  <2> QED
    BY <1>3, <2>1
<1>8. ASSUME NEW s \in Stations, h = <<"initializer", s>>
      PROVE  \E c \in ledger : c.id = x
  <2>1. /\ IsSoundWork(initializer[s].work, initializer[s].result, ledger)
        /\ x \in WorkCoins(initializer[s].work, initializer[s].result)
    BY <1>1, <1>8, CustodyByKind, SoundnessByKind
  <2>2. CASE x \in ToSet(IdsOf(initializer[s].result))
    <3>1. IsPooled
      BY <1>2, <2>1, <2>2 DEF IsSoundWork
    <3> QED
      BY <3>1 DEF IsPooled
  <2>3. CASE x \notin ToSet(IdsOf(initializer[s].result))
    BY <2>1, <2>3 DEF IsSoundWork, WorkCoins
  <2> QED
    BY <2>2, <2>3
<1>9. IsPooled => \E c \in ledger : c.id = x
  BY DEF IsPooled
<1>10. IsPooled \/ \E s \in Stations : h = <<"initializer", s>>
  BY <1>4, <1>5, <1>6, <1>7, KindsOfCustodians DEF IsPooled
<1> QED
  BY <1>8, <1>9, <1>10 DEF IsPooled

(* What initializers hold depends on where they are. *)
StagesInv ==
  \A s \in Stations :
    /\ ~initializer[s].force
    /\ initializer[s].pc \notin {"clean", "stats", "end", "fail"}
    /\ initializer[s].pc \notin {"split", "add"} => initializer[s].result = << >>
    /\ initializer[s].pc # "split" => initializer[s].work = {}

(* Until coins are added to the registry there is nothing to serve. *)
NothingIsServed ==
  /\ available = << >>
  /\ DOMAIN reservations = {}
  /\ granted = {}
  /\ \A t \in Tasks : task[t] = IdleTask
  /\ \A s \in Stations : unlocker[s] = IdleUnlocker

(* The first start is the only one that scans a registry as its own. *)
FirstStartsAreFirst ==
  \A s \in Stations :
    At(s, "scan") /\ initializer[s].mode = "Init" => ~initialized

LEMMA ScannedCoinsAreFree ==
  ASSUME Typed, ChainIsUnique, CustodyInv, StagesInv, LocksExclude,
         FirstStartsAreFirst, ~initialized => NothingIsServed,
         NEW s \in Stations, At(s, "scan"), InitializersTyped,
         NEW c \in ledger, c.balance >= Threshold(s), NEW h \in Custodians
  PROVE  c.id \notin CustodyOf(h)
<1> SUFFICES ASSUME c.id \in CustodyOf(h) PROVE FALSE
  OBVIOUS
<1>1. ToSet(IdsOf(<< >>)) = {}
  BY DEF ToSet, IdsOf
<1>2. ASSUME NEW r \in Stations, h = <<"initializer", r>> PROVE FALSE
  <2>1. initializer[r].pc \notin {"split", "add"}
    <3>1. CASE r = s
      BY <3>1 DEF At
    <3>2. CASE r # s
      BY <3>2 DEF LocksExclude, Splitting, At
    <3> QED
      BY <3>1, <3>2
  <2>2. initializer[r].work = {} /\ initializer[r].result = << >>
    BY <2>1 DEF StagesInv
  <2> QED
    BY <1>1, <1>2, <2>2, CustodyByKind DEF WorkCoins
<1>3. CASE initializer[s].mode = "Refresh"
  <2>1. Threshold(s) = OversizeThreshold
    BY <1>3 DEF Threshold
  <2>2. PICK d \in ledger : d.id = c.id /\ d.balance < OversizeThreshold
    BY <1>2, HeldCoinsAreLive
  <2>3. c = d /\ c.balance \in Nat
    BY <2>2 DEF ChainIsUnique, Typed, ChainTyped, Coin
  <2> QED
    BY <2>1, <2>2, <2>3, GasStationAssumption
<1>4. CASE initializer[s].mode = "Init"
  <2>1. NothingIsServed
    BY <1>4 DEF FirstStartsAreFirst
  <2>2. h # <<"pool">>
    BY <1>1, <2>1, CustodyByKind DEF NothingIsServed
  <2>3. \A r \in DOMAIN reservations : h # <<"reservation", r>>
    BY <2>1 DEF NothingIsServed
  <2>4. \A t \in Tasks : h # <<"task", t>>
    BY <2>1, CustodyByKind, IdleHandsAreEmpty DEF NothingIsServed
  <2>5. \A r \in Stations : h # <<"unlocker", r>>
    BY <2>1, CustodyByKind, IdleHandsAreEmpty DEF NothingIsServed
  <2> QED
    BY <1>2, <2>2, <2>3, <2>4, <2>5, KindsOfCustodians
<1>5. initializer[s].mode \in {"Init", "Refresh"}
  BY DEF InitializersTyped, InitializerRecord, RunMode
<1> QED
  BY <1>3, <1>4, <1>5

LEMMA ScanKeepsSoleCustody ==
  ASSUME InitializerInv, fullnode = ledger, CustodyInv, StagesInv, LocksExclude,
         FirstStartsAreFirst, ~initialized => NothingIsServed,
         NEW s \in Stations, Scan(s)
  PROVE  CustodyInv'
<1>1. Typed /\ ChainIsUnique /\ InitializersTyped
  BY DEF InitializerInv, IdsInv
<1>2. PICK found : found = {c \in ledger : c.balance >= Threshold(s)}
  OBVIOUS
<1>3. IsFiniteSet(found) /\ found \subseteq Coin /\ found \subseteq ledger
  BY <1>1, <1>2, FS_Subset DEF Typed, ChainTyped
<1>4. /\ UNCHANGED <<available, reservations, task, unlocker, ledger>>
      /\ At(s, "scan")
      /\ initializer' = [initializer EXCEPT
           ![s] = [Enqueue(s, found) EXCEPT
                     !.pc = IF found = {} THEN "unlock" ELSE "split"]]
  BY <1>2 DEF Scan, ScriptOnly, registryVars, poolVars, reservationVars, chainVars,
              processVars
<1>5. initializer[s].work = {} /\ initializer[s].result = << >>
  BY <1>4 DEF StagesInv, At
<1>6. << >> \in Seq(Coin) /\ IsSoundWork({}, << >>, ledger) /\ WorkCoins({}, << >>) = {}
  <2>1. IdsOf(<< >>) = << >> /\ ToSet(<< >>) = {} /\ IsInjective(<< >>)
    BY DEF IdsOf, ToSet, IsInjective
  <2> QED
    BY <2>1 DEF IsSoundWork, Poolable, WorkCoins
<1>7. PICK work, result :
        /\ work = {} \cup Tasked(found)
        /\ result = << >> \o Untasked(found)
  OBVIOUS
<1>8. /\ IsSoundWork(work, result, ledger)
      /\ \A x \in WorkCoins(work, result) : \E c \in found : x = c.id
  <2>1. \A c, d \in ledger : c.id = d.id => c = d
    BY <1>1 DEF ChainIsUnique
  <2>2. PICK list \in Seq(Coin) : list = << >>
    BY <1>6
  <2>3. PICK before : before = {}
    OBVIOUS
  <2>4. IsSoundWork(before, list, ledger) /\ WorkCoins(before, list) = {}
    BY <1>6, <2>2, <2>3
  <2>5. AreNew(found, before, list, ledger)
    BY <1>3, <2>1, <2>4 DEF AreNew
  <2>6. work = before \cup Tasked(found) /\ result = list \o Untasked(found)
    BY <1>7, <2>2, <2>3
  <2>7. /\ IsSoundWork(work, result, ledger)
        /\ WorkCoins(work, result)
             \subseteq WorkCoins(before, list) \cup {c.id : c \in found}
    BY <2>4, <2>5, <2>6, EnqueuedWorkIsSound
  <2> QED
    BY <2>4, <2>7
<1>9. /\ \A r \in Stations \ {s} : initializer'[r] = initializer[r]
      /\ initializer'[s].work = work /\ initializer'[s].result = result
  <2>1. /\ Enqueue(s, found).work = work
        /\ Enqueue(s, found).result = result
        /\ Enqueue(s, found) \in InitializerRecord
    BY <1>1, <1>3, <1>5, <1>7, EnqueuedFields, EnqueueIsTyped
  <2> HIDE DEF Enqueue
  <2> QED
    BY <1>1, <1>4, <2>1 DEF InitializersTyped, InitializerRecord
<1>10. \A x \in WorkCoins(work, result) : \A h \in Custodians : x \notin CustodyOf(h)
  <2> SUFFICES ASSUME NEW x \in WorkCoins(work, result), NEW h \in Custodians
               PROVE  x \notin CustodyOf(h)
    OBVIOUS
  <2>1. PICK c \in found : x = c.id
    BY <1>8
  <2>2. c \in ledger /\ c.balance >= Threshold(s)
    BY <1>2, <2>1
  <2>3. c.id \notin CustodyOf(h)
    BY <1>1, <1>4, <2>2, ScannedCoinsAreFree
  <2> QED
    BY <2>1, <2>3
<1>11. PICK touched : touched = {}
  OBVIOUS
<1>12. /\ \A c : c.id \notin touched => (c \in ledger' <=> c \in ledger)
       /\ \A h \in Custodians \ {<<"initializer", s>>} : CustodyOf(h) \cap touched = {}
  BY <1>4, <1>11
<1>13. IsSoundWork(initializer'[s].work, initializer'[s].result, ledger')
  BY <1>4, <1>8, <1>9
<1>14. \A x \in WorkCoins(initializer'[s].work, initializer'[s].result) :
         \/ x \in WorkCoins(initializer[s].work, initializer[s].result)
         \/ \A h \in Custodians : x \notin CustodyOf(h)
  BY <1>9, <1>10
<1> QED
  BY <1>4, <1>9, <1>12, <1>13, <1>14, InitializerTakes

LEMMA FreshCoinsAreFree ==
  ASSUME IdsAreKnown, CustodyInv, NEW ids, ids \cap created = {}, NEW h \in Custodians
  PROVE  CustodyOf(h) \cap ids = {}
<1>1. ASSUME NEW x \in CustodyOf(h) PROVE x \in created
  <2>1. PICK c \in ledger : c.id = x
    BY HeldCoinsAreLive
  <2> QED
    BY <2>1 DEF IdsAreKnown
<1> QED
  BY <1>1

LEMMA SplitOkKeepsSoleCustody ==
  ASSUME InitializerInv, CustodyInv,
         UNCHANGED <<available, reservations, task, unlocker>>,
         NEW s \in Stations, NEW w \in initializer[s].work, SplitOk(s, w)
  PROVE  CustodyInv'
<1>1. /\ Typed /\ IdsInv /\ ChainIsUnique /\ IdsAreKnown /\ InitializersTyped
      /\ initializer[s] \in InitializerRecord
  BY DEF InitializerInv, IdsInv, InitializersTyped
<1>2. w \in Work /\ w.count \in Nat \ {0} /\ w.coin \in Coin
  BY <1>1 DEF InitializerRecord, Work
<1>3. PICK gas \in SplitGas :
        /\ CommitSplit(w, gas)
        /\ LET rest == Enqueue(s, Pieces(w, FreshIds(w.count - 1), gas))
           IN  initializer' = [initializer EXCEPT
                 ![s] = [rest EXCEPT !.work = @ \ {w}]]
  BY DEF SplitOk
<1>4. PICK ids : ids = FreshIds(w.count - 1)
  OBVIOUS
<1>5. PICK pieces : pieces = Pieces(w, ids, gas)
  OBVIOUS
<1>6. PICK work : work = initializer[s].work
  OBVIOUS
<1>7. PICK result \in Seq(Coin) : result = initializer[s].result
  <2>1. initializer[s].result \in Seq(Coin)
    BY <1>1 DEF InitializerRecord
  <2> QED
    BY <2>1
<1>8. PICK chain : chain = ledger'
  OBVIOUS
<1>9. /\ w.coin \in ledger
      /\ chain = (ledger \ {w.coin}) \cup pieces
      /\ initializer' = [initializer EXCEPT
           ![s] = [Enqueue(s, pieces) EXCEPT !.work = @ \ {w}]]
  BY <1>3, <1>4, <1>5, <1>8 DEF CommitSplit
<1>10. ids \subseteq CoinIds \ created /\ IsFiniteSet(ids)
  <2>1. w.count - 1 \in Nat /\ Cardinality(CoinIds \ created) >= w.count - 1
    BY <1>2, <1>3 DEF CommitSplit
  <2>2. ids \subseteq CoinIds \ created
    BY <1>4, <2>1, FreshIdsAreFresh
  <2> QED
    BY <2>2, GasStationAssumption, FS_Subset
<1>11. w.coin.id \in created /\ w.coin.id \notin ids
  BY <1>1, <1>9, <1>10 DEF IdsAreKnown
<1>12. /\ pieces \subseteq Coin
       /\ IsFiniteSet(pieces)
       /\ \A c \in pieces : c.id = w.coin.id \/ c.id \in ids
       /\ w.coin \notin pieces
  <2>1. /\ pieces \subseteq Coin
        /\ IsFiniteSet(pieces)
        /\ \A c \in pieces : c.id = w.coin.id \/ c.id \in ids
    BY <1>2, <1>5, <1>10, PiecesAreTyped
  <2>2. \A c \in pieces : c.version = w.coin.version + 1 \/ c.id \in ids
    BY <1>5 DEF Pieces
  <2>3. w.coin.version \in Nat
    BY <1>2 DEF Coin
  <2> QED
    BY <1>11, <2>1, <2>2, <2>3
<1>13. \A c, d \in chain : c.id = d.id => c = d
  <2>1. ChainIsUnique'
    BY <1>1, <1>2, <1>3, SplitKeepsIds DEF IdsInv
  <2> QED
    BY <1>8, <2>1 DEF ChainIsUnique
<1>14. PICK touched : touched = {w.coin.id} \cup ids
  OBVIOUS
<1>15. \A c : c.id \notin touched => (c \in chain <=> c \in ledger)
  BY <1>9, <1>12, <1>14
<1>16. PICK dst \in Custodians : dst = <<"initializer", s>>
  BY KindsOfCustodians
<1>17. /\ IsSoundWork(work, result, ledger)
       /\ CustodyOf(dst) = WorkCoins(work, result)
       /\ w.coin.id \in CustodyOf(dst)
  <2>1. IsSound(dst)
    BY DEF CustodyInv
  <2>2. w.coin.id \in WorkCoins(work, result)
    BY <1>6, <1>7 DEF WorkCoins
  <2> QED
    BY <1>6, <1>7, <1>16, <2>1, <2>2, CustodyByKind, SoundnessByKind
<1>18. \A h \in Custodians : CustodyOf(h) \cap ids = {}
  <2>1. ids \cap created = {}
    BY <1>10
  <2> QED
    BY <1>1, <2>1, FreshCoinsAreFree
<1>19. PICK others : others = work \ {w}
  OBVIOUS
<1>20. /\ IsSoundWork(others, result, chain)
       /\ WorkCoins(others, result) \subseteq WorkCoins(work, result)
       /\ WorkCoins(others, result) \cap touched = {}
  <2>1. IsSoundWork(others, result, ledger)
    BY <1>17, <1>19 DEF IsSoundWork
  <2>2. WorkCoins(others, result) \subseteq WorkCoins(work, result)
    BY <1>19 DEF WorkCoins
  <2>3. w.coin.id \notin WorkCoins(others, result)
    BY <1>6, <1>7, <1>17, <1>19 DEF IsSoundWork, WorkCoins
  <2>4. WorkCoins(others, result) \cap touched = {}
    BY <1>14, <1>17, <1>18, <2>2, <2>3
  <2> QED
    BY <1>15, <2>1, <2>2, <2>4, WorkStaysSound
<1>21. PICK new, list : new = others \cup Tasked(pieces) /\ list = result \o Untasked(pieces)
  OBVIOUS
<1>22. /\ IsSoundWork(new, list, chain)
       /\ \A x \in WorkCoins(new, list) :
            x \in WorkCoins(others, result) \/ \E c \in pieces : x = c.id
  <2>1. pieces \subseteq chain
    BY <1>9
  <2>2. \A c \in pieces : c.id \notin WorkCoins(others, result)
    BY <1>12, <1>14, <1>20
  <2>3. AreNew(pieces, others, result, chain)
    BY <1>12, <1>13, <2>1, <2>2 DEF AreNew
  <2>4. /\ IsSoundWork(new, list, chain)
        /\ WorkCoins(new, list)
             \subseteq WorkCoins(others, result) \cup {c.id : c \in pieces}
    BY <1>20, <1>21, <2>3, EnqueuedWorkIsSound
  <2> QED
    BY <2>4
<1>23. /\ \A r \in Stations \ {s} : initializer'[r] = initializer[r]
       /\ initializer'[s].work = new /\ initializer'[s].result = list
  <2>1. w \notin Tasked(pieces)
    BY <1>12 DEF Tasked
  <2>2. (work \cup Tasked(pieces)) \ {w} = new
    BY <1>19, <1>21, <2>1
  <2>3. PICK rest : rest = Enqueue(s, pieces)
    OBVIOUS
  <2>4. /\ rest.work = work \cup Tasked(pieces)
        /\ rest.result = list
        /\ rest \in InitializerRecord
    BY <1>1, <1>6, <1>7, <1>12, <1>21, <2>3, EnqueuedFields, EnqueueIsTyped
  <2>5. initializer' = [initializer EXCEPT ![s] = [rest EXCEPT !.work = @ \ {w}]]
    BY <1>9, <2>3
  <2>6. initializer'[s] = [rest EXCEPT !.work = @ \ {w}]
    BY <1>1, <2>5 DEF InitializersTyped
  <2>7. initializer'[s].work = rest.work \ {w} /\ initializer'[s].result = rest.result
    BY <2>4, <2>6 DEF InitializerRecord
  <2> QED
    BY <1>1, <2>2, <2>4, <2>5, <2>7 DEF InitializersTyped
<1>24. \A h \in Custodians \ {<<"initializer", s>>} : CustodyOf(h) \cap touched = {}
  BY <1>14, <1>16, <1>17, <1>18 DEF CustodyInv
<1>25. \A x \in WorkCoins(initializer'[s].work, initializer'[s].result) :
         \/ x \in WorkCoins(initializer[s].work, initializer[s].result)
         \/ \A h \in Custodians : x \notin CustodyOf(h)
  BY <1>6, <1>7, <1>12, <1>17, <1>18, <1>20, <1>22, <1>23
<1>26. /\ \A c : c.id \notin touched => (c \in ledger' <=> c \in ledger)
       /\ IsSoundWork(initializer'[s].work, initializer'[s].result, ledger')
  BY <1>8, <1>15, <1>22, <1>23
<1> QED
  BY <1>23, <1>24, <1>25, <1>26, InitializerTakes

(* A split that fails reads the coin it has again: without a lost response
   and on a fullnode that does not lag, that is the coin it knows. *)
LEMMA SplitErrKeepsWork ==
  ASSUME InitializerInv, fullnode = ledger, CustodyInv, ResponsesGetLost = FALSE,
         NEW s \in Stations, NEW w \in initializer[s].work, SplitErr(s, w)
  PROVE  UNCHANGED <<ledger, fullnode, initializer>>
<1>1. UNCHANGED <<ledger, fullnode>>
  BY DEF SplitErr, chainVars
<1>2. initializer[s] \in InitializerRecord /\ w \in Work
  BY DEF InitializerInv, InitializersTyped, InitializerRecord
<1>3. w.coin \in ledger
  <2>1. IsSound(<<"initializer", s>>)
    BY KindsOfCustodians DEF CustodyInv
  <2>2. IsSoundWork(initializer[s].work, initializer[s].result, ledger)
    BY <2>1, SoundnessByKind
  <2> QED
    BY <2>2 DEF IsSoundWork
<1>4. {c \in fullnode' : c.id = w.coin.id} = {w.coin}
  <2>1. fullnode' = ledger
    BY <1>1
  <2> QED
    BY <1>3, <2>1 DEF InitializerInv, IdsInv, ChainIsUnique
<1>5. initializer' = [initializer EXCEPT
        ![s].work = (@ \ {w}) \cup {[w EXCEPT !.coin = c] : c \in {w.coin}}]
  BY <1>4 DEF SplitErr
<1>6. {[w EXCEPT !.coin = c] : c \in {w.coin}} = {w}
  BY <1>2 DEF Work
<1>7. PICK work : work = initializer[s].work
  OBVIOUS
<1>8. initializer' = [initializer EXCEPT ![s] = [initializer[s] EXCEPT !.work = work]]
  <2>1. (work \ {w}) \cup {w} = work
    BY <1>7
  <2> QED
    BY <1>5, <1>6, <1>7, <2>1
<1>9. [initializer[s] EXCEPT !.work = work] = initializer[s]
  BY <1>2, <1>7 DEF InitializerRecord
<1>10. initializer' = initializer
  BY <1>8, <1>9 DEF InitializerInv, InitializersTyped
<1> QED
  BY <1>1, <1>10

LEMMA StandingStillKeepsCustody ==
  ASSUME CustodyInv, UNCHANGED <<available, reservations, task, unlocker, ledger>>,
         \A s \in Stations : /\ initializer'[s].work = initializer[s].work
                             /\ initializer'[s].result = initializer[s].result
  PROVE  CustodyInv'
<1>1. PICK touched : touched = {}
  OBVIOUS
<1>2. /\ \A c : c.id \notin touched => (c \in ledger' <=> c \in ledger)
      /\ \A h \in Custodians : CustodyOf(h) \cap touched = {}
  BY <1>1
<1> QED
  BY <1>2, NobodyMoves

LEMMA MovesKeepWork ==
  ASSUME InitializersTyped, NEW s \in Stations, NEW pc, Moves(s, pc)
  PROVE  \A r \in Stations : /\ initializer'[r].work = initializer[r].work
                             /\ initializer'[r].result = initializer[r].result
BY DEF InitializersTyped, InitializerRecord, Moves

LEMMA SplitKeepsSoleCustody ==
  ASSUME InitializerInv, fullnode = ledger, CustodyInv, ResponsesGetLost = FALSE,
         NEW s \in Stations, Split(s)
  PROVE  CustodyInv'
<1>1. UNCHANGED <<available, reservations, task, unlocker>>
  BY DEF Split, registryVars, poolVars, reservationVars, processVars
<1>2. ASSUME NEW w \in initializer[s].work, SplitOk(s, w) PROVE CustodyInv'
  BY <1>1, <1>2, SplitOkKeepsSoleCustody
<1>3. ASSUME NEW w \in initializer[s].work, SplitErr(s, w) PROVE CustodyInv'
  <2>1. UNCHANGED <<ledger, initializer>>
    BY <1>3, SplitErrKeepsWork
  <2> QED
    BY <1>1, <2>1, StandingStillKeepsCustody
<1>4. CASE Moves(s, "add") /\ UNCHANGED chainVars
  <2>1. \A r \in Stations : /\ initializer'[r].work = initializer[r].work
                            /\ initializer'[r].result = initializer[r].result
    BY <1>4, MovesKeepWork DEF InitializerInv
  <2> QED
    BY <1>1, <1>4, <2>1, StandingStillKeepsCustody DEF chainVars
<1> QED
  BY <1>2, <1>3, <1>4 DEF Split, chainVars

LEMMA DepositKeepsSoleCustody ==
  ASSUME InitializerInv, CustodyInv, Deposit
  PROVE  CustodyInv'
<1>1. PICK id : id = CHOOSE i \in CoinIds \ created : TRUE
  OBVIOUS
<1>2. id \notin created
  BY <1>1 DEF Deposit
<1>3. PICK coin : coin = [id |-> id, balance |-> DepositBalance, version |-> 1]
  OBVIOUS
<1>4. ledger' = ledger \cup {coin}
  BY <1>1, <1>3 DEF Deposit
<1>5. PICK touched : touched = {id}
  OBVIOUS
<1>6. \A c : c.id \notin touched => (c \in ledger' <=> c \in ledger)
  BY <1>3, <1>4, <1>5
<1>7. \A h \in Custodians : CustodyOf(h) \cap touched = {}
  <2>1. touched \cap created = {}
    BY <1>2, <1>5
  <2> QED
    BY <2>1, FreshCoinsAreFree DEF InitializerInv, IdsInv
<1>8. UNCHANGED <<available, reservations, task, unlocker, initializer>>
  BY DEF Deposit, registryVars, poolVars, reservationVars, processVars
<1> QED
  BY <1>6, <1>7, <1>8, NobodyMoves

LEMMA AddChunkKeepsSoleCustody ==
  ASSUME InitializerInv, CustodyInv, availableTotal # Absent,
         NEW s \in Stations, AddChunk(s)
  PROVE  CustodyInv'
<1>1. /\ Typed /\ InitializersTyped
      /\ initializer[s] \in InitializerRecord
  BY DEF InitializerInv, InitializersTyped
<1>2. UNCHANGED <<ledger, task, unlocker>>
  BY DEF AddChunk, ScriptOnly, chainVars, processVars
<1>3. PICK result \in Seq(Coin) : result = initializer[s].result
  BY <1>1 DEF InitializerRecord
<1>4. PICK n \in 0 .. Len(result) :
        n = IF Len(result) < ChunkSize THEN Len(result) ELSE ChunkSize
  BY InitializerAssumption
<1>5. PICK chunk, rest : /\ chunk = SubSeq(result, 1, n)
                         /\ rest = SubSeq(result, n + 1, Len(result))
  OBVIOUS
<1>6. chunk \in Seq(Coin) /\ rest \in Seq(Coin) /\ result = chunk \o rest
  BY <1>5, SplitAt
<1>7. CASE Moves(s, "unlock") /\ UNCHANGED registryVars
  <2>1. \A r \in Stations : /\ initializer'[r].work = initializer[r].work
                            /\ initializer'[r].result = initializer[r].result
    BY <1>1, <1>7, MovesKeepWork
  <2> QED
    BY <1>2, <1>7, <2>1, StandingStillKeepsCustody
       DEF registryVars, poolVars, reservationVars
<1>8. CASE /\ AddNewCoins(chunk)
           /\ initializer' = [initializer EXCEPT
                ![s].result = SubSeq(@, n + 1, Len(@))]
  <2>1. /\ available \in Seq(Coin)
        /\ available' = available \o chunk /\ UNCHANGED <<reservations, ledger>>
    BY <1>1, <1>2, <1>8
       DEF AddNewCoins, PushCoins, reservationVars, Typed, PoolTyped
  <2>2. /\ \A r \in Stations \ {s} : initializer'[r] = initializer[r]
        /\ initializer'[s].work = initializer[s].work
        /\ initializer'[s].result = rest
    BY <1>1, <1>3, <1>5, <1>8 DEF InitializersTyped, InitializerRecord
  <2>3. PICK giver \in Custodians : giver = <<"initializer", s>>
    BY KindsOfCustodians
  <2>4. PICK work : work = initializer[s].work
    OBVIOUS
  <2>5. /\ IsSoundWork(work, result, ledger)
        /\ CustodyOf(giver) = WorkCoins(work, result)
    <3>1. IsSound(giver)
      BY DEF CustodyInv
    <3> QED
      BY <1>3, <2>3, <2>4, <3>1, CustodyByKind, SoundnessByKind
  <2>6. /\ Poolable(chunk, ledger) /\ Poolable(rest, ledger)
        /\ ToSet(IdsOf(chunk)) \cap ToSet(IdsOf(rest)) = {}
        /\ ToSet(IdsOf(result)) = ToSet(IdsOf(chunk)) \cup ToSet(IdsOf(rest))
    <3>1. Poolable(chunk \o rest, ledger)
      BY <1>6, <2>5 DEF IsSoundWork
    <3> QED
      BY <1>6, <3>1, PoolableHalves
  <2>7. /\ IsSoundWork(work, rest, ledger)
        /\ WorkCoins(work, rest) \subseteq WorkCoins(work, result) \ ToSet(IdsOf(chunk))
    BY <2>5, <2>6 DEF IsSoundWork, WorkCoins
  <2>8. ToSet(IdsOf(chunk)) \subseteq CustodyOf(giver)
    BY <2>5, <2>6 DEF WorkCoins
  <2>9. CustodyOf(giver)' = WorkCoins(work, rest) /\ IsSound(giver)'
    BY <1>2, <2>2, <2>3, <2>4, <2>7, CustodyByKind, SoundnessByKind
  <2>10. giver # <<"pool">>
    BY <2>3
  <2>11. \A h \in Custodians' \ {giver, <<"pool">>} : IsUnmoved(h)
    BY <1>2, <2>1, <2>2, <2>3, KindsOfCustodians, UnmovedByKind
  <2>12. CustodyOf(giver)' \subseteq CustodyOf(giver) \ ToSet(IdsOf(chunk))
    BY <2>5, <2>7, <2>9
  <2> QED
    BY <1>6, <2>1, <2>6, <2>8, <2>9, <2>10, <2>11, <2>12, GivingBackKeepsCustody
<1> QED
  BY <1>3, <1>4, <1>5, <1>7, <1>8 DEF AddChunk, AddNewCoinsFailed

-----------------------------------------------------------------------------
(* The rest of the invariant. *)
GrantsInv == GrantsMatch /\ \A g \in granted : g.reservation <= nextReservationId

(* Before the first start nothing has written the statistics; whoever adds
   coins has started. *)
TotalIsThere ==
  \/ availableTotal \in Int
  \/ availableTotal = Absent /\ \A s \in Stations : At(s, "down")

SoleInv ==
  /\ InitializerInv
  /\ fullnode = ledger /\ sent = {}
  /\ CustodyInv
  /\ GrantsInv
  /\ StagesInv
  /\ ~initialized => NothingIsServed
  /\ TotalIsThere

LEMMA RestartingKeepsCustody ==
  ASSUME CustodyInv, InitializersTyped,
         UNCHANGED <<available, reservations, task, unlocker, ledger>>,
         NEW s \in Stations, NEW new, new.work = {}, new.result = << >>,
         initializer' = [initializer EXCEPT ![s] = new]
  PROVE  CustodyInv'
<1>1. /\ \A r \in Stations \ {s} : initializer'[r] = initializer[r]
      /\ initializer'[s] = new
  BY DEF InitializersTyped
<1> QED
  BY <1>1, InitializerStops

LEMMA MovingKeepsCustody ==
  ASSUME CustodyInv, InitializersTyped,
         UNCHANGED <<available, reservations, task, unlocker, ledger>>,
         NEW s \in Stations, NEW pc, Moves(s, pc)
  PROVE  CustodyInv'
<1>1. \A r \in Stations : /\ initializer'[r].work = initializer[r].work
                          /\ initializer'[r].result = initializer[r].result
  BY MovesKeepWork
<1> QED
  BY <1>1, StandingStillKeepsCustody

(* Steps of a station that holds no coin, or takes none and gives none. *)
LEMMA ControlKeepsSoleCustody ==
  ASSUME CustodyInv, InitializersTyped, StagesInv, NEW s \in Stations,
         \/ Start(s) \/ CheckInitialized(s) \/ BeginMaintenance(s)
         \/ CleanUp(s) \/ ResetStats(s) \/ AcquireLock(s)
         \/ ReleaseLock(s) \/ EndMaintenance(s) \/ Wake(s)
  PROVE  CustodyInv'
<1>1. ~(BeginMaintenance(s) \/ CleanUp(s) \/ ResetStats(s) \/ EndMaintenance(s))
  BY DEF StagesInv, BeginMaintenance, CleanUp, ResetStats, EndMaintenance, At
<1>2. UNCHANGED <<available, reservations, task, unlocker, ledger>>
  BY <1>1
     DEF Start, CheckInitialized, AcquireLock, ReleaseLock, Wake, InitCoinStats,
         AcquireInitLock, ReleaseInitLock, Serve, LockRefused, ScriptOnly, Moves,
         registryVars, poolVars, reservationVars, chainVars, processVars
<1>3. /\ Down.work = {} /\ Down.result = << >>
      /\ \A pc : /\ [Down EXCEPT !.pc = pc].work = {}
                 /\ [Down EXCEPT !.pc = pc].result = << >>
  BY DEF Down
<1>4. CASE Start(s)
  <2>1. PICK force : initializer' = [initializer EXCEPT
               ![s] = [Down EXCEPT !.pc = "boot", !.force = force]]
    BY <1>4 DEF Start
  <2>2. PICK new : new = [Down EXCEPT !.pc = "boot", !.force = force]
    OBVIOUS
  <2>3. new.work = {} /\ new.result = << >>
    BY <2>2 DEF Down
  <2> QED
    BY <1>2, <2>1, <2>2, <2>3, RestartingKeepsCustody
<1>5. CASE Wake(s)
  <2>1. PICK new : new = [Down EXCEPT !.pc = "lock", !.mode = "Refresh"]
    OBVIOUS
  <2>2. new.work = {} /\ new.result = << >>
    BY <2>1 DEF Down
  <2>3. initializer' = [initializer EXCEPT ![s] = new]
    BY <1>5, <2>1 DEF Wake
  <2> QED
    BY <1>2, <2>2, <2>3, RestartingKeepsCustody
<1>6. CASE Serve(s)
  <2>1. PICK new : new = [Down EXCEPT !.pc = "wait"]
    OBVIOUS
  <2> QED
    BY <1>2, <1>3, <1>6, <2>1, RestartingKeepsCustody DEF Serve
<1>7. ASSUME NEW pc, Moves(s, pc) PROVE CustodyInv'
  BY <1>2, <1>7, MovingKeepsCustody
<1>8. CASE initializer' = [initializer EXCEPT ![s] = Down]
  BY <1>2, <1>3, <1>8, RestartingKeepsCustody
<1>9. CASE CheckInitialized(s)
  BY <1>6, <1>7, <1>9 DEF CheckInitialized
<1>10. CASE AcquireLock(s)
  BY <1>7, <1>8, <1>10 DEF AcquireLock, LockRefused
<1>11. CASE ReleaseLock(s)
  BY <1>6, <1>7, <1>11 DEF ReleaseLock
<1> QED
  BY <1>1, <1>4, <1>5, <1>9, <1>10, <1>11

LEMMA StationsKeepSoleCustody ==
  ASSUME ResponsesGetLost = FALSE, SoleInv, LocksExclude, FirstStartsAreFirst,
         NEW s \in Stations,
         Start(s) \/ InitializerStep(s) \/ WakeByTicker(s) \/ CrashAnywhere(s)
  PROVE  CustodyInv'
<1>1. /\ InitializerInv /\ fullnode = ledger /\ CustodyInv /\ StagesInv
      /\ ~initialized => NothingIsServed
      /\ Typed /\ InitializersTyped
  BY DEF SoleInv, InitializerInv
<1>2. CASE AddChunk(s)
  <2>1. availableTotal # Absent
    BY <1>2, ConstantsAssumption DEF SoleInv, TotalIsThere, AddChunk, At
  <2> QED
    BY <1>1, <1>2, <2>1, AddChunkKeepsSoleCustody
<1>3. CASE WakeByTrigger(s) \/ WakeByTicker(s)
  BY <1>1, <1>3, ControlKeepsSoleCustody DEF WakeByTrigger, WakeByTicker
<1>4. CASE Scan(s)
  BY <1>1, <1>4, ScanKeepsSoleCustody
<1>5. CASE Split(s)
  BY <1>1, <1>5, SplitKeepsSoleCustody
<1>6. CASE CrashAnywhere(s)
  BY <1>1, <1>6, CrashKeepsSoleCustody
<1> QED
  BY <1>1, <1>2, <1>3, <1>4, <1>5, <1>6, ControlKeepsSoleCustody
     DEF InitializerStep

(* When answers do not get lost, nothing is committed late. *)
LEMMA NothingIsSentUnanswered ==
  ASSUME ResponsesGetLost = FALSE, sent = {}, [InitializerNext]_allVars
  PROVE  sent' = {}
BY DEF InitializerNext, Serving, LateCommit, ReserveGas, DebugCheckHealth, Reserve,
       StartExecution, TaskStep, QueryTotalBalance, ExecuteOk, ExecuteErr,
       QueryLatest, TriggerRescan, ReleaseCoins, UnlockStep, UnlockExpire,
       UnlockQuery, UnlockRelease, FullnodeSyncs, TimePasses, Start,
       InitializerStep, CheckInitialized, BeginMaintenance, CleanUp, ResetStats,
       AcquireLock, Scan, Split, SplitOk, SplitErr, CommitSplit, AddChunk,
       ReleaseLock, EndMaintenance, WakeByTrigger, WakeByTicker, Wake,
       CrashAnywhere, Crash, Deposit, ScriptOnly, chainVars, vars, allVars

LEMMA ServingKeepsSoleCustody ==
  ASSUME FullnodeLags = FALSE, ResponsesGetLost = FALSE, SoleInv, Typed',
         lostReplies = 0, lostReplies' = 0, BalancesFit', NoneIsOnTheEdge', Serving
  PROVE  CustodyInv'
<1>1. /\ fullnode = ledger /\ CustodyInv /\ Typed /\ InitializersTyped
      /\ ChainIsUnique /\ GrantsMatch /\ ServersAreStarted /\ sent = {}
  BY DEF SoleInv, InitializerInv, IdsInv, GrantsInv
<1>2. UNCHANGED <<initializer, lostReplies>>
  BY DEF Serving, initializerVars
<1>3. up # {} => availableTotal # Absent
  <2>1. \A s \in up : s \in Stations /\ ~At(s, "down")
    BY <1>1 DEF ServersAreStarted, At, RefreshPCs, Typed, ProcessesTyped
  <2> QED
    BY <2>1, ConstantsAssumption DEF SoleInv, TotalIsThere
<1>4. ASSUME NEW budget \in Nat \ {0}, NEW duration, Reserve(budget, duration)
      PROVE  CustodyInv'
  BY <1>1, <1>2, <1>4, ReserveKeepsSoleCustody
<1>5. ASSUME NEW b \in Budgets, NEW d \in Durations, ReserveGas(b, d)
      PROVE  CustodyInv'
  <2>1. b \in Nat \ {0}
    BY <1>5, GasStationAssumption DEF ReserveGas, ValidRequest
  <2> QED
    BY <1>4, <1>5, <2>1 DEF ReserveGas
<1>6. CASE DebugCheckHealth
  <2>1. HealthBudget \in Nat \ {0}
    BY GasStationAssumption
  <2> QED
    BY <1>4, <1>6, <2>1 DEF DebugCheckHealth
<1>7. ASSUME NEW t \in Tasks, NEW grant \in granted, StartExecution(t, grant)
      PROVE  CustodyInv'
  BY <1>1, <1>2, <1>7, StartExecutionKeepsSoleCustody
<1>8. ASSUME NEW t \in Tasks, TaskStep(t) PROVE CustodyInv'
  <2>1. CASE ExecuteOk(t)
    BY <1>1, <1>2, <2>1, ExecuteOkKeepsSoleCustody
  <2>2. CASE ReleaseCoins(t)
    <3>1. availableTotal # Absent
      BY <1>3, <2>2 DEF ReleaseCoins
    <3> QED
      BY <1>1, <1>2, <2>2, <3>1, ReleaseKeepsSoleCustody
  <2> QED
    BY <1>1, <1>2, <1>8, <2>1, <2>2, ReadingKeepsSoleCustody DEF TaskStep
<1>9. ASSUME NEW s \in Stations, UnlockStep(s) PROVE CustodyInv'
  <2>1. CASE UnlockRelease(s)
    <3>1. availableTotal # Absent
      BY <1>3, <2>1 DEF UnlockRelease
    <3> QED
      BY <1>1, <1>2, <2>1, <3>1, UnlockReleaseKeepsSoleCustody
  <2> QED
    BY <1>1, <1>2, <1>9, <2>1, ExpiryKeepsSoleCustody, UnlockQueryKeepsSoleCustody
       DEF UnlockStep
<1>10. CASE FullnodeSyncs \/ TimePasses
  <2>1. UNCHANGED <<available, reservations, task, unlocker, ledger>>
    BY <1>10
       DEF FullnodeSyncs, TimePasses, Tick, registryVars, poolVars,
           reservationVars, chainVars, processVars
  <2> QED
    BY <1>1, <1>2, <2>1, StandingStillKeepsCustody
<1> QED
  BY <1>1, <1>5, <1>6, <1>7, <1>8, <1>9, <1>10 DEF Serving

LEMMA GrantsStay ==
  ASSUME GrantsInv, UNCHANGED <<granted, nextReservationId>>,
         DOMAIN reservations' \subseteq DOMAIN reservations,
         \A r \in DOMAIN reservations' : reservations'[r] = reservations[r]
  PROVE  GrantsInv'
<1>1. \A g \in granted : g.reservation <= nextReservationId'
  BY DEF GrantsInv
<1>2. ASSUME NEW g \in granted, g.reservation \in DOMAIN reservations'
      PROVE  {g.coins[i].id : i \in DOMAIN g.coins}
               = ToSet(reservations'[g.reservation])
  <2>1. g.reservation \in DOMAIN reservations
    BY <1>2
  <2>2. {g.coins[i].id : i \in DOMAIN g.coins} = ToSet(reservations[g.reservation])
    BY <2>1 DEF GrantsInv, GrantsMatch
  <2> QED
    BY <1>2, <2>1, <2>2
<1>3. GrantsMatch'
  BY <1>2 DEF GrantsMatch
<1> QED
  BY <1>1, <1>3 DEF GrantsInv

LEMMA ReservationsStay ==
  ASSUME GrantsInv, UNCHANGED <<granted, reservationVars>>
  PROVE  GrantsInv'
BY GrantsStay DEF reservationVars

LEMMA ServingKeepsGrants ==
  ASSUME SoleInv, Serving
  PROVE  GrantsInv'
<1>1. Typed /\ GrantsInv
  BY DEF SoleInv, InitializerInv
<1>2. ASSUME NEW budget \in Nat \ {0}, NEW duration, Reserve(budget, duration),
             \/ UNCHANGED granted
             \/ granted' = granted \cup
                  {[reservation |-> NewReservationId,
                    coins |-> [i \in 1 .. PoppedCoins(budget) |-> RefOf(available[i])]]}
      PROVE  GrantsInv'
  BY <1>1, <1>2, ReserveKeepsGrants DEF GrantsInv
<1>3. ASSUME NEW b \in Budgets, NEW d \in Durations, ReserveGas(b, d)
      PROVE  GrantsInv'
  <2>1. b \in Nat \ {0}
    BY <1>3, GasStationAssumption DEF ReserveGas, ValidRequest
  <2> QED
    BY <1>2, <1>3, <2>1 DEF ReserveGas
<1>4. CASE DebugCheckHealth
  <2>1. HealthBudget \in Nat \ {0}
    BY GasStationAssumption
  <2> QED
    BY <1>2, <1>4, <2>1 DEF DebugCheckHealth
<1>5. ASSUME NEW kept, kept \subseteq DOMAIN reservations,
             reservations' = Restrict(reservations, kept),
             UNCHANGED <<granted, nextReservationId>>
      PROVE  GrantsInv'
  <2>1. /\ DOMAIN reservations' = kept
        /\ \A r \in kept : reservations'[r] = reservations[r]
    BY <1>5 DEF Restrict
  <2> QED
    BY <1>1, <1>5, <2>1, GrantsStay
<1>6. ASSUME NEW t \in Tasks, NEW grant \in granted, StartExecution(t, grant)
      PROVE  GrantsInv'
  <2>1. PICK kept : kept = DOMAIN reservations \ {grant.reservation}
    OBVIOUS
  <2> QED
    BY <1>5, <1>6, <2>1 DEF StartExecution, ReadyForExecution
<1>7. ASSUME NEW t \in Tasks, TaskStep(t) PROVE GrantsInv'
  <2>1. UNCHANGED <<granted, reservationVars>>
    BY <1>7
       DEF TaskStep, QueryTotalBalance, ExecuteOk, ExecuteErr, QueryLatest,
           TriggerRescan, ReleaseCoins, AddNewCoins, AddNewCoinsFailed, PushCoins,
           registryVars
  <2> QED
    BY <1>1, <2>1, ReservationsStay
<1>8. ASSUME NEW s \in Stations, UnlockStep(s) PROVE GrantsInv'
  <2>1. CASE UnlockExpire(s)
    <3>1. PICK kept : kept = DOMAIN reservations \ DueReservations
      OBVIOUS
    <3> QED
      BY <1>5, <2>1, <3>1 DEF UnlockExpire, ExpireCoins
  <2>2. CASE UnlockQuery(s) \/ UnlockRelease(s)
    <3>1. UNCHANGED <<granted, reservationVars>>
      BY <2>2
         DEF UnlockQuery, UnlockRelease, AddNewCoins, AddNewCoinsFailed, PushCoins,
             registryVars
    <3> QED
      BY <1>1, <3>1, ReservationsStay
  <2> QED
    BY <1>8, <2>1, <2>2 DEF UnlockStep
<1>9. CASE FullnodeSyncs \/ TimePasses
  <2>1. UNCHANGED <<granted, reservationVars>>
    BY <1>9 DEF FullnodeSyncs, TimePasses, Tick, registryVars
  <2> QED
    BY <1>1, <2>1, ReservationsStay
<1> QED
  BY <1>3, <1>4, <1>6, <1>7, <1>8, <1>9 DEF Serving, SoleInv

LEMMA StationsKeepGrants ==
  ASSUME SoleInv, NEW s \in Stations,
         \/ Start(s) \/ InitializerStep(s) \/ WakeByTicker(s) \/ CrashAnywhere(s)
         \/ Deposit
  PROVE  GrantsInv'
<1>1. ~CleanUp(s)
  BY DEF SoleInv, StagesInv, CleanUp, At
<1>2. UNCHANGED <<granted, reservationVars>>
  BY <1>1
     DEF Start, InitializerStep, WakeByTicker, WakeByTrigger, Wake, CrashAnywhere,
         Crash, Deposit, CheckInitialized, BeginMaintenance, ResetStats,
         AcquireLock, Scan, Split, AddChunk, ReleaseLock, EndMaintenance,
         ScriptOnly, InitCoinStats, AcquireInitLock, ReleaseInitLock,
         AcquireMaintenanceLock, ReleaseMaintenanceLock, AddNewCoins,
         AddNewCoinsFailed, PushCoins, registryVars
<1> QED
  BY <1>2, ReservationsStay DEF SoleInv

-----------------------------------------------------------------------------
LEMMA ServingKeepsTotal ==
  ASSUME SoleInv, Serving
  PROVE  TotalIsThere'
<1>1. /\ UNCHANGED initializer
      /\ Typed /\ ServersAreStarted /\ GrantsInv /\ TotalIsThere
  BY DEF Serving, initializerVars, SoleInv, InitializerInv
<1>2. CASE availableTotal \in Int
  <2>1. TInv
    BY <1>1, <1>2 DEF TInv, RegistryKept, GrantsInv
  <2>2. Next
    BY DEF Serving, Next
  <2>3. RegistryKept'
    BY <2>1, <2>2, StepsKeepRegistry
  <2> QED
    BY <2>3 DEF RegistryKept, TotalIsThere
<1>3. CASE availableTotal = Absent /\ \A s \in Stations : At(s, "down")
  <2>1. up = {}
    BY <1>1, <1>3 DEF ServersAreStarted, RefreshPCs, At, Typed, ProcessesTyped
  <2>2. UNCHANGED availableTotal
    BY <2>1
       DEF Serving, LateCommit, ReserveGas, DebugCheckHealth, Reserve, StartExecution, TaskStep,
           QueryTotalBalance, ExecuteOk, ExecuteErr, QueryLatest, TriggerRescan,
           ReleaseCoins, UnlockStep, UnlockExpire, UnlockQuery, UnlockRelease,
           FullnodeSyncs, TimePasses, Tick, registryVars, poolVars
  <2> QED
    BY <1>1, <1>3, <2>2 DEF TotalIsThere, At
<1> QED
  BY <1>1, <1>2, <1>3 DEF TotalIsThere

LEMMA StationsKeepTotal ==
  ASSUME SoleInv, NEW s \in Stations,
         Start(s) \/ InitializerStep(s) \/ WakeByTicker(s) \/ CrashAnywhere(s)
  PROVE  TotalIsThere'
<1>1. /\ Typed /\ InitializersTyped /\ TotalIsThere
      /\ available \in Seq(Coin)
  BY DEF SoleInv, InitializerInv, Typed, PoolTyped
<1>2. CASE Start(s)
  <2>1. availableTotal' =
          IF availableTotal = Absent THEN BalanceOf(available) ELSE availableTotal
    BY <1>2 DEF Start, InitCoinStats
  <2> QED
    BY <1>1, <2>1, BalanceOfType DEF TotalIsThere
<1>3. CASE ~Start(s)
  <2>1. ~At(s, "down")
    BY <1>3
       DEF InitializerStep, WakeByTicker, WakeByTrigger, Wake, CrashAnywhere,
           CheckInitialized, BeginMaintenance, CleanUp, ResetStats, AcquireLock,
           Scan, Split, AddChunk, ReleaseLock, EndMaintenance, At
  <2>2. availableTotal \in Int
    BY <1>1, <2>1 DEF TotalIsThere
  <2>3. ~CleanUp(s) /\ ~ResetStats(s)
    BY DEF SoleInv, StagesInv, CleanUp, ResetStats, At
  <2>4. CASE AddChunk(s)
    <3>1. availableTotal # Absent
      BY <2>2, ConstantsAssumption
    <3>2. CASE UNCHANGED registryVars
      BY <2>2, <3>2 DEF registryVars, poolVars, TotalIsThere
    <3>3. PICK result \in Seq(Coin) : result = initializer[s].result
      BY <1>1 DEF InitializersTyped, InitializerRecord
    <3>4. PICK n \in 0 .. Len(result) :
            n = IF Len(result) < ChunkSize THEN Len(result) ELSE ChunkSize
      BY InitializerAssumption
    <3>5. SubSeq(result, 1, n) \in Seq(Coin)
      BY <3>4, SplitAt
    <3>6. CASE AddNewCoins(SubSeq(result, 1, n))
      BY <2>2, <3>5, <3>6, BalanceOfType DEF AddNewCoins, TotalIsThere
    <3> QED
      BY <2>4, <3>1, <3>2, <3>3, <3>4, <3>6 DEF AddChunk, AddNewCoinsFailed
  <2>5. CASE ~AddChunk(s)
    <3>1. UNCHANGED availableTotal
      BY <1>3, <2>3, <2>5
         DEF InitializerStep, WakeByTicker, WakeByTrigger, Wake, CrashAnywhere,
             Crash, CheckInitialized, BeginMaintenance, AcquireLock, Scan, Split,
             ReleaseLock, EndMaintenance, AcquireInitLock, ReleaseInitLock,
             AcquireMaintenanceLock, ReleaseMaintenanceLock, registryVars, poolVars
    <3> QED
      BY <2>2, <3>1 DEF TotalIsThere
  <2> QED
    BY <2>4, <2>5
<1> QED
  BY <1>2, <1>3

-----------------------------------------------------------------------------
(* StagesInv, of one initializer. *)
IsStaged(k) ==
  /\ ~k.force
  /\ k.pc \notin {"clean", "stats", "end", "fail"}
  /\ k.pc \notin {"split", "add"} => k.result = << >>
  /\ k.pc # "split" => k.work = {}

LEMMA StageOfOne ==
  ASSUME InitializersTyped, StagesInv, NEW s \in Stations, NEW new, IsStaged(new),
         initializer' = [initializer EXCEPT ![s] = new]
  PROVE  StagesInv'
BY DEF InitializersTyped, StagesInv, IsStaged

LEMMA StageMoves ==
  ASSUME InitializersTyped, StagesInv, NEW s \in Stations,
         NEW pc, pc \notin {"clean", "stats", "end", "fail"}, Moves(s, pc),
         pc \notin {"split", "add"} => initializer[s].result = << >>,
         pc # "split" => initializer[s].work = {}
  PROVE  StagesInv'
<1>1. PICK new : new = [initializer[s] EXCEPT !.pc = pc]
  OBVIOUS
<1>2. initializer[s] \in InitializerRecord
  BY DEF InitializersTyped
<1>3. IsStaged(new)
  BY <1>1, <1>2 DEF IsStaged, InitializerRecord, StagesInv
<1>4. initializer' = [initializer EXCEPT ![s] = new]
  BY <1>1 DEF Moves
<1> QED
  BY <1>3, <1>4, StageOfOne

LEMMA ControlKeepsStages ==
  ASSUME FullRescans = FALSE, InitializersTyped, StagesInv, NEW s \in Stations,
         \/ Start(s) \/ CheckInitialized(s) \/ BeginMaintenance(s)
         \/ CleanUp(s) \/ ResetStats(s) \/ AcquireLock(s)
         \/ ReleaseLock(s) \/ EndMaintenance(s) \/ Wake(s) \/ CrashAnywhere(s)
  PROVE  StagesInv'
<1>1. ~(BeginMaintenance(s) \/ CleanUp(s) \/ ResetStats(s) \/ EndMaintenance(s))
  BY DEF StagesInv, BeginMaintenance, CleanUp, ResetStats, EndMaintenance, At
<1>2. IsStaged(Down) /\ IsStaged([Down EXCEPT !.pc = "wait"])
  BY DEF IsStaged, Down
<1>3. CASE Start(s)
  <2>1. initializer' = [initializer EXCEPT
          ![s] = [Down EXCEPT !.pc = "boot", !.force = FALSE]]
    BY <1>3 DEF Start
  <2>2. PICK new : new = [Down EXCEPT !.pc = "boot", !.force = FALSE]
    OBVIOUS
  <2>3. IsStaged(new)
    BY <2>2 DEF IsStaged, Down
  <2> QED
    BY <2>1, <2>2, <2>3, StageOfOne
<1>4. CASE Wake(s)
  <2>1. PICK new : new = [Down EXCEPT !.pc = "lock", !.mode = "Refresh"]
    OBVIOUS
  <2>2. IsStaged(new)
    BY <2>1 DEF IsStaged, Down
  <2>3. initializer' = [initializer EXCEPT ![s] = new]
    BY <1>4, <2>1 DEF Wake
  <2> QED
    BY <2>2, <2>3, StageOfOne
<1>5. CASE initializer' = [initializer EXCEPT ![s] = Down]
  BY <1>2, <1>5, StageOfOne
<1>6. CASE Serve(s)
  BY <1>2, <1>6, StageOfOne DEF Serve
<1>7. ASSUME initializer[s].pc \notin {"split", "add"},
             NEW pc \in {"lock", "scan", "wait"}, Moves(s, pc)
      PROVE  StagesInv'
  <2>1. initializer[s].result = << >> /\ initializer[s].work = {}
    BY <1>7 DEF StagesInv
  <2> QED
    BY <1>7, <2>1, StageMoves
<1>8. ~initializer[s].force
  BY DEF StagesInv
<1>9. CASE CheckInitialized(s)
  BY <1>6, <1>7, <1>9 DEF CheckInitialized, At
<1>10. CASE AcquireLock(s)
  BY <1>5, <1>7, <1>8, <1>10 DEF AcquireLock, LockRefused, At
<1>11. CASE ReleaseLock(s)
  BY <1>6, <1>7, <1>8, <1>11 DEF ReleaseLock, At
<1>12. CASE CrashAnywhere(s)
  BY <1>5, <1>12 DEF CrashAnywhere
<1> QED
  BY <1>1, <1>3, <1>4, <1>9, <1>10, <1>11, <1>12

LEMMA WorkersKeepStages ==
  ASSUME ResponsesGetLost = FALSE, SoleInv, NEW s \in Stations,
         Scan(s) \/ Split(s) \/ AddChunk(s)
  PROVE  StagesInv'
<1>1. /\ InitializerInv /\ InitializersTyped /\ StagesInv
      /\ fullnode = ledger /\ CustodyInv
      /\ initializer[s] \in InitializerRecord /\ ~initializer[s].force
  BY DEF SoleInv, InitializerInv, InitializersTyped, StagesInv
<1>2. ASSUME NEW pc, Changes(s, pc, initializer[s].force), pc = "split"
      PROVE  StagesInv'
  <2>1. PICK new \in InitializerRecord :
          /\ initializer' = [initializer EXCEPT ![s] = new]
          /\ new.pc = "split" /\ ~new.force
    BY <1>1, <1>2 DEF Changes
  <2>2. IsStaged(new)
    BY <2>1 DEF IsStaged
  <2> QED
    BY <1>1, <2>1, <2>2, StageOfOne
<1>3. CASE Scan(s)
  <2>1. PICK found : found = {c \in fullnode : c.balance >= Threshold(s)}
    OBVIOUS
  <2>2. initializer' = [initializer EXCEPT ![s] =
          [Enqueue(s, found) EXCEPT !.pc = IF found = {} THEN "unlock" ELSE "split"]]
    BY <1>3, <2>1 DEF Scan
  <2>3. CASE found = {}
    <3>1. {c \in found : TooSmall(c.balance)} = {}
      BY <2>3
    <3>2. IsFiniteSet({}) /\ Cardinality({}) = 0
      BY FS_EmptySet
    <3>3. SetToSeq({}) = << >>
      BY <3>2, ListOfASet
    <3>4. initializer[s].work = {} /\ initializer[s].result = << >>
      BY <1>1, <1>3 DEF Scan, At, StagesInv
    <3>5. PICK new : new = [Enqueue(s, found) EXCEPT !.pc = "unlock"]
      OBVIOUS
    <3>6. {[coin |-> c, count |-> SplitCount(c.balance)] :
             c \in {d \in found : ~TooSmall(d.balance)}} = {}
      BY <2>3
    <3>7. new = [initializer[s] EXCEPT
             !.result = @ \o << >>, !.work = @ \cup {}, !.pc = "unlock"]
      BY <3>1, <3>3, <3>5, <3>6 DEF Enqueue
    <3>8. << >> \o << >> = << >>
      OBVIOUS
    <3>9. IsStaged(new)
      BY <1>1, <3>4, <3>7, <3>8 DEF IsStaged, InitializerRecord
    <3> QED
      BY <1>1, <2>2, <2>3, <3>5, <3>9, StageOfOne
  <2>4. CASE found # {}
    <3>1. PICK new : new = [Enqueue(s, found) EXCEPT !.pc = "split"]
      OBVIOUS
    <3>2. new.pc = "split" /\ new.force = initializer[s].force
      BY <1>1, <3>1 DEF Enqueue, InitializerRecord
    <3>3. IsStaged(new)
      BY <1>1, <3>2 DEF IsStaged
    <3> QED
      BY <1>1, <2>2, <2>4, <3>1, <3>3, StageOfOne
  <2> QED
    BY <2>3, <2>4
<1>4. CASE Split(s)
  <2>1. At(s, "split")
    BY <1>4 DEF Split
  <2>2. ASSUME NEW w \in initializer[s].work, SplitOk(s, w) PROVE StagesInv'
    BY <1>1, <1>2, <2>1, <2>2, SplitOkChanges
  <2>3. ASSUME NEW w \in initializer[s].work, SplitErr(s, w) PROVE StagesInv'
    <3>1. UNCHANGED initializer
      BY <1>1, <2>3, SplitErrKeepsWork
    <3> QED
      BY <1>1, <3>1 DEF StagesInv
  <2>4. CASE initializer[s].work = {} /\ Moves(s, "add")
    BY <1>1, <2>4, StageMoves
  <2> QED
    BY <1>4, <2>2, <2>3, <2>4 DEF Split
<1>5. CASE AddChunk(s)
  <2>1. initializer[s].pc = "add" /\ initializer[s].work = {}
    BY <1>1, <1>5 DEF AddChunk, At, StagesInv
  <2>2. ASSUME NEW rest, initializer' = [initializer EXCEPT ![s].result = rest]
        PROVE  StagesInv'
    <3>1. PICK new : new = [initializer[s] EXCEPT !.result = rest]
      OBVIOUS
    <3>2. IsStaged(new)
      BY <1>1, <2>1, <3>1 DEF IsStaged, InitializerRecord
    <3>3. initializer' = [initializer EXCEPT ![s] = new]
      BY <2>2, <3>1
    <3> QED
      BY <1>1, <3>2, <3>3, StageOfOne
  <2>3. CASE initializer' = [initializer EXCEPT ![s] =
               IF s \in up THEN [Down EXCEPT !.pc = "dead"] ELSE Down]
    <3>1. PICK new : new = IF s \in up THEN [Down EXCEPT !.pc = "dead"] ELSE Down
      OBVIOUS
    <3>2. IsStaged(new)
      BY <3>1 DEF IsStaged, Down
    <3> QED
      BY <1>1, <2>3, <3>1, <3>2, StageOfOne
  <2>4. CASE initializer[s].result = << >> /\ Moves(s, "unlock")
    BY <1>1, <2>1, <2>4, StageMoves
  <2> QED
    BY <1>5, <2>2, <2>3, <2>4 DEF AddChunk
<1> QED
  BY <1>3, <1>4, <1>5

-----------------------------------------------------------------------------
LEMMA ServingServesNothing ==
  ASSUME SoleInv, ~initialized', Serving
  PROVE  NothingIsServed'
<1>1. ~initialized
  BY DEF Serving, LateCommit, ReserveGas, DebugCheckHealth, Reserve, ReserveGranted,
         StartExecution, ReadyForExecution, TaskStep, QueryTotalBalance, ExecuteOk,
         ExecuteErr, QueryLatest, TriggerRescan, ReleaseCoins, UnlockStep,
         UnlockExpire, ExpireCoins, UnlockQuery, UnlockRelease, AddNewCoins,
         AddNewCoinsFailed, PushCoins, FullnodeSyncs, TimePasses, Tick, registryVars
<1>2. NothingIsServed /\ Typed
  BY <1>1 DEF SoleInv, InitializerInv
<1> USE DEF NothingIsServed
<1>3. ASSUME NEW budget \in Nat \ {0}, NEW duration, Reserve(budget, duration)
      PROVE  FALSE
  <2>1. \E n \in 1 .. Len(available) : TRUE
    BY <1>2, <1>3, GrantTakesTheFront DEF Reserve, Typed
  <2> QED
    BY <1>2, <2>1
<1>4. ~ \E b \in Budgets, d \in Durations : ReserveGas(b, d)
  BY <1>3, GasStationAssumption DEF ReserveGas, ValidRequest
<1>5. ~DebugCheckHealth
  BY <1>3, GasStationAssumption DEF DebugCheckHealth
<1>6. ASSUME NEW t \in Tasks PROVE ~TaskStep(t)
  <2>1. task[t].pc = "idle"
    BY <1>2 DEF IdleTask
  <2> QED
    BY <2>1
       DEF TaskStep, QueryTotalBalance, ExecuteOk, ExecuteErr, QueryLatest,
           TriggerRescan, ReleaseCoins
<1>7. ASSUME NEW s \in Stations, UnlockStep(s) PROVE NothingIsServed'
  <2>1. unlocker[s].pc = "idle"
    BY <1>2 DEF IdleUnlocker
  <2>2. UnlockExpire(s)
    BY <1>7, <2>1 DEF UnlockStep, UnlockQuery, UnlockRelease
  <2>3. UNION {ToSet(reservations[r]) : r \in ExpiredReservations} = {}
    BY <1>2 DEF ExpiredReservations
  <2>4. UNCHANGED unlocker
    BY <2>2, <2>3 DEF UnlockExpire
  <2>5. DOMAIN reservations' = {}
    BY <1>2, <2>2 DEF UnlockExpire, ExpireCoins, Restrict
  <2>6. UNCHANGED <<available, granted, task>>
    BY <2>2 DEF UnlockExpire, ExpireCoins, poolVars
  <2> QED
    BY <1>2, <2>4, <2>5, <2>6
<1>8. CASE FullnodeSyncs \/ TimePasses
  <2>1. UNCHANGED <<available, reservations, granted, task, unlocker>>
    BY <1>8
       DEF FullnodeSyncs, TimePasses, Tick, registryVars, poolVars,
           reservationVars, processVars
  <2> QED
    BY <1>2, <2>1
<1> QED
  BY <1>2, <1>4, <1>5, <1>6, <1>7, <1>8 DEF Serving, SoleInv

LEMMA StationsServeNothing ==
  ASSUME SoleInv, ~initialized', NEW s \in Stations,
         \/ Start(s) \/ InitializerStep(s) \/ WakeByTicker(s) \/ CrashAnywhere(s)
         \/ Deposit
  PROVE  NothingIsServed'
<1>1. Typed /\ InitializersTyped
  BY DEF SoleInv, InitializerInv
<1>2. ~CleanUp(s)
  BY DEF SoleInv, StagesInv, CleanUp, At
<1>3. ASSUME AddChunk(s), initializer[s].result # << >> PROVE FALSE
  <2>1. PICK result \in Seq(Coin) : result = initializer[s].result
    BY <1>1 DEF InitializersTyped, InitializerRecord
  <2>2. PICK n \in 1 .. Len(result) :
          n = IF Len(result) < ChunkSize THEN Len(result) ELSE ChunkSize
    BY <1>3, <2>1, InitializerAssumption
  <2>3. n \in 0 .. Len(result)
    BY <2>2
  <2>4. Len(SubSeq(result, 1, n)) = n
    BY <2>3, SplitAt
  <2>5. SubSeq(result, 1, n) # << >>
    BY <2>2, <2>4
  <2>6. PushCoins(SubSeq(result, 1, n))
    BY <1>3, <2>1, <2>2 DEF AddChunk, AddNewCoins, AddNewCoinsFailed
  <2> QED
    BY <2>5, <2>6 DEF PushCoins
<1>4. ~initialized /\ UNCHANGED <<available, reservations, granted>>
  BY <1>2, <1>3
     DEF Start, InitializerStep, WakeByTicker, WakeByTrigger, Wake, CrashAnywhere,
         Crash, Deposit, CheckInitialized, BeginMaintenance, ResetStats,
         AcquireLock, Scan, Split, AddChunk, ReleaseLock, EndMaintenance,
         ScriptOnly, InitCoinStats, AcquireInitLock, ReleaseInitLock,
         AcquireMaintenanceLock, ReleaseMaintenanceLock, registryVars, poolVars,
         reservationVars
<1>5. NothingIsServed
  BY <1>4 DEF SoleInv
<1>6. CASE UNCHANGED <<task, unlocker>>
  BY <1>4, <1>5, <1>6 DEF NothingIsServed
<1>7. CASE Crash(s)
  <2>1. /\ task' = [t \in Tasks |-> IF StationOf[t] = s THEN IdleTask ELSE task[t]]
        /\ unlocker' = [unlocker EXCEPT ![s] = IdleUnlocker]
    BY <1>7 DEF Crash
  <2>2. unlocker \in [Stations -> [pc : UnlockerPCs, batch : SUBSET CoinIds,
                                   updated : Seq(Coin)]]
    BY <1>1 DEF Typed, UnlockersTyped
  <2> QED
    BY <1>4, <1>5, <2>1, <2>2 DEF NothingIsServed
<1> QED
  BY <1>2, <1>6, <1>7
     DEF Start, InitializerStep, WakeByTicker, WakeByTrigger, Wake, CrashAnywhere,
         Deposit, CheckInitialized, BeginMaintenance, ResetStats, AcquireLock,
         Scan, Split, AddChunk, ReleaseLock, EndMaintenance, Serve, Panic,
         ScriptOnly, processVars

-----------------------------------------------------------------------------
LEMMA ChainStaysShown ==
  ASSUME FullnodeLags = FALSE, ResponsesGetLost = FALSE, fullnode = ledger,
         [InitializerNext]_allVars
  PROVE  fullnode' = ledger'
<1>1. CASE UNCHANGED chainVars
  BY <1>1 DEF chainVars
<1>2. CASE FullnodeFollows
  BY <1>2 DEF FullnodeFollows
<1>3. CASE FullnodeSyncs
  BY <1>3 DEF FullnodeSyncs
<1>4. ASSUME NEW t \in Tasks, TaskStep(t) PROVE fullnode' = ledger'
  BY <1>1, <1>2, <1>4
     DEF TaskStep, QueryTotalBalance, ExecuteOk, Commit, ExecuteErr, QueryLatest,
         TriggerRescan, ReleaseCoins
<1>5. ASSUME NEW s \in Stations, InitializerStep(s) PROVE fullnode' = ledger'
  BY <1>1, <1>2, <1>5
     DEF InitializerStep, CheckInitialized, BeginMaintenance, CleanUp, ResetStats,
         AcquireLock, Scan, Split, SplitOk, SplitErr, CommitSplit, AddChunk,
         ReleaseLock, EndMaintenance, WakeByTrigger, Wake, ScriptOnly, chainVars
<1>6. CASE Serving
  BY <1>1, <1>2, <1>3, <1>4, <1>6
     DEF Serving, LateCommit, Commit, ReserveGas, DebugCheckHealth, Reserve, StartExecution, UnlockStep,
         UnlockExpire, UnlockQuery, UnlockRelease, TimePasses
<1> QED
  BY <1>1, <1>2, <1>5, <1>6
     DEF InitializerNext, Start, WakeByTicker, Wake, CrashAnywhere, Crash, Deposit,
         allVars, vars

LEMMA RepliesAreNotFound ==
  ASSUME InitializerInv, [InitializerNext]_allVars, lostReplies' = 0
  PROVE  lostReplies = 0
<1>1. lostReplies \in Nat
  BY DEF InitializerInv, Typed, ProcessesTyped
<1>2. lostReplies' = lostReplies \/ lostReplies' = lostReplies + 1
  BY DEF InitializerNext, Serving, LateCommit, ReserveGas, DebugCheckHealth, Reserve,
         StartExecution, TaskStep, QueryTotalBalance, ExecuteOk, ExecuteErr,
         QueryLatest, TriggerRescan, ReleaseCoins, UnlockStep, UnlockExpire,
         UnlockQuery, UnlockRelease, FullnodeSyncs, TimePasses, ReplyArrives,
         ReplyIsLost, Start, InitializerStep, CheckInitialized, BeginMaintenance,
         CleanUp, ResetStats, AcquireLock, Scan, Split, AddChunk, ReleaseLock,
         EndMaintenance, WakeByTrigger, WakeByTicker, Wake, CrashAnywhere, Crash,
         Deposit, Serve, Panic, ScriptOnly, processVars, faultVars, vars, allVars
<1> QED
  BY <1>1, <1>2

LEMMA StepsKeepSoleCustody ==
  ASSUME FullRescans = FALSE, FullnodeLags = FALSE, ResponsesGetLost = FALSE,
         SoleInv, [InitializerNext]_allVars, lostReplies = 0, lostReplies' = 0,
         LocksExclude, FirstStartsAreFirst, BalancesFit', NoneIsOnTheEdge'
  PROVE  SoleInv'
<1>1. InitializerInv' /\ Typed'
  BY InitializerStepsKeepInv DEF SoleInv, InitializerInv
<1>2. fullnode' = ledger' /\ sent' = {}
  BY ChainStaysShown, NothingIsSentUnanswered DEF SoleInv
<1>3. /\ InitializerInv /\ CustodyInv /\ GrantsInv /\ StagesInv
      /\ ~initialized => NothingIsServed
      /\ TotalIsThere /\ InitializersTyped
  BY DEF SoleInv, InitializerInv
<1>4. CASE UNCHANGED allVars
  <2>1. /\ UNCHANGED <<available, reservations, task, unlocker, ledger, initializer>>
        /\ UNCHANGED <<granted, reservationVars, initialized, availableTotal>>
    BY <1>4
       DEF allVars, vars, registryVars, poolVars, reservationVars, chainVars,
           processVars, initializerVars
  <2>2. CustodyInv'
    BY <1>3, <2>1, StandingStillKeepsCustody
  <2>3. GrantsInv'
    BY <1>3, <2>1, ReservationsStay
  <2>4. StagesInv' /\ (~initialized' => NothingIsServed') /\ TotalIsThere'
    BY <1>3, <2>1 DEF StagesInv, NothingIsServed, TotalIsThere, At
  <2> QED
    BY <1>1, <1>2, <2>2, <2>3, <2>4 DEF SoleInv
<1>5. CASE Serving
  <2>1. CustodyInv'
    BY <1>1, <1>5, ServingKeepsSoleCustody
  <2>2. StagesInv'
    BY <1>3, <1>5 DEF Serving, initializerVars, StagesInv
  <2>3. GrantsInv' /\ TotalIsThere' /\ (~initialized' => NothingIsServed')
    BY <1>5, ServingKeepsGrants, ServingKeepsTotal, ServingServesNothing
  <2> QED
    BY <1>1, <1>2, <2>1, <2>2, <2>3 DEF SoleInv
<1>6. ASSUME NEW s \in Stations,
             Start(s) \/ InitializerStep(s) \/ WakeByTicker(s) \/ CrashAnywhere(s)
      PROVE  SoleInv'
  <2>1. CustodyInv'
    BY <1>6, StationsKeepSoleCustody
  <2>2. StagesInv'
    BY <1>3, <1>6, ControlKeepsStages, WorkersKeepStages
       DEF InitializerStep, WakeByTrigger, WakeByTicker
  <2>3. GrantsInv' /\ TotalIsThere' /\ (~initialized' => NothingIsServed')
    BY <1>6, StationsKeepGrants, StationsKeepTotal, StationsServeNothing
  <2> QED
    BY <1>1, <1>2, <2>1, <2>2, <2>3 DEF SoleInv
<1>7. CASE Deposit
  <2>1. CustodyInv'
    BY <1>3, <1>7, DepositKeepsSoleCustody
  <2>2. /\ UNCHANGED initializer
        /\ UNCHANGED <<available, reservations, task, unlocker>>
        /\ UNCHANGED <<granted, reservationVars, initialized, availableTotal>>
    BY <1>7 DEF Deposit, registryVars, poolVars, reservationVars, processVars
  <2>3. GrantsInv'
    BY <1>3, <2>2, ReservationsStay
  <2>4. StagesInv' /\ (~initialized' => NothingIsServed') /\ TotalIsThere'
    BY <1>3, <2>2 DEF StagesInv, NothingIsServed, TotalIsThere, At
  <2> QED
    BY <1>1, <1>2, <2>1, <2>3, <2>4 DEF SoleInv
<1> QED
  BY <1>4, <1>5, <1>6, <1>7 DEF InitializerNext

LEMMA SoleInvStarts == InitializerInit => SoleInv
<1> SUFFICES ASSUME InitializerInit PROVE SoleInv
  OBVIOUS
<1>1. InitializerInv
  BY InitializersStartTyped
<1>2. /\ available = << >> /\ reservations = << >> /\ ~initialized
      /\ granted = {} /\ fullnode = ledger /\ sent = {} /\ availableTotal = Absent
      /\ \A t \in Tasks : task[t] = IdleTask
      /\ \A s \in Stations : unlocker[s] = IdleUnlocker /\ initializer[s] = Down
  BY DEF InitializerInit, RegistryInit
<1>3. DOMAIN reservations = {}
  BY <1>2
<1>4. CustodyInv
  <2>1. Poolable(<< >>, ledger) /\ ToSet(IdsOf(<< >>)) = {}
    BY DEF Poolable, IsInjective, IdsOf, ToSet
  <2>2. IsSoundWork({}, << >>, ledger) /\ WorkCoins({}, << >>) = {}
    BY <2>1 DEF IsSoundWork, WorkCoins
  <2>3. Down.work = {} /\ Down.result = << >>
    BY DEF Down
  <2>4. ASSUME NEW h \in Custodians PROVE CustodyOf(h) = {} /\ IsSound(h)
    <3>1. CASE h = <<"pool">>
      BY <1>2, <2>1, <3>1, CustodyByKind, SoundnessByKind
    <3>2. ASSUME NEW t \in Tasks, h = <<"task", t>>
          PROVE  CustodyOf(h) = {} /\ IsSound(h)
      BY <1>2, <3>2, CustodyByKind, SoundnessByKind, IdleHandsAreEmpty
    <3>3. ASSUME NEW s \in Stations, h = <<"unlocker", s>>
          PROVE  CustodyOf(h) = {} /\ IsSound(h)
      BY <1>2, <3>3, CustodyByKind, SoundnessByKind, IdleHandsAreEmpty
    <3>4. ASSUME NEW s \in Stations, h = <<"initializer", s>>
          PROVE  CustodyOf(h) = {} /\ IsSound(h)
      <4>1. initializer[s].work = {} /\ initializer[s].result = << >>
        BY <1>2, <2>3
      <4> QED
        BY <2>2, <3>4, <4>1, CustodyByKind, SoundnessByKind
    <3> QED
      BY <1>3, <3>1, <3>2, <3>3, <3>4, KindsOfCustodians
  <2> QED
    BY <2>4 DEF CustodyInv
<1>5. GrantsInv
  BY <1>2 DEF GrantsInv, GrantsMatch
<1>6. StagesInv /\ TotalIsThere
  BY <1>2 DEF StagesInv, TotalIsThere, At, Down
<1>7. NothingIsServed
  BY <1>2, <1>3 DEF NothingIsServed
<1> QED
  BY <1>1, <1>2, <1>4, <1>5, <1>6, <1>7 DEF SoleInv

(* The pool never holds a coin that a refresh would split, so that clients and
   refreshes do not get the same coins (but see NoneIsOnTheEdge). *)
PooledCoinsAreSmall ==
  \A i \in DOMAIN available : available[i].balance < OversizeThreshold

LEMMA CustodyIsSole ==
  ASSUME CustodyInv
  PROVE  SoleCustody /\ PooledCoinsAreSmall
<1>1. PICK pool : pool = <<"pool">>
  OBVIOUS
<1>2. pool \in Custodians
  BY <1>1, KindsOfCustodians
<1>3. Poolable(available, ledger)
  BY <1>1, <1>2, SoundnessByKind DEF CustodyInv
<1>4. \A s \in Stations : IsInjective(IdsOf(initializer[s].result))
  <2> TAKE s \in Stations
  <2>1. PICK h \in Custodians : h = <<"initializer", s>>
    BY KindsOfCustodians
  <2>2. IsSoundWork(initializer[s].work, initializer[s].result, ledger)
    BY <2>1, SoundnessByKind DEF CustodyInv
  <2> QED
    BY <2>2 DEF IsSoundWork, Poolable
<1>5. PoolHasNoDuplicates /\ PooledCoinsAreSmall
  BY <1>3 DEF Poolable, PoolHasNoDuplicates, PooledCoinsAreSmall
<1> QED
  BY <1>4, <1>5 DEF SoleCustody, CustodyInv

(* "It never returns the same coin to multiple callers" (storage/mod.rs:26),
   and no refresh splits a coin of the pool, whatever the stations do
   concurrently: initializers, refreshes, requests, unlock tasks, crashes and
   deposits.  Assumed are the conditions under which the code can keep the
   promise: no full rescan under the clients' feet, a fullnode and replies that
   tell the truth, no commit after a station has given up (it may merge coins
   of the pool, and a refresh then takes what they have become for a new coin),
   init locks that outlast their work, no second first start
   (run two_first_starts shows what it does), balances that fit into 64 bits,
   and no coin of exactly the threshold, which a task gives back and a refresh
   takes for new (gas_station_core.rs:189, iota_client.rs:66). *)
THEOREM CustodyStaysSole ==
  ASSUME FullRescans = FALSE, FullnodeLags = FALSE, ResponsesGetLost = FALSE
  PROVE  /\ InitializerSpec
         /\ []LocksExclude /\ []FirstStartsAreFirst
         /\ []BalancesFit /\ []NoneIsOnTheEdge
         => [](lostReplies = 0 => SoleCustody /\ PooledCoinsAreSmall)
<1> DEFINE Held == InitializerInv /\ (lostReplies = 0 => SoleInv)
<1>1. InitializerInit => Held
  BY InitializersStartTyped, SoleInvStarts
<1>2. ASSUME Held, [InitializerNext]_allVars, LocksExclude, FirstStartsAreFirst,
             BalancesFit', NoneIsOnTheEdge'
      PROVE  Held'
  <2>1. InitializerInv'
    BY <1>2, InitializerStepsKeepInv
  <2>2. lostReplies' = 0 => lostReplies = 0
    BY <1>2, RepliesAreNotFound
  <2> QED
    BY <1>2, <2>1, <2>2, StepsKeepSoleCustody
<1>3. Held => (lostReplies = 0 => SoleCustody /\ PooledCoinsAreSmall)
  BY CustodyIsSole DEF SoleInv
<1> HIDE DEF Held
<1> QED
  BY <1>1, <1>2, <1>3, PTL DEF InitializerSpec

-----------------------------------------------------------------------------
(* One gas station alone: from the look at the flag to the scan nobody but the
   first start can have added a coin. *)
FirstInv ==
  \A s \in Stations :
    initializer[s].pc \in {"stats", "lock", "scan"} /\ initializer[s].mode = "Init"
      => ~initialized /\ s \notin up

LEMMA AloneNobodyIsFirst ==
  ASSUME \A r, s \in Stations : r = s, InitializerInv, FirstInv,
         [InitializerNext]_allVars
  PROVE  FirstInv'
<1>1. /\ InitializersTyped /\ ServersAreStarted /\ up \subseteq Stations
      /\ \A r, s \in Stations : r = s
  BY DEF InitializerInv, Typed, ProcessesTyped
<1>2. CASE UNCHANGED <<initializer, initialized, up>>
  BY <1>2 DEF FirstInv
<1>3. CASE Serving
  <2>1. UNCHANGED <<initializer, up>>
    BY <1>3
       DEF Serving, initializerVars, LateCommit, ReserveGas, DebugCheckHealth, Reserve,
           StartExecution, TaskStep, QueryTotalBalance, ExecuteOk, ExecuteErr,
           QueryLatest, TriggerRescan, ReleaseCoins, UnlockStep, UnlockExpire,
           UnlockQuery, UnlockRelease, FullnodeSyncs, TimePasses, processVars,
           faultVars
  <2>2. CASE up = {}
    <3>1. UNCHANGED initialized
      BY <1>3, <2>2
         DEF Serving, LateCommit, ReserveGas, DebugCheckHealth, Reserve, StartExecution,
             TaskStep, QueryTotalBalance, ExecuteOk, ExecuteErr, QueryLatest,
             TriggerRescan, ReleaseCoins, UnlockStep, UnlockExpire, UnlockQuery,
             UnlockRelease, FullnodeSyncs, TimePasses, Tick, registryVars
    <3> QED
      BY <1>2, <2>1, <3>1
  <2>3. CASE up # {}
    <3>1. \A s \in Stations : s \in up
      BY <1>1, <2>3
    <3> QED
      BY <2>1, <3>1 DEF FirstInv
  <2> QED
    BY <2>2, <2>3
<1>4. ASSUME NEW s \in Stations, NEW pc, pc \notin {"stats", "lock", "scan"},
             NEW force, Changes(s, pc, force)
      PROVE  FirstInv'
  <2>1. initializer'[s].pc = pc
    BY <1>1, <1>4 DEF Changes, InitializersTyped
  <2> QED
    BY <1>1, <1>4, <2>1 DEF FirstInv
<1>5. ASSUME NEW s \in Stations, NEW pc, Moves(s, pc), ~initialized',
             s \notin up'
      PROVE  FirstInv'
  BY <1>1, <1>5 DEF FirstInv
<1>6. ASSUME NEW s \in Stations, Wake(s) PROVE FirstInv'
  <2>1. initializer'[s].mode = "Refresh"
    BY <1>1, <1>6 DEF Wake, InitializersTyped, Down
  <2> QED
    BY <1>1, <2>1 DEF FirstInv
<1>7. /\ "wait" \in InitializerPCs /\ "end" \in InitializerPCs
      /\ "fail" \in InitializerPCs /\ "add" \in InitializerPCs
      /\ "clean" \in InitializerPCs /\ "dead" \in InitializerPCs
      /\ "boot" \in InitializerPCs
  BY DEF InitializerPCs
<1>8. ASSUME NEW s \in Stations,
             Start(s) \/ CrashAnywhere(s) \/ EndMaintenance(s) \/ BeginMaintenance(s)
      PROVE  FirstInv'
  <2>1. \E pc \in {"boot", "down", "wait", "clean"}, force \in BOOLEAN :
          Changes(s, pc, force)
    <3>1. CASE Start(s)
      BY <1>7, <3>1, DownIsAChange, InitializerAssumption DEF Start
    <3>2. CASE CrashAnywhere(s)
      BY <1>7, <3>2, DownIsAChange DEF CrashAnywhere
    <3>3. CASE EndMaintenance(s)
      BY <1>7, <3>3, DownIsAChange DEF EndMaintenance, Serve, Panic
    <3>4. CASE BeginMaintenance(s)
      <4>1. initializer[s].force \in BOOLEAN
        BY <1>1 DEF InitializersTyped, InitializerRecord
      <4>2. CASE Moves(s, "clean")
        BY <1>1, <1>7, <4>1, <4>2, MovesAreChanges
      <4>3. CASE Panic(s)
        BY <1>7, <4>3, DownIsAChange DEF Panic
      <4> QED
        BY <3>4, <4>2, <4>3 DEF BeginMaintenance
    <3> QED
      BY <1>8, <3>1, <3>2, <3>3, <3>4
  <2> QED
    BY <1>4, <2>1
<1>9. ASSUME NEW s \in Stations, CheckInitialized(s) PROVE FirstInv'
  <2>1. CASE Serve(s)
    BY <1>4, <1>7, <2>1, DownIsAChange DEF Serve
  <2>2. CASE Moves(s, "lock") /\ UNCHANGED processVars /\ ~initialized
    <3>1. s \notin up
      BY <1>1, <1>9 DEF CheckInitialized, At, ServersAreStarted, RefreshPCs
    <3> QED
      BY <1>5, <1>9, <2>2, <3>1
         DEF CheckInitialized, registryVars, processVars, faultVars
  <2> QED
    BY <1>9, <2>1, <2>2 DEF CheckInitialized
<1>10. ASSUME NEW s \in Stations, CleanUp(s) PROVE FirstInv'
  <2>1. s \notin up
    BY <1>1, <1>10 DEF CleanUp, At, ServersAreStarted, RefreshPCs
  <2> QED
    BY <1>5, <1>10, <2>1
       DEF CleanUp, CleanUpCoinRegistry, ScriptOnly, processVars, faultVars
<1>11. ASSUME NEW s \in Stations, ResetStats(s) \/ AcquireLock(s)
       PROVE  FirstInv'
  <2>1. UNCHANGED <<initialized, up>>
    BY <1>11
       DEF ResetStats, AcquireLock, InitCoinStats, AcquireInitLock, ScriptOnly,
           registryVars, processVars, faultVars
  <2>2. ASSUME Moves(s, "lock") \/ Moves(s, "scan") PROVE FirstInv'
    <3>1. initializer'[s].mode = initializer[s].mode
      BY <1>1, <2>2 DEF Moves, InitializersTyped, InitializerRecord
    <3>2. initializer[s].pc \in {"stats", "lock", "scan"}
      BY <1>11 DEF ResetStats, AcquireLock, At
    <3> QED
      BY <1>1, <2>1, <3>1, <3>2 DEF FirstInv
  <2>3. ASSUME LockRefused(s) PROVE FirstInv'
    BY <1>1, <1>4, <1>7, <2>3, MovesAreChanges, DownIsAChange DEF LockRefused
  <2> QED
    BY <1>11, <2>2, <2>3 DEF ResetStats, AcquireLock
<1>12. ASSUME NEW s \in Stations, Scan(s) PROVE FirstInv'
  BY <1>4, <1>12, ScanChanges
<1>13. ASSUME NEW s \in Stations,
              initializer' = [initializer EXCEPT ![s] =
                IF s \in up THEN [Down EXCEPT !.pc = "dead"] ELSE Down]
       PROVE  FirstInv'
  BY <1>4, <1>7, <1>13, DownIsAChange
<1>14. ASSUME NEW s \in Stations, Split(s) PROVE FirstInv'
  <2>1. ASSUME NEW w \in initializer[s].work, SplitOk(s, w) PROVE FirstInv'
    BY <1>4, <1>14, <2>1, SplitOkChanges DEF Split
  <2>2. ASSUME NEW w \in initializer[s].work, SplitErr(s, w) PROVE FirstInv'
    BY <1>4, <1>13, <1>14, <2>2, SplitErrChanges DEF Split
  <2>3. CASE Moves(s, "add")
    BY <1>1, <1>4, <1>7, <2>3, MovesAreChanges
  <2> QED
    BY <1>14, <2>1, <2>2, <2>3 DEF Split
<1>15. ASSUME NEW s \in Stations, AddChunk(s) PROVE FirstInv'
  BY <1>4, <1>13, <1>15, AddChunkChanges
<1>16. ASSUME NEW s \in Stations, ReleaseLock(s) PROVE FirstInv'
  BY <1>1, <1>4, <1>7, <1>16, MovesAreChanges, DownIsAChange
     DEF ReleaseLock, Serve
<1>17. CASE Deposit \/ UNCHANGED allVars
  BY <1>2, <1>17
     DEF Deposit, allVars, vars, registryVars, processVars, faultVars,
         initializerVars
<1>18. ASSUME NEW s \in Stations, InitializerStep(s) PROVE FirstInv'
  BY <1>6, <1>8, <1>9, <1>10, <1>11, <1>12, <1>14, <1>15, <1>16, <1>18
     DEF InitializerStep, WakeByTrigger
<1> QED
  BY <1>3, <1>6, <1>8, <1>17, <1>18 DEF InitializerNext, WakeByTicker

(* A station that is the only one needs neither: nobody else can hold the
   lock, and it scans for its first start before anything is in the pool. *)
THEOREM AloneCustodyStaysSole ==
  ASSUME FullRescans = FALSE, FullnodeLags = FALSE, ResponsesGetLost = FALSE,
         \A r, s \in Stations : r = s
  PROVE  InitializerSpec /\ []BalancesFit /\ []NoneIsOnTheEdge
           => [](lostReplies = 0 => SoleCustody /\ PooledCoinsAreSmall)
<1>1. InitializerInit => InitializerInv /\ FirstInv
  <2>1. InitializerInit => FirstInv
    BY DEF InitializerInit, FirstInv, Down
  <2> QED
    BY <2>1, InitializersStartTyped
<1>2. InitializerInv /\ FirstInv /\ [InitializerNext]_allVars
        => (InitializerInv /\ FirstInv)'
  BY InitializerStepsKeepInv, AloneNobodyIsFirst
<1>3. InitializerInv /\ FirstInv => FirstStartsAreFirst
  BY DEF FirstInv, FirstStartsAreFirst, At
<1>4. LocksExclude
  BY DEF LocksExclude
<1>5. InitializerSpec => []LocksExclude /\ []FirstStartsAreFirst
  BY <1>1, <1>2, <1>3, <1>4, PTL DEF InitializerSpec
<1> QED
  BY <1>5, CustodyStaysSole, PTL

-----------------------------------------------------------------------------
(* A full rescan has every coin of the ledger in its hands or in the pool from
   its scan to its end, which no other start comes to.  k is what the
   initializer does. *)
HasFound(k, pool, chain) ==
  /\ k.pc = "end" => k.force
  /\ k.force =>
       /\ k.mode = "Init"
       /\ k.pc = "split" =>
            \A c \in chain : \/ c \in ToSet(pool) \cup ToSet(k.result)
                             \/ \E w \in k.work : w.coin = c
       /\ k.pc = "add" => chain \subseteq ToSet(pool) \cup ToSet(k.result)
       /\ k.pc \in {"unlock", "end"} => chain \subseteq ToSet(pool)

RescanInv ==
  ~lagged =>
    /\ fullnode = ledger
    /\ \A s \in Stations : HasFound(initializer[s], available, ledger)

(* While a station rescans, the other ones are down, or have just started. *)
RescansAlone ==
  \A r, s \in Stations :
    r # s /\ Rescanning(s) => initializer[r].pc \in {"down", "boot"}

(* Nobody sends coins during a full rescan. *)
DepositsWait == deposits' = deposits \/ \A s \in Stations : ~Rescanning(s)

LEMMA FullnodeStaysFaithful ==
  ASSUME ~lagged => fullnode = ledger, [InitializerNext]_allVars, ~lagged'
  PROVE  ~lagged /\ fullnode' = ledger'
<1> DEFINE Goal == ~lagged /\ fullnode' = ledger'
<1>1. CASE UNCHANGED chainVars
  BY <1>1 DEF chainVars
<1>2. CASE FullnodeFollows
  BY <1>2 DEF FullnodeFollows
<1>3. CASE FullnodeSyncs
  BY <1>3 DEF FullnodeSyncs
<1>4. ASSUME NEW t \in Tasks, TaskStep(t) PROVE Goal
  BY <1>1, <1>2, <1>4
     DEF TaskStep, QueryTotalBalance, ExecuteOk, Commit, ExecuteErr, QueryLatest,
         TriggerRescan, ReleaseCoins
<1>5. ASSUME NEW s \in Stations, InitializerStep(s) PROVE Goal
  BY <1>1, <1>2, <1>5
     DEF InitializerStep, CheckInitialized, BeginMaintenance, CleanUp, ResetStats,
         AcquireLock, Scan, Split, SplitOk, SplitErr, CommitSplit, AddChunk,
         ReleaseLock, EndMaintenance, WakeByTrigger, Wake, ScriptOnly, chainVars
<1>6. CASE Serving
  BY <1>1, <1>2, <1>3, <1>4, <1>6
     DEF Serving, LateCommit, Commit, ReserveGas, DebugCheckHealth, Reserve, StartExecution, UnlockStep,
         UnlockExpire, UnlockQuery, UnlockRelease, TimePasses
<1> QED
  BY <1>1, <1>2, <1>5, <1>6
     DEF InitializerNext, Start, WakeByTicker, Wake, CrashAnywhere, Crash, Deposit,
         allVars, vars

(* enqueue_task loses none of the coins it is given. *)
LEMMA EnqueuedCoinsAreFound ==
  ASSUME InitializersTyped, NEW s \in Stations,
         NEW coins, IsFiniteSet(coins), coins \subseteq Coin,
         NEW c,
         \/ c \in coins
         \/ c \in ToSet(initializer[s].result)
         \/ \E w \in initializer[s].work : w.coin = c
  PROVE  \/ c \in ToSet(Enqueue(s, coins).result)
         \/ \E w \in Enqueue(s, coins).work : w.coin = c
<1>1. /\ Enqueue(s, coins).work = initializer[s].work \cup Tasked(coins)
      /\ Enqueue(s, coins).result = initializer[s].result \o Untasked(coins)
  BY EnqueuedFields
<1>2. PICK small : small = {d \in coins : TooSmall(d.balance)}
  OBVIOUS
<1>3. Untasked(coins) \in Seq(Coin) /\ ToSet(Untasked(coins)) = small
  <2>1. IsFiniteSet(small) /\ small \subseteq Coin
    BY <1>2, FS_Subset
  <2>2. Untasked(coins) = SetToSeq(small)
    BY <1>2 DEF Untasked
  <2>3. Untasked(coins) \in [1 .. Cardinality(small) -> Coin]
    BY <2>1, <2>2, ListOfASet
  <2> QED
    BY <2>1, <2>2, <2>3, ListOfASet, FS_CardinalityType
<1>4. ToSet(initializer[s].result \o Untasked(coins)) =
        ToSet(initializer[s].result) \cup small
  <2>1. initializer[s].result \in Seq(Coin)
    BY DEF InitializersTyped, InitializerRecord
  <2> QED
    BY <1>3, <2>1, ConcatIsInjective
<1>5. CASE c \in coins /\ ~TooSmall(c.balance)
  <2>1. PICK w : w = [coin |-> c, count |-> SplitCount(c.balance)]
    OBVIOUS
  <2>2. w \in Tasked(coins) /\ w.coin = c
    BY <1>5, <2>1 DEF Tasked
  <2> QED
    BY <1>1, <2>2
<1> QED
  BY <1>1, <1>2, <1>4, <1>5

LEMMA OneIsFound ==
  ASSUME InitializersTyped, NEW s \in Stations, NEW new,
         initializer' = [initializer EXCEPT ![s] = new],
         HasFound(new, available', ledger')
  PROVE  HasFound(initializer'[s], available', ledger')
BY DEF InitializersTyped

LEMMA MovesAreFound ==
  ASSUME InitializersTyped, NEW s \in Stations, NEW pc, Moves(s, pc),
         initializer[s].force => initializer[s].mode = "Init",
         pc = "end" => initializer[s].force /\ ledger' \subseteq ToSet(available'),
         pc \notin {"split", "add", "unlock"}
  PROVE  HasFound(initializer'[s], available', ledger')
BY DEF InitializersTyped, InitializerRecord, Moves, HasFound

(* A step between the start and the scan, or after the last coin was added. *)
LEMMA ControlKeepsFinds ==
  ASSUME InitializersTyped, NEW s \in Stations,
         HasFound(initializer[s], available, ledger),
         \/ Start(s) \/ CheckInitialized(s) \/ BeginMaintenance(s)
         \/ CleanUp(s) \/ ResetStats(s) \/ AcquireLock(s)
         \/ ReleaseLock(s) \/ EndMaintenance(s) \/ Wake(s) \/ CrashAnywhere(s)
  PROVE  HasFound(initializer'[s], available', ledger')
<1>1. initializer[s] \in InitializerRecord
  BY DEF InitializersTyped
<1>2. initializer[s].force => initializer[s].mode = "Init"
  BY DEF HasFound
<1>3. CASE Start(s)
  <2>1. PICK force : initializer' = [initializer EXCEPT
               ![s] = [Down EXCEPT !.pc = "boot", !.force = force]]
    BY <1>3 DEF Start
  <2>2. PICK new : new = [Down EXCEPT !.pc = "boot", !.force = force]
    OBVIOUS
  <2>3. HasFound(new, available', ledger')
    BY <2>2 DEF HasFound, Down
  <2> QED
    BY <2>1, <2>2, <2>3, OneIsFound
<1>4. ASSUME NEW new, ~new.force, new.pc # "end",
             initializer' = [initializer EXCEPT ![s] = new]
      PROVE  HasFound(initializer'[s], available', ledger')
  BY <1>4, OneIsFound DEF HasFound
<1>5. CASE Wake(s)
  <2>1. PICK new : new = [Down EXCEPT !.pc = "lock", !.mode = "Refresh"]
    OBVIOUS
  <2>2. /\ initializer' = [initializer EXCEPT ![s] = new]
        /\ ~new.force /\ new.pc # "end"
    BY <1>5, <2>1 DEF Wake, Down
  <2> QED
    BY <1>4, <2>2
<1>6. CASE initializer' = [initializer EXCEPT ![s] = Down]
  <2>1. ~Down.force /\ Down.pc # "end"
    BY DEF Down
  <2> QED
    BY <1>4, <1>6, <2>1
<1>7. CASE Serve(s)
  <2>1. PICK new : new = [Down EXCEPT !.pc = "wait"]
    OBVIOUS
  <2>2. /\ initializer' = [initializer EXCEPT ![s] = new]
        /\ ~new.force /\ new.pc # "end"
    BY <1>7, <2>1 DEF Serve, Down
  <2> QED
    BY <1>4, <2>2
<1>8. ASSUME NEW pc \in {"lock", "clean", "stats", "scan", "fail", "wait"},
             Moves(s, pc)
      PROVE  HasFound(initializer'[s], available', ledger')
  BY <1>2, <1>8, MovesAreFound
<1>9. CASE CheckInitialized(s)
  BY <1>7, <1>8, <1>9 DEF CheckInitialized
<1>10. CASE BeginMaintenance(s)
  BY <1>6, <1>8, <1>10 DEF BeginMaintenance, Panic
<1>11. CASE CleanUp(s) \/ ResetStats(s)
  BY <1>8, <1>11 DEF CleanUp, ResetStats
<1>12. CASE AcquireLock(s)
  BY <1>6, <1>8, <1>12 DEF AcquireLock, LockRefused
<1>13. CASE ReleaseLock(s)
  <2>1. CASE initializer[s].force /\ Moves(s, "end")
    <3>1. UNCHANGED <<ledger, available>>
      BY <1>13 DEF ReleaseLock, ReleaseInitLock, chainVars, poolVars
    <3>2. ledger \subseteq ToSet(available)
      BY <1>13, <2>1 DEF ReleaseLock, At, HasFound
    <3> QED
      BY <1>2, <2>1, <3>1, <3>2, MovesAreFound
  <2> QED
    BY <1>7, <1>8, <1>13, <2>1 DEF ReleaseLock
<1>14. CASE EndMaintenance(s)
  BY <1>6, <1>7, <1>14 DEF EndMaintenance, Panic
<1>15. CASE CrashAnywhere(s)
  BY <1>6, <1>15 DEF CrashAnywhere
<1> QED
  BY <1>3, <1>5, <1>9, <1>10, <1>11, <1>12, <1>13, <1>14, <1>15

(* The scan of a full rescan has no threshold: it finds all coins. *)
LEMMA ScanFindsAll ==
  ASSUME Typed, InitializersTyped, fullnode = ledger, NEW s \in Stations,
         HasFound(initializer[s], available, ledger),
         Scan(s)
  PROVE  HasFound(initializer'[s], available', ledger')
<1>1. PICK found : found = {c \in fullnode : c.balance >= Threshold(s)}
  OBVIOUS
<1>2. PICK new : new = [Enqueue(s, found) EXCEPT
                          !.pc = IF found = {} THEN "unlock" ELSE "split"]
  OBVIOUS
<1>3. initializer' = [initializer EXCEPT ![s] = new]
  BY <1>1, <1>2 DEF Scan
<1>4. UNCHANGED <<available, ledger>>
  BY DEF Scan, ScriptOnly, registryVars, poolVars, chainVars
<1>5. IsFiniteSet(found) /\ found \subseteq Coin
  BY <1>1, FS_Subset DEF Typed, ChainTyped
<1>6. /\ new.force = initializer[s].force
      /\ new.mode = initializer[s].mode
      /\ new.pc = IF found = {} THEN "unlock" ELSE "split"
      /\ new.result = Enqueue(s, found).result
      /\ new.work = Enqueue(s, found).work
  <2>1. Enqueue(s, found) = [initializer[s] EXCEPT
              !.result = initializer[s].result \o Untasked(found),
              !.work = initializer[s].work \cup Tasked(found)]
    BY EnqueuedFields
  <2>2. initializer[s] \in InitializerRecord
    BY DEF InitializersTyped
  <2> HIDE DEF Enqueue
  <2> QED
    BY <1>2, <2>1, <2>2 DEF InitializerRecord
<1>7. SUFFICES ASSUME new.force PROVE HasFound(new, available, ledger)
  <2>1. ~new.force => HasFound(new, available, ledger)
    BY <1>6 DEF HasFound
  <2> QED
    BY <1>3, <1>4, <1>7, <2>1, OneIsFound
<1>8. new.mode = "Init"
  BY <1>6, <1>7 DEF HasFound
<1>9. found = ledger
  <2>1. \A c \in ledger : c.balance >= 0
    BY DEF Typed, ChainTyped, Coin
  <2> QED
    BY <1>1, <1>6, <1>8, <2>1 DEF Threshold
<1>10. \A c \in ledger : c \in ToSet(new.result) \/ \E w \in new.work : w.coin = c
  BY <1>5, <1>6, <1>9, EnqueuedCoinsAreFound
<1> QED
  BY <1>6, <1>8, <1>9, <1>10 DEF HasFound

(* What is left of a coin and what was cut off are results or work. *)
LEMMA SplitOkFindsAll ==
  ASSUME InitializerInv, NEW s \in Stations,
         HasFound(initializer[s], available, ledger),
         At(s, "split"), UNCHANGED available,
         NEW w \in initializer[s].work, SplitOk(s, w)
  PROVE  HasFound(initializer'[s], available', ledger')
<1>1. /\ initializer[s] \in InitializerRecord
      /\ w \in Work /\ w.count \in Nat \ {0} /\ w.coin \in Coin
  BY DEF InitializerInv, InitializersTyped, InitializerRecord, Work
<1>2. PICK gas \in SplitGas :
        /\ CommitSplit(w, gas)
        /\ LET rest == Enqueue(s, Pieces(w, FreshIds(w.count - 1), gas))
           IN  initializer' = [initializer EXCEPT
                 ![s] = [rest EXCEPT !.work = @ \ {w}]]
  BY DEF SplitOk
<1>3. PICK ids : ids = FreshIds(w.count - 1)
  OBVIOUS
<1>4. PICK pieces : pieces = Pieces(w, ids, gas)
  OBVIOUS
<1>5. PICK rest : rest = Enqueue(s, pieces)
  OBVIOUS
<1>6. PICK new : new = [rest EXCEPT !.work = @ \ {w}]
  OBVIOUS
<1>7. /\ w.coin \in ledger
      /\ ledger' = (ledger \ {w.coin}) \cup pieces
      /\ initializer' = [initializer EXCEPT ![s] = new]
  BY <1>2, <1>3, <1>4, <1>5, <1>6 DEF CommitSplit
<1>8. pieces \subseteq Coin /\ IsFiniteSet(pieces)
  BY <1>1, <1>2, <1>3, <1>4, SplitKeepsIds DEF InitializerInv
<1>9. w.coin \notin pieces
  <2>1. w.count - 1 \in Nat /\ Cardinality(CoinIds \ created) >= w.count - 1
    BY <1>1, <1>2 DEF CommitSplit
  <2>2. ids \subseteq CoinIds \ created
    BY <1>3, <2>1, FreshIdsAreFresh
  <2>3. w.coin.id \notin ids
    BY <1>7, <2>2 DEF InitializerInv, IdsInv, IdsAreKnown
  <2>4. \A c \in pieces : c.version = w.coin.version + 1 \/ c.id \in ids
    BY <1>4 DEF Pieces
  <2>5. w.coin.version \in Nat
    BY <1>1 DEF Coin
  <2> QED
    BY <2>3, <2>4, <2>5
<1>10. /\ rest \in InitializerRecord
       /\ new.pc = "split" /\ new.force = initializer[s].force
       /\ new.mode = initializer[s].mode
       /\ new.result = rest.result /\ new.work = rest.work \ {w}
  <2>1. /\ rest = [initializer[s] EXCEPT
              !.result = initializer[s].result \o Untasked(pieces),
              !.work = initializer[s].work \cup Tasked(pieces)]
        /\ rest \in InitializerRecord
    BY <1>5, <1>8, EnqueuedFields, EnqueueIsTyped DEF InitializerInv
  <2> QED
    BY <1>1, <1>6, <2>1 DEF At, InitializerRecord
<1>11. SUFFICES ASSUME initializer[s].force PROVE HasFound(new, available, ledger')
  <2>1. ~initializer[s].force => HasFound(new, available, ledger')
    BY <1>10 DEF HasFound
  <2> QED
    BY <1>7, <1>11, <2>1, OneIsFound DEF InitializerInv
<1>12. ASSUME NEW c \in ledger'
       PROVE  \/ c \in ToSet(available) \cup ToSet(new.result)
              \/ \E v \in new.work : v.coin = c
  <2>1. c # w.coin
    BY <1>7, <1>9
  <2>2. CASE \/ c \in pieces
             \/ c \in ToSet(initializer[s].result)
             \/ \E v \in initializer[s].work : v.coin = c
    <3>1. c \in ToSet(rest.result) \/ \E v \in rest.work : v.coin = c
      BY <1>5, <1>8, <2>2, EnqueuedCoinsAreFound DEF InitializerInv
    <3> QED
      BY <1>10, <2>1, <3>1
  <2>3. CASE c \in ToSet(available)
    BY <2>3
  <2>4. c \in pieces \/ c \in ledger
    BY <1>7
  <2> QED
    BY <1>11, <2>2, <2>3, <2>4 DEF HasFound, At
<1> QED
  BY <1>10, <1>11, <1>12 DEF HasFound

(* The split that is tried again has the coin that is there now. *)
LEMMA SplitErrFindsAll ==
  ASSUME InitializerInv, ResponsesGetLost = FALSE, fullnode = ledger,
         NEW s \in Stations,
         HasFound(initializer[s], available, ledger),
         At(s, "split"), UNCHANGED available,
         NEW w \in initializer[s].work, SplitErr(s, w)
  PROVE  HasFound(initializer'[s], available', ledger')
<1>1. UNCHANGED <<ledger, fullnode>>
  BY DEF SplitErr, chainVars
<1>2. initializer[s] \in InitializerRecord /\ InitializersTyped /\ w \in Work
  BY DEF InitializerInv, InitializersTyped, InitializerRecord
<1>3. PICK latest : latest = {c \in ledger : c.id = w.coin.id}
  OBVIOUS
<1>4. PICK again : again = {[w EXCEPT !.coin = c] : c \in latest}
  OBVIOUS
<1>5. CASE initializer' = [initializer EXCEPT ![s] =
             IF s \in up THEN [Down EXCEPT !.pc = "dead"] ELSE Down]
  <2>1. PICK new : new = IF s \in up THEN [Down EXCEPT !.pc = "dead"] ELSE Down
    OBVIOUS
  <2>2. HasFound(new, available', ledger')
    BY <2>1 DEF HasFound, Down
  <2> QED
    BY <1>2, <1>5, <2>1, <2>2, OneIsFound
<1>6. CASE initializer' = [initializer EXCEPT ![s].work = (@ \ {w}) \cup again]
  <2>1. PICK new : new = [initializer[s] EXCEPT !.work = (@ \ {w}) \cup again]
    OBVIOUS
  <2>2. initializer' = [initializer EXCEPT ![s] = new]
    BY <1>6, <2>1
  <2>3. /\ new.pc = "split" /\ new.force = initializer[s].force
        /\ new.mode = initializer[s].mode /\ new.result = initializer[s].result
        /\ new.work = (initializer[s].work \ {w}) \cup again
    BY <1>2, <2>1 DEF InitializerRecord, At
  <2>4. \A c \in ledger :
          (\E v \in initializer[s].work : v.coin = c) => \E v \in new.work : v.coin = c
    <3> SUFFICES ASSUME NEW c \in ledger, NEW v \in initializer[s].work, v.coin = c
                 PROVE  \E u \in new.work : u.coin = c
      OBVIOUS
    <3>1. CASE v = w
      <4>1. c \in latest
        BY <1>3, <3>1
      <4>2. PICK u : u = [w EXCEPT !.coin = c]
        OBVIOUS
      <4>3. u \in again /\ u.coin = c
        BY <1>2, <1>4, <4>1, <4>2 DEF Work
      <4> QED
        BY <2>3, <4>3
    <3> QED
      BY <2>3, <3>1
  <2>5. HasFound(new, available, ledger)
    BY <2>3, <2>4 DEF HasFound, At
  <2> QED
    BY <1>1, <1>2, <2>2, <2>5, OneIsFound
<1>7. latest = {c \in fullnode' : c.id = w.coin.id}
  BY <1>1, <1>3
<1> QED
  BY <1>4, <1>5, <1>6, <1>7 DEF SplitErr

LEMMA SplitFindsAll ==
  ASSUME InitializerInv, ResponsesGetLost = FALSE, fullnode = ledger,
         NEW s \in Stations,
         HasFound(initializer[s], available, ledger),
         Split(s)
  PROVE  HasFound(initializer'[s], available', ledger')
<1>1. At(s, "split") /\ UNCHANGED available
  BY DEF Split, registryVars, poolVars
<1>2. CASE initializer[s].work = {} /\ Moves(s, "add") /\ UNCHANGED chainVars
  <2>1. initializer[s] \in InitializerRecord /\ InitializersTyped
    BY DEF InitializerInv, InitializersTyped
  <2>2. PICK new : new = [initializer[s] EXCEPT !.pc = "add"]
    OBVIOUS
  <2>3. /\ new.pc = "add" /\ new.force = initializer[s].force
        /\ new.mode = initializer[s].mode /\ new.result = initializer[s].result
    BY <2>1, <2>2 DEF InitializerRecord
  <2>4. HasFound(new, available, ledger)
    BY <1>1, <1>2, <2>3 DEF HasFound, At
  <2>5. initializer' = [initializer EXCEPT ![s] = new]
    BY <1>2, <2>2 DEF Moves
  <2> QED
    BY <1>1, <1>2, <2>1, <2>4, <2>5, OneIsFound DEF chainVars
<1> QED
  BY <1>1, <1>2, SplitOkFindsAll, SplitErrFindsAll DEF Split, chainVars

(* What leaves the list of results is in the pool. *)
LEMMA AddChunkFindsAll ==
  ASSUME Typed, InitializersTyped, NEW s \in Stations,
         HasFound(initializer[s], available, ledger),
         AddChunk(s)
  PROVE  HasFound(initializer'[s], available', ledger')
<1>1. initializer[s] \in InitializerRecord /\ initializer[s].pc = "add"
  BY DEF InitializersTyped, AddChunk, At
<1>2. UNCHANGED ledger
  BY DEF AddChunk, ScriptOnly, chainVars
<1>3. PICK result \in Seq(Coin) : result = initializer[s].result
  BY <1>1 DEF InitializerRecord
<1>4. PICK n \in 0 .. Len(result) :
        n = IF Len(result) < ChunkSize THEN Len(result) ELSE ChunkSize
  BY InitializerAssumption
<1>5. PICK chunk, rest : /\ chunk = SubSeq(result, 1, n)
                         /\ rest = SubSeq(result, n + 1, Len(result))
  OBVIOUS
<1>6. chunk \in Seq(Coin) /\ rest \in Seq(Coin) /\ result = chunk \o rest
  BY <1>5, SplitAt
<1>7. initializer[s].force => ledger \subseteq ToSet(available) \cup ToSet(result)
  BY <1>1, <1>3 DEF HasFound
<1>8. CASE result = << >> /\ Moves(s, "unlock") /\ UNCHANGED registryVars
  <2>1. ToSet(result) = {} /\ UNCHANGED available
    BY <1>8 DEF ToSet, registryVars, poolVars
  <2>2. PICK new : new = [initializer[s] EXCEPT !.pc = "unlock"]
    OBVIOUS
  <2>3. /\ new.pc = "unlock" /\ new.force = initializer[s].force
        /\ new.mode = initializer[s].mode
    BY <1>1, <2>2 DEF InitializerRecord
  <2>4. HasFound(new, available, ledger)
    BY <1>7, <2>1, <2>3 DEF HasFound
  <2>5. initializer' = [initializer EXCEPT ![s] = new]
    BY <1>8, <2>2 DEF Moves
  <2> QED
    BY <1>2, <2>1, <2>4, <2>5, OneIsFound
<1>9. CASE /\ AddNewCoins(chunk)
           /\ initializer' = [initializer EXCEPT
                ![s].result = SubSeq(@, n + 1, Len(@))]
  <2>1. /\ available' = available \o chunk
        /\ available \in Seq(Coin)
    BY <1>9 DEF AddNewCoins, PushCoins, Typed, PoolTyped
  <2>2. /\ ToSet(available') = ToSet(available) \cup ToSet(chunk)
        /\ ToSet(result) = ToSet(chunk) \cup ToSet(rest)
    BY <1>6, <2>1, ConcatIsInjective
  <2>3. PICK new : new = [initializer[s] EXCEPT !.result = rest]
    OBVIOUS
  <2>4. /\ new.pc = "add" /\ new.force = initializer[s].force
        /\ new.mode = initializer[s].mode /\ new.result = rest
    BY <1>1, <2>3 DEF InitializerRecord
  <2>5. HasFound(new, available', ledger)
    BY <1>7, <2>2, <2>4 DEF HasFound
  <2>6. initializer' = [initializer EXCEPT ![s] = new]
    BY <1>3, <1>5, <1>9, <2>3
  <2> QED
    BY <1>2, <2>5, <2>6, OneIsFound
<1>10. CASE initializer' = [initializer EXCEPT ![s] =
              IF s \in up THEN [Down EXCEPT !.pc = "dead"] ELSE Down]
  <2>1. PICK new : new = IF s \in up THEN [Down EXCEPT !.pc = "dead"] ELSE Down
    OBVIOUS
  <2>2. HasFound(new, available', ledger')
    BY <2>1 DEF HasFound, Down
  <2> QED
    BY <1>10, <2>1, <2>2, OneIsFound
<1> QED
  BY <1>3, <1>4, <1>5, <1>8, <1>9, <1>10 DEF AddChunk

LEMMA StationKeepsFinds ==
  ASSUME InitializerInv, ResponsesGetLost = FALSE, fullnode = ledger,
         NEW s \in Stations,
         HasFound(initializer[s], available, ledger),
         Start(s) \/ InitializerStep(s) \/ WakeByTicker(s) \/ CrashAnywhere(s)
  PROVE  HasFound(initializer'[s], available', ledger')
<1>1. Typed /\ InitializersTyped
  BY DEF InitializerInv
<1>2. CASE Wake(s)
  BY <1>1, <1>2, ControlKeepsFinds
<1>3. CASE Scan(s)
  BY <1>1, <1>3, ScanFindsAll
<1>4. CASE Split(s)
  BY <1>4, SplitFindsAll
<1>5. CASE AddChunk(s)
  BY <1>1, <1>5, AddChunkFindsAll
<1> QED
  BY <1>1, <1>2, <1>3, <1>4, <1>5, ControlKeepsFinds
     DEF InitializerStep, WakeByTrigger, WakeByTicker

(* A station that has not got past its start touches neither the chain nor
   the pool. *)
LEMMA EarlyStationsTouchNothing ==
  ASSUME InitializerInv, NEW r \in Stations, initializer[r].pc \in {"down", "boot"},
         Start(r) \/ InitializerStep(r) \/ WakeByTicker(r) \/ CrashAnywhere(r)
  PROVE  UNCHANGED <<ledger, available>>
<1>1. Start(r) \/ CheckInitialized(r) \/ BeginMaintenance(r) \/ CrashAnywhere(r)
  BY DEF InitializerStep, CleanUp, ResetStats, AcquireLock, Scan, Split, AddChunk,
         ReleaseLock, EndMaintenance, WakeByTrigger, WakeByTicker, Wake, At
<1>2. r \notin up
  BY DEF InitializerInv, ServersAreStarted, RefreshPCs
<1> QED
  BY <1>1, <1>2
     DEF Start, InitCoinStats, CheckInitialized, BeginMaintenance,
         AcquireMaintenanceLock, CrashAnywhere, registryVars, poolVars, chainVars

LEMMA StationsLeaveOthers ==
  ASSUME InitializerInv, NEW r \in Stations, NEW s \in Stations \ {r},
         Start(r) \/ InitializerStep(r) \/ WakeByTicker(r) \/ CrashAnywhere(r)
  PROVE  initializer'[s] = initializer[s]
<1>1. /\ initializer \in [Stations -> InitializerRecord]
      /\ \A new : initializer' = [initializer EXCEPT ![r] = new]
                    => initializer'[s] = initializer[s]
  BY DEF InitializerInv, InitializersTyped
<1>2. \A pc : Moves(r, pc) => initializer'[s] = initializer[s]
  BY <1>1 DEF Moves
<1>3. CASE Split(r)
  <2>1. ASSUME NEW w \in initializer[r].work, SplitOk(r, w)
        PROVE  initializer'[s] = initializer[s]
    BY <1>1, <2>1 DEF SplitOk
  <2>2. ASSUME NEW w \in initializer[r].work, SplitErr(r, w)
        PROVE  initializer'[s] = initializer[s]
    BY <1>1, <2>2 DEF SplitErr
  <2> QED
    BY <1>2, <1>3, <2>1, <2>2 DEF Split
<1>4. CASE AddChunk(r)
  BY <1>1, <1>2, <1>4 DEF AddChunk
<1>5. CASE Scan(r)
  BY <1>1, <1>5 DEF Scan
<1> QED
  BY <1>1, <1>2, <1>3, <1>4, <1>5
     DEF Start, InitializerStep, CheckInitialized, BeginMaintenance, CleanUp,
         ResetStats, AcquireLock, LockRefused, ReleaseLock, EndMaintenance,
         WakeByTrigger, WakeByTicker, Wake, CrashAnywhere, Serve, Panic

(* Nobody serves beside a station that rescans alone. *)
LEMMA NobodyServesARescan ==
  ASSUME InitializerInv, sent = {}, RescansAlone,
         NEW s \in Stations, Rescanning(s), Serving
  PROVE  UNCHANGED <<ledger, available>>
<1>1. up = {}
  <2>1. \A r \in up : r \in Stations /\ initializer[r].pc \in RefreshPCs
                      /\ ~initializer[r].force
    BY DEF InitializerInv, Typed, ProcessesTyped, ServersAreStarted
  <2> QED
    BY <2>1 DEF RescansAlone, Rescanning, RefreshPCs
<1>2. FullnodeSyncs \/ TimePasses
  BY <1>1
     DEF Serving, LateCommit, ReserveGas, DebugCheckHealth, Reserve, StartExecution, TaskStep,
         QueryTotalBalance, ExecuteOk, ExecuteErr, QueryLatest, TriggerRescan,
         ReleaseCoins, UnlockStep, UnlockExpire, UnlockQuery, UnlockRelease
<1> QED
  BY <1>2
     DEF FullnodeSyncs, TimePasses, Tick, registryVars, poolVars, chainVars

LEMMA EarlyStationsHaveFound ==
  ASSUME NEW k, NEW pool, NEW chain,
         \/ ~k.force /\ k.pc # "end"
         \/ k.pc \in {"down", "boot"} /\ k.mode = "Init"
  PROVE  HasFound(k, pool, chain)
BY DEF HasFound

LEMMA StepsKeepFinds ==
  ASSUME InitializerInv, RescanInv, ResponsesGetLost = FALSE, sent = {},
         RescansAlone, DepositsWait, [InitializerNext]_allVars
  PROVE  RescanInv'
<1> SUFFICES ASSUME ~lagged'
             PROVE  /\ fullnode' = ledger'
                    /\ \A s \in Stations :
                         HasFound(initializer'[s], available', ledger')
  BY DEF RescanInv
<1>1. ~lagged /\ fullnode' = ledger'
  BY FullnodeStaysFaithful DEF RescanInv
<1>2. fullnode = ledger
  BY <1>1 DEF RescanInv
<1>3. SUFFICES ASSUME NEW s \in Stations
               PROVE  HasFound(initializer'[s], available', ledger')
  BY <1>1
<1>4. HasFound(initializer[s], available, ledger)
  BY <1>1 DEF RescanInv
<1>5. ASSUME initializer'[s] = initializer[s], ~Rescanning(s)
      PROVE  HasFound(initializer'[s], available', ledger')
  <2>1. \/ ~initializer[s].force /\ initializer[s].pc # "end"
        \/ initializer[s].pc \in {"down", "boot"} /\ initializer[s].mode = "Init"
    BY <1>4, <1>5 DEF Rescanning, HasFound
  <2> QED
    BY <1>5, <2>1, EarlyStationsHaveFound
<1>6. ASSUME initializer'[s] = initializer[s], UNCHANGED <<ledger, available>>
      PROVE  HasFound(initializer'[s], available', ledger')
  BY <1>3, <1>4, <1>6
<1>7. CASE Serving
  BY <1>5, <1>6, <1>7, NobodyServesARescan DEF Serving, initializerVars
<1>8. CASE Deposit
  <2>1. UNCHANGED initializer /\ deposits' = deposits + 1 /\ deposits < MaxDeposits
    BY <1>8 DEF Deposit
  <2>2. CASE ~Rescanning(s)
    BY <1>5, <2>1, <2>2
  <2> QED
    BY <1>3, <2>1, <2>2 DEF DepositsWait
<1>9. ASSUME NEW r \in Stations,
             Start(r) \/ InitializerStep(r) \/ WakeByTicker(r) \/ CrashAnywhere(r)
      PROVE  HasFound(initializer'[s], available', ledger')
  <2>1. CASE r = s
    BY <1>2, <1>3, <1>4, <1>9, <2>1, StationKeepsFinds
  <2>2. CASE r # s
    <3>1. initializer'[s] = initializer[s]
      BY <1>9, <2>2, StationsLeaveOthers
    <3>2. CASE Rescanning(s)
      <4>1. initializer[r].pc \in {"down", "boot"}
        BY <2>2, <3>2 DEF RescansAlone
      <4>2. UNCHANGED <<ledger, available>>
        BY <1>9, <4>1, EarlyStationsTouchNothing
      <4> QED
        BY <1>6, <3>1, <4>2
    <3> QED
      BY <1>5, <3>1, <3>2
  <2> QED
    BY <2>1, <2>2
<1>10. CASE UNCHANGED allVars
  BY <1>6, <1>10
     DEF allVars, vars, registryVars, poolVars, chainVars, initializerVars
<1> QED
  BY <1>7, <1>8, <1>9, <1>10 DEF InitializerNext

(* A full rescan finds every coin again, those that were lost in crashes or in
   the hands of clients included: at its end the whole ledger is in the pool,
   wherever processes crashed before and however often a rescan was cut short
   and repeated.  Assumed are that no other station works or serves meanwhile,
   that nobody sends coins meanwhile, a fullnode that shows the ledger, and
   transactions whose answers arrive (a split that is committed without an
   answer has pieces that nobody has in hand, and a payment that is committed
   after its process has stopped takes coins that were scanned before). *)
THEOREM FullRescanFindsEveryCoin ==
  ASSUME ResponsesGetLost = FALSE
  PROVE  InitializerSpec /\ []RescansAlone /\ [][DepositsWait]_allVars
           => [](~lagged => FullRescanRecoversAll)
<1> DEFINE Held == InitializerInv /\ RescanInv /\ sent = {}
<1>1. InitializerInit => Held
  <2>1. Down.pc = "down" /\ ~Down.force
    BY DEF Down
  <2>2. ASSUME InitializerInit PROVE RescanInv
    <3>1. \A s \in Stations : initializer[s] = Down
      BY <2>2 DEF InitializerInit
    <3> QED
      BY <2>1, <2>2, <3>1, EarlyStationsHaveFound DEF InitializerInit, RescanInv
  <2>3. InitializerInit => sent = {}
    BY DEF InitializerInit
  <2> QED
    BY <2>2, <2>3, InitializersStartTyped
<1>2. ASSUME Held, RescansAlone, [InitializerNext]_allVars, [DepositsWait]_allVars
      PROVE  Held'
  <2>1. DepositsWait
    BY <1>2 DEF allVars, initializerVars, DepositsWait
  <2> QED
    BY <1>2, <2>1, InitializerStepsKeepInv, StepsKeepFinds, NothingIsSentUnanswered
<1>3. Held => (~lagged => FullRescanRecoversAll)
  BY DEF RescanInv, HasFound, FullRescanRecoversAll, ToSet
<1> HIDE DEF Held
<1> QED
  BY <1>1, <1>2, <1>3, PTL DEF InitializerSpec

-----------------------------------------------------------------------------
(* No coin is forgotten.  From the scan of the first start on, a live coin is
   with somebody, or large enough for the next refresh to find it; before it,
   the registry is not initialized and nothing is served. *)
IsHeld(id) == \E h \in Custodians : id \in CustodyOf(h)

Remembered(c) == IsHeld(c.id) \/ c.balance >= OversizeThreshold

AllRemembered == \A c \in ledger : Remembered(c)

HasScanned(k) == k.pc \in {"split", "add", "unlock", "wait"} \/ k.mode = "Refresh"

SomebodyHasScanned == \E s \in Stations : HasScanned(initializer[s])

(* Who is idle has nothing to forget. *)
IdleHoldNothing ==
  /\ \A t \in Tasks : task[t].pc = "idle" => task[t].payment = << >>
  /\ \A s \in Stations : unlocker[s].pc = "idle" => unlocker[s].batch = {}

(* A task gives back coins of its payment, an unlock task all that are live of
   what has expired. *)
TasksGiveTheirOwn ==
  \A t \in Tasks : task[t].pc = "release" /\ ~KeepsAside(task[t]) =>
    ToSet(IdsOf(task[t].updated)) \subseteq TaskIds(task[t])

UnlockersGiveAll ==
  \A s \in Stations : unlocker[s].pc = "release" =>
    \A c \in ledger : c.id \in unlocker[s].batch =>
      c.id \in ToSet(IdsOf(unlocker[s].updated))

GiversInv == IdleHoldNothing /\ TasksGiveTheirOwn /\ UnlockersGiveAll

RememberInv ==
  /\ initialized \/ SomebodyHasScanned => AllRemembered
  /\ GiversInv

LEMMA HeldByKind ==
  ASSUME NEW id
  PROVE  /\ IsHeld(id) <=>
              \/ id \in ToSet(IdsOf(available))
              \/ \E r \in DOMAIN reservations : id \in ToSet(reservations[r])
              \/ \E t \in Tasks : id \in TaskCoins(task[t])
              \/ \E s \in Stations : id \in unlocker[s].batch
              \/ \E s \in Stations :
                   id \in WorkCoins(initializer[s].work, initializer[s].result)
         /\ IsHeld(id)' <=>
              \/ id \in ToSet(IdsOf(available'))
              \/ \E r \in DOMAIN reservations' : id \in ToSet(reservations'[r])
              \/ \E t \in Tasks : id \in TaskCoins(task'[t])
              \/ \E s \in Stations : id \in unlocker'[s].batch
              \/ \E s \in Stations :
                   id \in WorkCoins(initializer'[s].work, initializer'[s].result)
<1>1. ASSUME IsHeld(id)
      PROVE  \/ id \in ToSet(IdsOf(available))
             \/ \E r \in DOMAIN reservations : id \in ToSet(reservations[r])
             \/ \E t \in Tasks : id \in TaskCoins(task[t])
             \/ \E s \in Stations : id \in unlocker[s].batch
             \/ \E s \in Stations :
                  id \in WorkCoins(initializer[s].work, initializer[s].result)
  <2>1. PICK h \in Custodians : id \in CustodyOf(h)
    BY <1>1 DEF IsHeld
  <2> QED
    BY <2>1, KindsOfCustodians, CustodyByKind
<1>2. ASSUME IsHeld(id)'
      PROVE  \/ id \in ToSet(IdsOf(available'))
             \/ \E r \in DOMAIN reservations' : id \in ToSet(reservations'[r])
             \/ \E t \in Tasks : id \in TaskCoins(task'[t])
             \/ \E s \in Stations : id \in unlocker'[s].batch
             \/ \E s \in Stations :
                  id \in WorkCoins(initializer'[s].work, initializer'[s].result)
  <2>1. PICK h \in Custodians' : id \in CustodyOf(h)'
    BY <1>2 DEF IsHeld
  <2> QED
    BY <2>1, KindsOfCustodians, CustodyByKind
<1>3. \A h \in Custodians : id \in CustodyOf(h) => IsHeld(id)
  BY DEF IsHeld
<1>4. \A h \in Custodians' : id \in CustodyOf(h)' => IsHeld(id)'
  BY DEF IsHeld
<1>5. /\ <<"pool">> \in Custodians'
      /\ \A t \in Tasks : <<"task", t>> \in Custodians'
      /\ \A s \in Stations : <<"unlocker", s>> \in Custodians'
      /\ \A s \in Stations : <<"initializer", s>> \in Custodians'
  BY KindsOfCustodians
<1>6. /\ id \in ToSet(IdsOf(available)) => IsHeld(id)
      /\ id \in ToSet(IdsOf(available')) => IsHeld(id)'
  BY <1>3, <1>4, <1>5, KindsOfCustodians, CustodyByKind
<1>7. /\ \A r \in DOMAIN reservations : id \in ToSet(reservations[r]) => IsHeld(id)
      /\ \A r \in DOMAIN reservations' : id \in ToSet(reservations'[r]) => IsHeld(id)'
  <2>1. /\ \A r \in DOMAIN reservations : <<"reservation", r>> \in Custodians
        /\ \A r \in DOMAIN reservations' : <<"reservation", r>> \in Custodians'
    BY KindsOfCustodians
  <2> QED
    BY <1>3, <1>4, <2>1, CustodyByKind
<1>8. \A t \in Tasks : /\ id \in TaskCoins(task[t]) => IsHeld(id)
                       /\ id \in TaskCoins(task'[t]) => IsHeld(id)'
  BY <1>3, <1>4, <1>5, KindsOfCustodians, CustodyByKind
<1>9. \A s \in Stations : /\ id \in unlocker[s].batch => IsHeld(id)
                          /\ id \in unlocker'[s].batch => IsHeld(id)'
  BY <1>3, <1>4, <1>5, KindsOfCustodians, CustodyByKind
<1>10. \A s \in Stations :
         /\ id \in WorkCoins(initializer[s].work, initializer[s].result) => IsHeld(id)
         /\ id \in WorkCoins(initializer'[s].work, initializer'[s].result) => IsHeld(id)'
  BY <1>3, <1>4, <1>5, KindsOfCustodians, CustodyByKind
<1> QED
  BY <1>1, <1>2, <1>6, <1>7, <1>8, <1>9, <1>10

(* Coins that stay in the ledger and are held by somebody afterwards. *)
LEMMA HeldCoinsAreRemembered ==
  ASSUME AllRemembered, ledger' \subseteq ledger,
         \A c \in ledger : IsHeld(c.id) => IsHeld(c.id)'
  PROVE  AllRemembered'
BY DEF AllRemembered, Remembered

LEMMA StandingStillRemembers ==
  ASSUME AllRemembered, UNCHANGED <<available, reservations, task, unlocker, ledger>>,
         \A s \in Stations : /\ initializer'[s].work = initializer[s].work
                             /\ initializer'[s].result = initializer[s].result
  PROVE  AllRemembered'
<1>1. \A id : IsHeld(id) => IsHeld(id)'
  BY HeldByKind
<1> QED
  BY <1>1, HeldCoinsAreRemembered

LEMMA GiversStandStill ==
  ASSUME GiversInv, UNCHANGED <<task, unlocker>>, ledger' \subseteq ledger
  PROVE  GiversInv'
<1>1. IdleHoldNothing'
  BY DEF GiversInv, IdleHoldNothing
<1>2. TasksGiveTheirOwn'
  BY DEF GiversInv, TasksGiveTheirOwn
<1>3. UnlockersGiveAll'
  BY DEF GiversInv, UnlockersGiveAll
<1> QED
  BY <1>1, <1>2, <1>3 DEF GiversInv

(* A coin of the ledger that is new, or the same in a later version, is not
   with an unlock task. *)
LEMMA UnlockersStillGiveAll ==
  ASSUME UnlockersGiveAll, UNCHANGED unlocker,
         \A c \in ledger' : \/ c \in ledger
                            \/ \A s \in Stations : c.id \notin unlocker[s].batch
  PROVE  UnlockersGiveAll'
BY DEF UnlockersGiveAll

LEMMA ReserveRemembers ==
  ASSUME Typed, CustodyInv, UNCHANGED initializer,
         NEW budget \in Nat \ {0}, NEW duration, Reserve(budget, duration)
  PROVE  AllRemembered => AllRemembered'
<1>1. PICK id \in Nat : id = nextReservationId + 1
  BY DEF Typed, PoolTyped
<1>2. PICK n \in 1 .. Len(available), taken \in Seq(Coin) :
           /\ n = PoppedCoins(budget)
           /\ taken = SubSeq(available, 1, n)
           /\ Len(taken) = n
           /\ available = taken \o available'
           /\ available' \in Seq(Coin)
           /\ reservations' =
                [x \in DOMAIN reservations \cup {nextReservationId + 1} |->
                   IF x = nextReservationId + 1 THEN IdsOf(taken)
                   ELSE reservations[x]]
  BY GrantTakesTheFront DEF Reserve, Typed
<1>3. UNCHANGED <<ledger, task, unlocker>>
  BY DEF Reserve, chainVars, processVars
<1>4. PICK rest \in Seq(Coin) : rest = available'
  BY <1>2
<1>5. ToSet(IdsOf(available)) = ToSet(IdsOf(taken)) \cup ToSet(IdsOf(rest))
  <2>1. Poolable(available, ledger)
    BY KindsOfCustodians, SoundnessByKind DEF CustodyInv
  <2>2. available = taken \o rest
    BY <1>2, <1>4
  <2> QED
    BY <2>1, <2>2, PoolableHalves
<1>6. id \notin DOMAIN reservations
  BY <1>1 DEF Typed, PoolTyped
<1>7. /\ reservations'[id] = IdsOf(taken)
      /\ \A r \in DOMAIN reservations : reservations'[r] = reservations[r]
      /\ DOMAIN reservations' = DOMAIN reservations \cup {id}
  BY <1>1, <1>2, <1>6
<1>8. ASSUME NEW c, IsHeld(c) PROVE IsHeld(c)'
  <2>1. c \in ToSet(IdsOf(available)) => c \in ToSet(reservations'[id]) \/ c \in ToSet(IdsOf(available'))
    BY <1>4, <1>5, <1>7
  <2> QED
    BY <1>3, <1>7, <1>8, <2>1, HeldByKind
<1> QED
  BY <1>3, <1>8, HeldCoinsAreRemembered

LEMMA StartExecutionRemembers ==
  ASSUME Typed, GrantsMatch, GiversInv,
         UNCHANGED <<initializer, lostReplies>>, lostReplies = 0,
         NEW t \in Tasks, NEW g \in granted, StartExecution(t, g)
  PROVE  (AllRemembered => AllRemembered') /\ GiversInv'
<1>1. PICK r : r = g.reservation
  OBVIOUS
<1>2. /\ r \in DOMAIN reservations
      /\ reservations' = Restrict(reservations, DOMAIN reservations \ {r})
      /\ task[t].pc = "idle"
      /\ task' = [task EXCEPT ![t].pc = "query", ![t].payment = g.coins]
      /\ UNCHANGED <<available, unlocker, ledger>>
  BY <1>1 DEF StartExecution, ReadyForExecution, ReplyIsLost, poolVars, chainVars, Typed,
         ProcessesTyped
<1>3. /\ task'[t].payment = g.coins /\ task'[t].pc = "query"
      /\ \A u \in Tasks \ {t} : task'[u] = task[u]
  BY <1>2 DEF Typed, TasksTyped
<1>4. /\ DOMAIN reservations' = DOMAIN reservations \ {r}
      /\ \A q \in DOMAIN reservations' : reservations'[q] = reservations[q]
  BY <1>2 DEF Restrict
<1>5. TaskCoins(task'[t]) = ToSet(reservations[r])
  <2>1. TaskCoins(task'[t]) = {g.coins[i].id : i \in DOMAIN g.coins}
    BY <1>3 DEF TaskCoins, TaskIds
  <2> QED
    BY <1>1, <1>2, <2>1 DEF GrantsMatch
<1>6. TaskCoins(task[t]) = {}
  BY <1>2 DEF GiversInv, IdleHoldNothing, TaskCoins, TaskIds
<1>7. ASSUME NEW c, IsHeld(c) PROVE IsHeld(c)'
  <2>1. \A q \in DOMAIN reservations :
          c \in ToSet(reservations[q]) =>
            \/ q \in DOMAIN reservations' /\ c \in ToSet(reservations'[q])
            \/ c \in TaskCoins(task'[t])
    BY <1>4, <1>5
  <2>2. \A u \in Tasks : c \in TaskCoins(task[u]) => c \in TaskCoins(task'[u])
    BY <1>3, <1>6
  <2> QED
    BY <1>2, <1>7, <2>1, <2>2, HeldByKind
<1>8. AllRemembered => AllRemembered'
  BY <1>2, <1>7, HeldCoinsAreRemembered
<1>9. IdleHoldNothing'
  BY <1>2, <1>3 DEF GiversInv, IdleHoldNothing
<1>10. TasksGiveTheirOwn'
  BY <1>3 DEF GiversInv, TasksGiveTheirOwn
<1>11. UnlockersGiveAll'
  BY <1>2, UnlockersStillGiveAll DEF GiversInv
<1> QED
  BY <1>8, <1>9, <1>10, <1>11 DEF GiversInv

(* Steps of a task that change nobody else: what it holds it gives to nobody, or
   nothing is left of it. *)
LEMMA TaskGivers ==
  ASSUME GiversInv, UNCHANGED unlocker, NEW t \in Tasks,
         \A u \in Tasks \ {t} : task'[u] = task[u],
         task'[t].pc = "idle" => task'[t].payment = << >>,
         task'[t].pc = "release" /\ ~KeepsAside(task'[t]) =>
           ToSet(IdsOf(task'[t].updated)) \subseteq TaskIds(task'[t]),
         \A c \in ledger' : \/ c \in ledger
                            \/ \A s \in Stations : c.id \notin unlocker[s].batch
  PROVE  GiversInv'
<1>1. IdleHoldNothing'
  BY DEF GiversInv, IdleHoldNothing
<1>2. TasksGiveTheirOwn'
  <2> SUFFICES ASSUME NEW u \in Tasks, task'[u].pc = "release", ~KeepsAside(task'[u])
               PROVE  ToSet(IdsOf(task'[u].updated)) \subseteq TaskIds(task'[u])
    BY DEF TasksGiveTheirOwn, KeepsAside, TaskIds, IdsOf, ToSet, Oversized
  <2>1. CASE u = t
    BY <2>1
  <2>2. CASE u # t
    BY <2>2 DEF GiversInv, TasksGiveTheirOwn
  <2> QED
    BY <2>1, <2>2
<1>3. UnlockersGiveAll'
  BY UnlockersStillGiveAll DEF GiversInv
<1> QED
  BY <1>1, <1>2, <1>3 DEF GiversInv

LEMMA ReadingRemembers ==
  ASSUME Typed, ChainIsUnique, fullnode = ledger, CustodyInv, GiversInv,
         UNCHANGED initializer, ResponsesGetLost = FALSE, NEW t \in Tasks,
         \/ QueryTotalBalance(t) \/ ExecuteErr(t) \/ QueryLatest(t)
         \/ TriggerRescan(t)
  PROVE  (AllRemembered => AllRemembered') /\ GiversInv'
<1>1. /\ UNCHANGED <<available, reservations, unlocker, ledger>>
      /\ \A u \in Tasks \ {t} : task'[u] = task[u]
  BY DEF QueryTotalBalance, ExecuteErr, QueryLatest, TriggerRescan, registryVars,
         poolVars, reservationVars, chainVars, Typed, TasksTyped
<1>2. PICK next : next = task'[t]
  OBVIOUS
<1>3. /\ \A c \in ledger : c.id \in TaskCoins(task[t]) => c.id \in TaskCoins(next)
      /\ next.pc = "idle" => next.payment = << >>
      /\ next.pc = "release" /\ ~KeepsAside(next) =>
           ToSet(IdsOf(next.updated)) \subseteq TaskIds(next)
  <2>1. CASE QueryTotalBalance(t) \/ ExecuteErr(t)
    <3>1. /\ task[t].pc \in {"query", "execute"} /\ next.pc \in {"execute", "latest"}
          /\ next.payment = task[t].payment
      BY <1>2, <2>1 DEF QueryTotalBalance, ExecuteErr, Typed, TasksTyped
    <3> QED
      BY <3>1 DEF TaskCoins, TaskIds
  <2>2. CASE QueryLatest(t)
    <3>1. PICK coins \in SetToSeqs(LatestGasObjects(PaymentIds(t))) :
            task' = [task EXCEPT ![t].pc = "release", ![t].updated = coins]
      BY <2>2 DEF QueryLatest
    <3>2. /\ next.pc = "release" /\ next.updated = coins /\ task[t].pc = "latest"
          /\ next.payment = task[t].payment
      <4>1. next = [task[t] EXCEPT !.pc = "release", !.updated = coins]
        BY <1>2, <3>1 DEF Typed, TasksTyped
      <4> QED
        BY <2>2, <4>1 DEF QueryLatest, Typed, TasksTyped
    <3>3. TaskIds(task[t]) = PaymentIds(t) /\ TaskIds(next) = PaymentIds(t)
      BY <3>2 DEF TaskIds, PaymentIds
    <3>4. ArePoolable(PaymentIds(t), ledger)
      <4>1. IsSoundTask(task[t], ledger)
        BY KindsOfCustodians, SoundnessByKind DEF CustodyInv
      <4> QED
        BY <3>2, <3>3, <4>1 DEF IsSoundTask
    <3>5. /\ ToSet(IdsOf(coins)) \subseteq PaymentIds(t)
          /\ \A i \in DOMAIN coins : ~Oversized(coins[i])
      BY <3>4, LatestArePoolable DEF Typed
    <3>6. \A c \in LiveOf(PaymentIds(t)) : c.id \in ToSet(IdsOf(coins))
      <4>1. \A c \in LiveOf(PaymentIds(t)) : \E i \in DOMAIN coins : coins[i] = c
        BY LatestAreLive DEF Typed
      <4> QED
        BY <4>1 DEF IdsOf, ToSet
    <3>7. ~KeepsAside(next)
      BY <3>2, <3>5 DEF KeepsAside
    <3> QED
      BY <3>2, <3>3, <3>5, <3>6, <3>7 DEF TaskCoins, LiveOf
  <2>3. CASE TriggerRescan(t)
    <3>1. next = IdleTask /\ task[t].pc = "release" /\ KeepsAside(task[t])
      BY <1>2, <2>3 DEF TriggerRescan, Typed, TasksTyped, KeepsAside
    <3> QED
      BY <3>1 DEF IdleTask, TaskCoins
  <2> QED
    BY <2>1, <2>2, <2>3
<1>4. ASSUME NEW c \in ledger, IsHeld(c.id) PROVE IsHeld(c.id)'
  <2>1. \A u \in Tasks : c.id \in TaskCoins(task[u]) => c.id \in TaskCoins(task'[u])
    BY <1>1, <1>2, <1>3
  <2> QED
    BY <1>1, <1>4, <2>1, HeldByKind
<1>5. AllRemembered => AllRemembered'
  BY <1>1, <1>4, HeldCoinsAreRemembered
<1>6. GiversInv'
  BY <1>1, <1>2, <1>3, TaskGivers
<1> QED
  BY <1>5, <1>6

(* The gas coin is what is left of a payment: the task holds it, or puts it
   aside for the next refresh. *)
LEMMA ExecuteOkRemembers ==
  ASSUME Typed, Typed', ChainIsUnique, CustodyInv, GiversInv,
         UNCHANGED initializer, BalancesFit', NEW t \in Tasks, ExecuteOk(t)
  PROVE  (AllRemembered => AllRemembered') /\ GiversInv'
<1>1. /\ UNCHANGED <<available, reservations, unlocker>>
      /\ task[t].pc = "execute"
      /\ task[t].payment \in Payments
  BY TasksPay DEF ExecuteOk, registryVars, poolVars, reservationVars, Typed
<1>2. IsSoundTask(task[t], ledger)
  BY KindsOfCustodians, SoundnessByKind DEF CustodyInv
<1>3. PICK gas \in NetGas :
        /\ Commit(task[t].payment, gas)
        /\ task' = [task EXCEPT ![t].pc = "release",
                                ![t].updated = <<UpdatedCoin(t, gas)>>]
  BY DEF ExecuteOk
<1>4. PICK coin : coin = GasCoin(task[t].payment, gas)
  OBVIOUS
<1>5. PICK next : next = task'[t]
  OBVIOUS
<1>6. /\ next.pc = "release" /\ next.updated = <<coin>>
      /\ next.payment = task[t].payment
      /\ \A u \in Tasks \ {t} : task'[u] = task[u]
  BY <1>1, <1>2, <1>3, <1>4, <1>5, UpdatedCoinIsExact DEF Typed, TasksTyped
<1>7. /\ ledger' = (ledger \ PaidCoins(task[t].payment)) \cup {coin}
      /\ PaidCoins(task[t].payment) = {c \in ledger : c.id \in TaskIds(task[t])}
      /\ coin.id \in TaskIds(task[t])
      /\ coin.balance \in Nat
  <2>1. ledger' = (ledger \ PaidCoins(task[t].payment)) \cup {coin}
    BY <1>3, <1>4 DEF Commit
  <2>2. coin \in Coin
    BY <2>1 DEF Typed, ChainTyped
  <2> QED
    BY <1>1, <1>3, <1>4, <2>1, <2>2, CommitIsExact
       DEF Typed, LiveOf, PaidIds, TaskIds, Coin
<1>8. ToSet(IdsOf(<<coin>>)) = {coin.id}
  BY DEF IdsOf, ToSet
<1>9. TaskCoins(task[t]) = TaskIds(task[t]) /\ TaskIds(next) = TaskIds(task[t])
  BY <1>1, <1>6 DEF TaskCoins, TaskIds
<1>10. ASSUME AllRemembered, NEW c \in ledger' PROVE Remembered(c)'
  <2>1. CASE c = coin
    <3>1. CASE KeepsAside(next)
      <4>1. coin.balance >= OversizeThreshold
        BY <1>6, <1>7, <3>1, GasStationAssumption DEF KeepsAside, Oversized
      <4> QED
        BY <2>1, <4>1 DEF Remembered
    <3>2. CASE ~KeepsAside(next)
      <4>1. coin.id \in TaskCoins(task'[t])
        BY <1>5, <1>6, <1>8, <3>2 DEF TaskCoins
      <4>2. IsHeld(coin.id)'
        BY <4>1, HeldByKind
      <4> QED
        BY <2>1, <4>2 DEF Remembered
    <3> QED
      BY <3>1, <3>2
  <2>2. CASE c # coin
    <3>1. c \in ledger /\ c.id \notin TaskCoins(task[t])
      BY <1>7, <1>9, <2>2
    <3>2. \A u \in Tasks : c.id \in TaskCoins(task[u]) => c.id \in TaskCoins(task'[u])
      BY <1>6, <3>1
    <3>3. IsHeld(c.id) => IsHeld(c.id)'
      BY <1>1, <3>2, HeldByKind
    <3> QED
      BY <1>10, <3>1, <3>3 DEF AllRemembered, Remembered
  <2> QED
    BY <2>1, <2>2
<1>11. \A s \in Stations : coin.id \notin unlocker[s].batch
  <2> SUFFICES ASSUME NEW s \in Stations, coin.id \in unlocker[s].batch PROVE FALSE
    OBVIOUS
  <2>1. PICK g, h : g = <<"task", t>> /\ h = <<"unlocker", s>>
    OBVIOUS
  <2>2. g \in Custodians /\ h \in Custodians /\ g # h
    BY <2>1, KindsOfCustodians
  <2>3. coin.id \in CustodyOf(g) /\ coin.id \in CustodyOf(h)
    BY <1>7, <1>9, <2>1, CustodyByKind
  <2> QED
    BY <2>2, <2>3 DEF CustodyInv
<1>12. GiversInv'
  <2>1. ToSet(IdsOf(next.updated)) \subseteq TaskIds(next)
    BY <1>6, <1>7, <1>8, <1>9
  <2>2. \A c \in ledger' : \/ c \in ledger
                           \/ \A s \in Stations : c.id \notin unlocker[s].batch
    BY <1>7, <1>11
  <2> QED
    BY <1>1, <1>5, <1>6, <2>1, <2>2, TaskGivers
<1> QED
  BY <1>10, <1>12 DEF AllRemembered

(* The ids of a list and of another that is put behind it. *)
LEMMA IdsOfBoth ==
  ASSUME NEW s \in Seq(Coin), NEW t \in Seq(Coin)
  PROVE  ToSet(IdsOf(s \o t)) = ToSet(IdsOf(s)) \cup ToSet(IdsOf(t))
<1>1. /\ IdsOf(s) \in Seq(CoinIds) /\ IdsOf(t) \in Seq(CoinIds)
      /\ IdsOf(s \o t) = IdsOf(s) \o IdsOf(t)
  BY IdsOfProperties, IdsOfConcat
<1> QED
  BY <1>1, ConcatIsInjective

LEMMA ReleaseRemembers ==
  ASSUME Typed, GiversInv, UNCHANGED <<initializer, lostReplies>>,
         lostReplies = 0, availableTotal # Absent, NEW t \in Tasks, ReleaseCoins(t)
  PROVE  (AllRemembered => AllRemembered') /\ GiversInv'
<1>1. /\ task[t].pc = "release" /\ ~KeepsAside(task[t])
      /\ AddNewCoins(task[t].updated)
      /\ task' = [task EXCEPT ![t] = IdleTask]
      /\ UNCHANGED <<unlocker, ledger>>
  BY DEF ReleaseCoins, AddNewCoinsFailed, ReplyIsLost, ReplyArrives, KeepsAside,
         chainVars, Typed, ProcessesTyped
<1>2. PICK coins \in Seq(Coin) : coins = task[t].updated
  BY DEF Typed, TasksTyped
<1>3. /\ available \in Seq(Coin)
      /\ available' = available \o coins /\ UNCHANGED reservations
  BY <1>1, <1>2 DEF AddNewCoins, PushCoins, reservationVars, Typed, PoolTyped
<1>4. task'[t] = IdleTask /\ \A u \in Tasks \ {t} : task'[u] = task[u]
  BY <1>1 DEF Typed, TasksTyped
<1>5. ToSet(IdsOf(available')) = ToSet(IdsOf(available)) \cup TaskCoins(task[t])
  BY <1>1, <1>2, <1>3, IdsOfBoth DEF TaskCoins
<1>6. ASSUME NEW c, IsHeld(c) PROVE IsHeld(c)'
  <2>1. \A u \in Tasks : c \in TaskCoins(task[u]) =>
          c \in TaskCoins(task'[u]) \/ c \in ToSet(IdsOf(available'))
    BY <1>4, <1>5
  <2> QED
    BY <1>1, <1>3, <1>5, <1>6, <2>1, HeldByKind
<1>7. AllRemembered => AllRemembered'
  BY <1>1, <1>6, HeldCoinsAreRemembered
<1>8. GiversInv'
  BY <1>1, <1>4, TaskGivers DEF IdleTask
<1> QED
  BY <1>7, <1>8

LEMMA ExpiryRemembers ==
  ASSUME Typed, GiversInv, UNCHANGED <<initializer, lostReplies>>,
         lostReplies = 0, NEW s \in Stations, UnlockExpire(s)
  PROVE  (AllRemembered => AllRemembered') /\ GiversInv'
<1>1. PICK ids : ids = UNION {ToSet(reservations[r]) : r \in ExpiredReservations}
  OBVIOUS
<1>2. /\ unlocker[s].pc = "idle"
      /\ reservations' = Restrict(reservations, DOMAIN reservations \ DueReservations)
      /\ unlocker' = IF ids = {} THEN unlocker
                     ELSE [unlocker EXCEPT ![s].pc = "latest", ![s].batch = ids]
      /\ UNCHANGED <<available, task, ledger>>
  BY <1>1 DEF UnlockExpire, ExpireCoins, ReplyIsLost, ReplyArrives, poolVars, chainVars,
              Typed, ProcessesTyped
<1>3. /\ DOMAIN reservations' = DOMAIN reservations \ DueReservations
      /\ \A r \in DOMAIN reservations' : reservations'[r] = reservations[r]
  BY <1>2 DEF Restrict
<1>4. unlocker[s].batch = {}
  BY <1>2 DEF GiversInv, IdleHoldNothing
<1>5. /\ \A u \in Stations \ {s} : unlocker'[u] = unlocker[u]
      /\ \/ unlocker'[s] = unlocker[s] /\ ids = {}
         \/ unlocker'[s].pc = "latest" /\ unlocker'[s].batch = ids
  BY <1>2 DEF Typed, UnlockersTyped
<1>6. ids \subseteq unlocker'[s].batch
  BY <1>5
<1>7. ASSUME NEW c, IsHeld(c) PROVE IsHeld(c)'
  <2>1. \A r \in DOMAIN reservations : c \in ToSet(reservations[r]) =>
          \/ r \in DOMAIN reservations' /\ c \in ToSet(reservations'[r])
          \/ c \in unlocker'[s].batch
    <3> TAKE r \in DOMAIN reservations
    <3>1. CASE r \in DueReservations
      <4>1. r \in ExpiredReservations
        BY <3>1 DEF ExpiredReservations
      <4> QED
        BY <1>1, <1>6, <4>1
    <3>2. CASE r \notin DueReservations
      BY <1>3, <3>2
    <3> QED
      BY <3>1, <3>2
  <2>2. \A u \in Stations : c \in unlocker[u].batch => c \in unlocker'[u].batch
    BY <1>4, <1>5
  <2> QED
    BY <1>2, <1>7, <2>1, <2>2, HeldByKind
<1>8. AllRemembered => AllRemembered'
  BY <1>2, <1>7, HeldCoinsAreRemembered
<1>9. IdleHoldNothing' /\ TasksGiveTheirOwn' /\ UnlockersGiveAll'
  <2>1. IdleHoldNothing'
    BY <1>2, <1>4, <1>5 DEF GiversInv, IdleHoldNothing
  <2>2. TasksGiveTheirOwn'
    BY <1>2 DEF GiversInv, TasksGiveTheirOwn
  <2>3. UnlockersGiveAll'
    BY <1>2, <1>5 DEF GiversInv, UnlockersGiveAll
  <2> QED
    BY <2>1, <2>2, <2>3
<1> QED
  BY <1>8, <1>9 DEF GiversInv

LEMMA UnlockersRemember ==
  ASSUME Typed, ChainIsUnique, fullnode = ledger, GiversInv,
         UNCHANGED <<initializer, lostReplies>>, lostReplies = 0,
         availableTotal # Absent, NEW s \in Stations,
         UnlockQuery(s) \/ UnlockRelease(s)
  PROVE  (AllRemembered => AllRemembered') /\ GiversInv'
<1>1. /\ UNCHANGED <<reservations, task, ledger>>
      /\ \A r \in Stations \ {s} : unlocker'[r] = unlocker[r]
  BY DEF UnlockQuery, UnlockRelease, AddNewCoins, AddNewCoinsFailed, PushCoins,
         registryVars, reservationVars, chainVars, Typed, UnlockersTyped
<1>2. PICK next : next = unlocker'[s]
  OBVIOUS
<1>3. /\ next.pc = "idle" => next.batch = {}
      /\ next.pc = "release" =>
           \A c \in ledger : c.id \in next.batch => c.id \in ToSet(IdsOf(next.updated))
      /\ ToSet(IdsOf(available)) \subseteq ToSet(IdsOf(available'))
      /\ \A c \in ledger : c.id \in unlocker[s].batch =>
           c.id \in next.batch \/ c.id \in ToSet(IdsOf(available'))
  <2>1. CASE UnlockQuery(s)
    <3>1. PICK coins \in SetToSeqs(LatestGasObjects(unlocker[s].batch)) :
            unlocker' = [unlocker EXCEPT ![s].pc = "release", ![s].updated = coins]
      BY <2>1 DEF UnlockQuery
    <3>2. /\ next.batch = unlocker[s].batch /\ next.updated = coins
          /\ next.pc = "release"
      BY <1>2, <3>1 DEF Typed, UnlockersTyped
    <3>3. \A c \in ledger : c.id \in next.batch => c.id \in ToSet(IdsOf(coins))
      <4>1. \A c \in LiveOf(unlocker[s].batch) : \E i \in DOMAIN coins : coins[i] = c
        BY LatestAreLive DEF Typed
      <4> QED
        BY <3>2, <4>1 DEF IdsOf, ToSet, LiveOf
    <3>4. available' = available
      BY <2>1 DEF UnlockQuery, registryVars, poolVars
    <3> QED
      BY <3>2, <3>3, <3>4
  <2>2. CASE UnlockRelease(s)
    <3>1. /\ unlocker[s].pc = "release"
          /\ AddNewCoins(unlocker[s].updated)
          /\ unlocker' = [unlocker EXCEPT ![s] = IdleUnlocker]
      BY <2>2 DEF UnlockRelease, AddNewCoinsFailed, ReplyIsLost, ReplyArrives,
                  Typed, ProcessesTyped
    <3>2. PICK coins \in Seq(Coin) : coins = unlocker[s].updated
      BY DEF Typed, UnlockersTyped
    <3>3. available \in Seq(Coin) /\ available' = available \o coins
      BY <3>1, <3>2 DEF AddNewCoins, PushCoins, Typed, PoolTyped
    <3>4. ToSet(IdsOf(available')) = ToSet(IdsOf(available)) \cup ToSet(IdsOf(coins))
      BY <3>3, IdsOfBoth
    <3>5. next = IdleUnlocker
      BY <1>2, <3>1 DEF Typed, UnlockersTyped
    <3>6. \A c \in ledger : c.id \in unlocker[s].batch => c.id \in ToSet(IdsOf(coins))
      BY <3>1, <3>2 DEF GiversInv, UnlockersGiveAll
    <3> QED
      BY <3>4, <3>5, <3>6 DEF IdleUnlocker
  <2> QED
    BY <2>1, <2>2
<1>4. ASSUME NEW c \in ledger, IsHeld(c.id) PROVE IsHeld(c.id)'
  <2>1. \A r \in Stations : c.id \in unlocker[r].batch =>
          c.id \in unlocker'[r].batch \/ c.id \in ToSet(IdsOf(available'))
    BY <1>1, <1>2, <1>3
  <2> QED
    BY <1>1, <1>3, <1>4, <2>1, HeldByKind
<1>5. AllRemembered => AllRemembered'
  BY <1>1, <1>4, HeldCoinsAreRemembered
<1>6. IdleHoldNothing' /\ TasksGiveTheirOwn' /\ UnlockersGiveAll'
  <2>1. IdleHoldNothing'
    BY <1>1, <1>2, <1>3 DEF GiversInv, IdleHoldNothing
  <2>2. TasksGiveTheirOwn'
    BY <1>1 DEF GiversInv, TasksGiveTheirOwn
  <2>3. UnlockersGiveAll'
    BY <1>1, <1>2, <1>3 DEF GiversInv, UnlockersGiveAll
  <2> QED
    BY <2>1, <2>2, <2>3
<1> QED
  BY <1>5, <1>6 DEF GiversInv

LEMMA ServingStaysUninitialized ==
  ASSUME SoleInv, ~initialized, Serving
  PROVE  ~initialized'
<1>1. NothingIsServed /\ Typed
  BY DEF SoleInv, InitializerInv
<1>2. ASSUME NEW budget \in Nat \ {0}, NEW duration, Reserve(budget, duration)
      PROVE  FALSE
  <2>1. \E n \in 1 .. Len(available) : TRUE
    BY <1>1, <1>2, GrantTakesTheFront DEF Reserve, Typed
  <2> QED
    BY <1>1, <2>1 DEF NothingIsServed
<1>3. ~ \E b \in Budgets, d \in Durations : ReserveGas(b, d)
  BY <1>2, GasStationAssumption DEF ReserveGas, ValidRequest
<1>4. ~DebugCheckHealth
  BY <1>2, GasStationAssumption DEF DebugCheckHealth
<1>5. ASSUME NEW t \in Tasks PROVE ~TaskStep(t)
  <2>1. task[t].pc = "idle"
    BY <1>1 DEF NothingIsServed, IdleTask
  <2> QED
    BY <2>1
       DEF TaskStep, QueryTotalBalance, ExecuteOk, ExecuteErr, QueryLatest,
           TriggerRescan, ReleaseCoins
<1>6. ASSUME NEW s \in Stations, UnlockStep(s) PROVE ~initialized'
  <2>1. unlocker[s].pc = "idle"
    BY <1>1 DEF NothingIsServed, IdleUnlocker
  <2>2. UnlockExpire(s)
    BY <1>6, <2>1 DEF UnlockStep, UnlockQuery, UnlockRelease
  <2> QED
    BY <2>2 DEF UnlockExpire, ExpireCoins
<1>7. CASE FullnodeSyncs \/ TimePasses
  BY <1>7 DEF FullnodeSyncs, TimePasses, Tick, registryVars
<1> QED
  BY <1>1, <1>3, <1>4, <1>5, <1>6, <1>7 DEF Serving, NothingIsServed, SoleInv

(* A step forgets no coin. *)
StillRemembers == (AllRemembered => AllRemembered') /\ GiversInv'

LEMMA ServingRemembers ==
  ASSUME ResponsesGetLost = FALSE, SoleInv, Typed', RememberInv,
         lostReplies = 0, lostReplies' = 0, BalancesFit', Serving
  PROVE  RememberInv'
<1>1. /\ fullnode = ledger /\ CustodyInv /\ Typed /\ InitializersTyped
      /\ ChainIsUnique /\ GrantsMatch /\ ServersAreStarted /\ GiversInv
  BY DEF SoleInv, InitializerInv, IdsInv, GrantsInv, RememberInv
<1>2. UNCHANGED <<initializer, lostReplies>>
  BY DEF Serving, initializerVars
<1>3. up # {} => availableTotal # Absent
  <2>1. \A s \in up : s \in Stations /\ ~At(s, "down")
    BY <1>1 DEF ServersAreStarted, At, RefreshPCs, Typed, ProcessesTyped
  <2> QED
    BY <2>1, ConstantsAssumption DEF SoleInv, TotalIsThere
<1>4. ASSUME NEW budget \in Nat \ {0}, NEW duration, Reserve(budget, duration)
      PROVE  StillRemembers
  <2>1. UNCHANGED <<task, unlocker, ledger>>
    BY <1>4 DEF Reserve, chainVars, processVars
  <2> QED
    BY <1>1, <1>2, <1>4, <2>1, ReserveRemembers, GiversStandStill
       DEF StillRemembers
<1>5. ASSUME NEW b \in Budgets, NEW d \in Durations, ReserveGas(b, d)
      PROVE  StillRemembers
  <2>1. b \in Nat \ {0}
    BY <1>5, GasStationAssumption DEF ReserveGas, ValidRequest
  <2> QED
    BY <1>4, <1>5, <2>1 DEF ReserveGas
<1>6. ASSUME DebugCheckHealth PROVE StillRemembers
  <2>1. HealthBudget \in Nat \ {0}
    BY GasStationAssumption
  <2> QED
    BY <1>4, <1>6, <2>1 DEF DebugCheckHealth
<1>7. ASSUME NEW t \in Tasks, NEW grant \in granted, StartExecution(t, grant)
      PROVE  StillRemembers
  BY <1>1, <1>2, <1>7, StartExecutionRemembers DEF StillRemembers
<1>8. ASSUME NEW t \in Tasks, TaskStep(t) PROVE StillRemembers
  <2>1. CASE ExecuteOk(t)
    BY <1>1, <1>2, <2>1, ExecuteOkRemembers DEF StillRemembers
  <2>2. CASE ReleaseCoins(t)
    <3>1. availableTotal # Absent
      BY <1>3, <2>2 DEF ReleaseCoins
    <3> QED
      BY <1>1, <1>2, <2>2, <3>1, ReleaseRemembers DEF StillRemembers
  <2> QED
    BY <1>1, <1>2, <1>8, <2>1, <2>2, ReadingRemembers
       DEF TaskStep, StillRemembers
<1>9. ASSUME NEW s \in Stations, UnlockStep(s) PROVE StillRemembers
  <2>1. availableTotal # Absent
    BY <1>3, <1>9 DEF UnlockStep, UnlockExpire, UnlockQuery, UnlockRelease
  <2> QED
    BY <1>1, <1>2, <1>9, <2>1, ExpiryRemembers, UnlockersRemember
       DEF UnlockStep, StillRemembers
<1>10. ASSUME FullnodeSyncs \/ TimePasses PROVE StillRemembers
  <2>1. UNCHANGED <<available, reservations, task, unlocker, ledger>>
    BY <1>10
       DEF FullnodeSyncs, TimePasses, Tick, registryVars, poolVars,
           reservationVars, chainVars, processVars
  <2> QED
    BY <1>1, <1>2, <2>1, StandingStillRemembers, GiversStandStill
       DEF StillRemembers
<1>11. StillRemembers
  BY <1>5, <1>6, <1>7, <1>8, <1>9, <1>10 DEF Serving, SoleInv
<1>12. SomebodyHasScanned' => SomebodyHasScanned
  BY <1>2 DEF SomebodyHasScanned, HasScanned
<1>13. initialized' => initialized
  BY ServingStaysUninitialized
<1> QED
  BY <1>11, <1>12, <1>13 DEF StillRemembers, RememberInv

-----------------------------------------------------------------------------
(* The steps of a station.  What it had in hand it has still, or it is in the
   pool. *)
LEMMA IdsOfMembers ==
  ASSUME NEW coins, NEW c \in ToSet(coins)
  PROVE  c.id \in ToSet(IdsOf(coins))
BY DEF ToSet, IdsOf

LEMMA StationKeepsHold ==
  ASSUME InitializersTyped, UNCHANGED <<reservations, task, unlocker>>,
         ToSet(IdsOf(available)) \subseteq ToSet(IdsOf(available')),
         NEW s \in Stations, NEW new,
         initializer' = [initializer EXCEPT ![s] = new],
         NEW id, IsHeld(id),
         id \in WorkCoins(initializer[s].work, initializer[s].result) =>
           id \in WorkCoins(new.work, new.result) \cup ToSet(IdsOf(available'))
  PROVE  IsHeld(id)'
<1>1. initializer'[s] = new /\ \A r \in Stations \ {s} : initializer'[r] = initializer[r]
  BY DEF InitializersTyped
<1>2. \A r \in Stations :
        id \in WorkCoins(initializer[r].work, initializer[r].result) =>
          \/ id \in WorkCoins(initializer'[r].work, initializer'[r].result)
          \/ id \in ToSet(IdsOf(available'))
  BY <1>1
<1> QED
  BY <1>2, HeldByKind

LEMMA StationHolds ==
  ASSUME InitializersTyped, NEW s \in Stations, NEW new,
         initializer' = [initializer EXCEPT ![s] = new],
         NEW id \in WorkCoins(new.work, new.result)
  PROVE  IsHeld(id)'
<1>1. initializer'[s] = new
  BY DEF InitializersTyped
<1> QED
  BY <1>1, HeldByKind

(* Who has not scanned yet does not become one who has. *)
LEMMA OneHasScanned ==
  ASSUME InitializersTyped, initialized \/ SomebodyHasScanned => AllRemembered,
         NEW s \in Stations, NEW new,
         initializer' = [initializer EXCEPT ![s] = new],
         initialized' => initialized \/ HasScanned(initializer[s]),
         HasScanned(new) => initialized \/ HasScanned(initializer[s]),
         AllRemembered => AllRemembered'
  PROVE  initialized' \/ SomebodyHasScanned' => AllRemembered'
<1>1. initializer'[s] = new /\ \A r \in Stations \ {s} : initializer'[r] = initializer[r]
  BY DEF InitializersTyped
<1>2. SomebodyHasScanned' => SomebodyHasScanned \/ initialized
  <2> SUFFICES ASSUME NEW r \in Stations, HasScanned(initializer[r])'
               PROVE  SomebodyHasScanned \/ initialized
    BY DEF SomebodyHasScanned
  <2>1. CASE r = s
    <3>1. HasScanned(new)
      BY <1>1, <2>1 DEF HasScanned
    <3> QED
      BY <3>1 DEF SomebodyHasScanned
  <2>2. CASE r # s
    <3>1. HasScanned(initializer[r])
      BY <1>1, <2>2 DEF HasScanned
    <3> QED
      BY <3>1 DEF SomebodyHasScanned
  <2> QED
    BY <2>1, <2>2
<1>3. initialized' => SomebodyHasScanned \/ initialized
  BY DEF SomebodyHasScanned
<1> QED
  BY <1>2, <1>3

(* Steps of a station that holds no coin, or takes none and gives none. *)
LEMMA ControlRemembers ==
  ASSUME RememberInv, InitializersTyped, StagesInv, NEW s \in Stations,
         \/ Start(s) \/ CheckInitialized(s) \/ BeginMaintenance(s)
         \/ CleanUp(s) \/ ResetStats(s) \/ AcquireLock(s)
         \/ ReleaseLock(s) \/ EndMaintenance(s) \/ Wake(s)
  PROVE  RememberInv'
<1>1. ~(BeginMaintenance(s) \/ CleanUp(s) \/ ResetStats(s) \/ EndMaintenance(s))
  BY DEF StagesInv, BeginMaintenance, CleanUp, ResetStats, EndMaintenance, At
<1>2. UNCHANGED <<available, reservations, task, unlocker, ledger, initialized>>
  BY <1>1
     DEF Start, CheckInitialized, AcquireLock, ReleaseLock, Wake, InitCoinStats,
         AcquireInitLock, ReleaseInitLock, Serve, LockRefused, ScriptOnly, Moves,
         registryVars, poolVars, reservationVars, chainVars, processVars
<1>3. GiversInv'
  BY <1>2, GiversStandStill DEF RememberInv
<1>4. /\ initialized \/ SomebodyHasScanned => AllRemembered
      /\ initializer[s] \in InitializerRecord
  BY DEF RememberInv, InitializersTyped
<1>5. initializer[s].pc \notin {"split", "add"} =>
        WorkCoins(initializer[s].work, initializer[s].result) = {}
  <2>1. ToSet(IdsOf(<< >>)) = {}
    BY DEF ToSet, IdsOf
  <2>2. initializer[s].pc \notin {"split", "add"} =>
          initializer[s].work = {} /\ initializer[s].result = << >>
    BY DEF StagesInv
  <2> QED
    BY <2>1, <2>2 DEF WorkCoins
<1>6. ASSUME NEW new, initializer' = [initializer EXCEPT ![s] = new],
             \/ initializer[s].pc \notin {"split", "add"}
             \/ new.work = initializer[s].work /\ new.result = initializer[s].result,
             HasScanned(new) => initialized \/ HasScanned(initializer[s])
      PROVE  RememberInv'
  <2>1. \A id : id \in WorkCoins(initializer[s].work, initializer[s].result) =>
                  id \in WorkCoins(new.work, new.result)
    BY <1>5, <1>6
  <2>2. \A id : IsHeld(id) => IsHeld(id)'
    BY <1>2, <1>6, <2>1, StationKeepsHold
  <2>3. AllRemembered => AllRemembered'
    BY <1>2, <2>2, HeldCoinsAreRemembered
  <2> QED
    BY <1>2, <1>3, <1>4, <1>6, <2>3, OneHasScanned DEF RememberInv
<1>7. CASE Start(s)
  <2>1. PICK force : initializer' = [initializer EXCEPT
               ![s] = [Down EXCEPT !.pc = "boot", !.force = force]]
    BY <1>7 DEF Start
  <2>2. PICK new : new = [Down EXCEPT !.pc = "boot", !.force = force]
    OBVIOUS
  <2>3. ~HasScanned(new)
    BY <2>2 DEF Down, HasScanned
  <2>4. initializer[s].pc \notin {"split", "add"}
    BY <1>7 DEF Start, At
  <2> QED
    BY <1>6, <2>1, <2>2, <2>3, <2>4
<1>8. CASE Wake(s)
  <2>1. PICK new : new = [Down EXCEPT !.pc = "lock", !.mode = "Refresh"]
    OBVIOUS
  <2>2. initializer[s].pc = "wait"
    BY <1>8 DEF Wake, At
  <2>3. initializer' = [initializer EXCEPT ![s] = new]
    BY <1>8, <2>1 DEF Wake
  <2> QED
    BY <1>6, <2>2, <2>3 DEF HasScanned
<1>9. ASSUME Serve(s), initializer[s].pc \notin {"split", "add"},
             initialized \/ HasScanned(initializer[s])
      PROVE  RememberInv'
  <2>1. PICK new : new = [Down EXCEPT !.pc = "wait"]
    OBVIOUS
  <2>2. initializer' = [initializer EXCEPT ![s] = new]
    BY <1>9, <2>1 DEF Serve
  <2> QED
    BY <1>6, <1>9, <2>2
<1>10. ASSUME NEW pc \in {"lock", "scan", "wait", "fail", "end"}, Moves(s, pc),
              pc = "wait" => HasScanned(initializer[s])
       PROVE  RememberInv'
  <2>1. PICK new : new = [initializer[s] EXCEPT !.pc = pc]
    OBVIOUS
  <2>2. /\ new.work = initializer[s].work /\ new.result = initializer[s].result
        /\ new.pc = pc /\ new.mode = initializer[s].mode
    BY <1>4, <2>1 DEF InitializerRecord
  <2>3. initializer' = [initializer EXCEPT ![s] = new]
    BY <1>10, <2>1 DEF Moves
  <2>4. HasScanned(new) => HasScanned(initializer[s])
    BY <1>10, <2>2 DEF HasScanned
  <2> QED
    BY <1>6, <2>2, <2>3, <2>4
<1>11. ASSUME initializer' = [initializer EXCEPT ![s] = Down],
              initializer[s].pc \notin {"split", "add"}
       PROVE  RememberInv'
  <2>1. ~HasScanned(Down)
    BY DEF HasScanned, Down
  <2> QED
    BY <1>6, <1>11, <2>1
<1>12. CASE CheckInitialized(s)
  BY <1>9, <1>10, <1>12 DEF CheckInitialized, At
<1>13. CASE AcquireLock(s)
  BY <1>10, <1>11, <1>13 DEF AcquireLock, LockRefused, At, HasScanned
<1>14. CASE ReleaseLock(s)
  BY <1>9, <1>10, <1>14 DEF ReleaseLock, At, HasScanned
<1> QED
  BY <1>1, <1>7, <1>8, <1>12, <1>13, <1>14

(* enqueue_task loses none of the coins it is given, and none it had. *)
LEMMA EnqueueHolds ==
  ASSUME InitializersTyped, NEW s \in Stations,
         NEW coins, IsFiniteSet(coins), coins \subseteq Coin
  PROVE  /\ \A c \in coins :
              c.id \in WorkCoins(Enqueue(s, coins).work, Enqueue(s, coins).result)
         /\ initializer[s].work \subseteq Enqueue(s, coins).work
         /\ ToSet(IdsOf(initializer[s].result)) \subseteq
              ToSet(IdsOf(Enqueue(s, coins).result))
<1>1. /\ Enqueue(s, coins).work = initializer[s].work \cup Tasked(coins)
      /\ Enqueue(s, coins).result = initializer[s].result \o Untasked(coins)
  BY EnqueuedFields
<1>2. PICK small : small = {d \in coins : TooSmall(d.balance)}
  OBVIOUS
<1>3. Untasked(coins) \in Seq(Coin)
  <2>1. IsFiniteSet(small) /\ small \subseteq Coin
    BY <1>2, FS_Subset
  <2>2. Untasked(coins) = SetToSeq(small)
    BY <1>2 DEF Untasked
  <2>3. Untasked(coins) \in [1 .. Cardinality(small) -> Coin]
    BY <2>1, <2>2, ListOfASet
  <2> QED
    BY <2>1, <2>3, FS_CardinalityType
<1>4. initializer[s].result \in Seq(Coin)
  BY DEF InitializersTyped, InitializerRecord
<1> HIDE DEF Enqueue
<1>5. ToSet(IdsOf(initializer[s].result)) \subseteq ToSet(IdsOf(Enqueue(s, coins).result))
  BY <1>1, <1>3, <1>4, IdsOfBoth
<1>6. ASSUME NEW c \in coins
      PROVE  c.id \in WorkCoins(Enqueue(s, coins).work, Enqueue(s, coins).result)
  <2>1. \/ c \in ToSet(Enqueue(s, coins).result)
        \/ \E w \in Enqueue(s, coins).work : w.coin = c
    BY <1>6, EnqueuedCoinsAreFound
  <2> QED
    BY <2>1, IdsOfMembers DEF WorkCoins
<1> QED
  BY <1>1, <1>5, <1>6

(* The scan of a first start finds every coin; one of a refresh adds to what is
   remembered anyway. *)
LEMMA ScanRemembers ==
  ASSUME RememberInv, Typed, InitializersTyped, fullnode = ledger,
         NEW s \in Stations, Scan(s)
  PROVE  RememberInv'
<1>1. PICK found : found = {c \in fullnode : c.balance >= Threshold(s)}
  OBVIOUS
<1>2. PICK new : new = [Enqueue(s, found) EXCEPT
                          !.pc = IF found = {} THEN "unlock" ELSE "split"]
  OBVIOUS
<1>3. initializer' = [initializer EXCEPT ![s] = new]
  BY <1>1, <1>2 DEF Scan
<1>4. UNCHANGED <<available, reservations, task, unlocker, ledger, initialized>>
  BY DEF Scan, ScriptOnly, registryVars, poolVars, reservationVars, chainVars,
         processVars
<1>5. IsFiniteSet(found) /\ found \subseteq Coin
  BY <1>1, FS_Subset DEF Typed, ChainTyped
<1>6. /\ new.result = Enqueue(s, found).result
      /\ new.work = Enqueue(s, found).work
  <2>1. Enqueue(s, found) = [initializer[s] EXCEPT
              !.result = initializer[s].result \o Untasked(found),
              !.work = initializer[s].work \cup Tasked(found)]
    BY EnqueuedFields
  <2>2. initializer[s] \in InitializerRecord
    BY DEF InitializersTyped
  <2> HIDE DEF Enqueue
  <2> QED
    BY <1>2, <2>1, <2>2 DEF InitializerRecord
<1>7. /\ \A c \in found : c.id \in WorkCoins(new.work, new.result)
      /\ \A id : id \in WorkCoins(initializer[s].work, initializer[s].result) =>
                   id \in WorkCoins(new.work, new.result)
  <2>1. /\ \A c \in found : c.id \in WorkCoins(new.work, new.result)
        /\ initializer[s].work \subseteq new.work
        /\ ToSet(IdsOf(initializer[s].result)) \subseteq ToSet(IdsOf(new.result))
    BY <1>5, <1>6, EnqueueHolds
  <2> QED
    BY <2>1 DEF WorkCoins
<1>8. GiversInv'
  BY <1>4, GiversStandStill DEF RememberInv
<1>9. AllRemembered => AllRemembered'
  <2>1. \A id : IsHeld(id) => IsHeld(id)'
    BY <1>3, <1>4, <1>7, StationKeepsHold
  <2> QED
    BY <1>4, <2>1, HeldCoinsAreRemembered
<1>10. CASE initializer[s].mode = "Refresh"
  <2>1. HasScanned(initializer[s])
    BY <1>10 DEF HasScanned
  <2> QED
    BY <1>3, <1>4, <1>8, <1>9, <2>1, OneHasScanned DEF RememberInv
<1>11. CASE initializer[s].mode = "Init"
  <2>1. \A c \in ledger : c.balance >= 0
    BY DEF Typed, ChainTyped, Coin
  <2>2. found = ledger
    BY <1>1, <1>11, <2>1 DEF Threshold
  <2>3. \A c \in ledger : IsHeld(c.id)'
    BY <1>3, <1>7, <2>2, StationHolds
  <2>4. AllRemembered'
    BY <1>4, <2>3 DEF AllRemembered, Remembered
  <2> QED
    BY <1>8, <2>4 DEF RememberInv
<1>12. initializer[s].mode \in {"Init", "Refresh"}
  BY DEF InitializersTyped, InitializerRecord, RunMode
<1> QED
  BY <1>10, <1>11, <1>12

(* What is left of a coin and what was cut off are results or work. *)
LEMMA SplitOkRemembers ==
  ASSUME InitializerInv, CustodyInv, RememberInv,
         UNCHANGED <<available, reservations, task, unlocker, initialized>>,
         NEW s \in Stations, At(s, "split"),
         NEW w \in initializer[s].work, SplitOk(s, w)
  PROVE  RememberInv'
<1>1. /\ initializer[s] \in InitializerRecord /\ InitializersTyped
      /\ w \in Work /\ w.count \in Nat \ {0} /\ w.coin \in Coin
      /\ ChainIsUnique /\ IdsAreKnown
  BY DEF InitializerInv, IdsInv, InitializersTyped, InitializerRecord, Work
<1>2. PICK gas \in SplitGas :
        /\ CommitSplit(w, gas)
        /\ LET rest == Enqueue(s, Pieces(w, FreshIds(w.count - 1), gas))
           IN  initializer' = [initializer EXCEPT
                 ![s] = [rest EXCEPT !.work = @ \ {w}]]
  BY DEF SplitOk
<1>3. PICK ids : ids = FreshIds(w.count - 1)
  OBVIOUS
<1>4. PICK pieces : pieces = Pieces(w, ids, gas)
  OBVIOUS
<1>5. PICK rest : rest = Enqueue(s, pieces)
  OBVIOUS
<1>6. PICK new : new = [rest EXCEPT !.work = @ \ {w}]
  OBVIOUS
<1>7. /\ w.coin \in ledger
      /\ ledger' = (ledger \ {w.coin}) \cup pieces
      /\ initializer' = [initializer EXCEPT ![s] = new]
  BY <1>2, <1>3, <1>4, <1>5, <1>6 DEF CommitSplit
<1>8. pieces \subseteq Coin /\ IsFiniteSet(pieces)
  BY <1>1, <1>2, <1>3, <1>4, SplitKeepsIds DEF InitializerInv
<1>9. /\ ids \cap created = {}
      /\ \A c \in pieces : \/ c.id \in ids
                           \/ c.id = w.coin.id /\ c.version = w.coin.version + 1
  <2>1. w.count - 1 \in Nat /\ Cardinality(CoinIds \ created) >= w.count - 1
    BY <1>1, <1>2 DEF CommitSplit
  <2>2. ids \subseteq CoinIds \ created
    BY <1>3, <2>1, FreshIdsAreFresh
  <2> QED
    BY <1>4, <2>2 DEF Pieces
<1>10. w.coin \notin pieces
  <2>1. w.coin.id \notin ids
    BY <1>1, <1>7, <1>9 DEF IdsAreKnown
  <2>2. w.coin.version \in Nat
    BY <1>1 DEF Coin
  <2> QED
    BY <1>9, <2>1, <2>2
<1>11. /\ new.pc = "split" /\ new.result = rest.result
       /\ new.work = rest.work \ {w}
  <2>1. /\ rest = [initializer[s] EXCEPT
              !.result = initializer[s].result \o Untasked(pieces),
              !.work = initializer[s].work \cup Tasked(pieces)]
        /\ rest \in InitializerRecord
    BY <1>1, <1>5, <1>8, EnqueuedFields, EnqueueIsTyped DEF InitializerInv
  <2> QED
    BY <1>1, <1>6, <2>1 DEF At, InitializerRecord
<1>12. /\ initializer[s].work \subseteq rest.work
       /\ ToSet(IdsOf(initializer[s].result)) \subseteq ToSet(IdsOf(new.result))
  BY <1>1, <1>5, <1>8, <1>11, EnqueueHolds
<1>13. \A c \in pieces : IsHeld(c.id)'
  <2> SUFFICES ASSUME NEW c \in pieces PROVE IsHeld(c.id)'
    OBVIOUS
  <2>1. c \in ToSet(rest.result) \/ \E v \in rest.work : v.coin = c
    BY <1>1, <1>5, <1>8, EnqueuedCoinsAreFound
  <2>2. c # w.coin
    BY <1>10
  <2>3. c \in ToSet(new.result) \/ \E v \in new.work : v.coin = c
    BY <1>11, <2>1, <2>2
  <2>4. c.id \in WorkCoins(new.work, new.result)
    BY <2>3, IdsOfMembers DEF WorkCoins
  <2> QED
    BY <1>1, <1>7, <2>4, StationHolds
<1>14. ASSUME NEW c \in ledger, c # w.coin, IsHeld(c.id) PROVE IsHeld(c.id)'
  <2>1. c.id # w.coin.id
    BY <1>1, <1>7, <1>14 DEF ChainIsUnique
  <2>2. c.id \in WorkCoins(initializer[s].work, initializer[s].result) =>
          c.id \in WorkCoins(new.work, new.result)
    BY <1>11, <1>12, <2>1 DEF WorkCoins
  <2> QED
    BY <1>1, <1>7, <1>14, <2>2, StationKeepsHold
<1>15. AllRemembered => AllRemembered'
  <2> SUFFICES ASSUME AllRemembered, NEW c \in ledger' PROVE Remembered(c)'
    BY DEF AllRemembered
  <2>1. CASE c \in pieces
    BY <1>13, <2>1 DEF Remembered
  <2>2. CASE c \notin pieces
    BY <1>7, <1>14, <2>2 DEF AllRemembered, Remembered
  <2> QED
    BY <2>1, <2>2
<1>16. \A c \in ledger' : \/ c \in ledger
                          \/ \A r \in Stations : c.id \notin unlocker[r].batch
  <2> SUFFICES ASSUME NEW c \in pieces, NEW r \in Stations, c.id \in unlocker[r].batch
               PROVE  FALSE
    BY <1>7
  <2>1. PICK g, h : g = <<"initializer", s>> /\ h = <<"unlocker", r>>
    OBVIOUS
  <2>2. g \in Custodians /\ h \in Custodians /\ g # h
    BY <2>1, KindsOfCustodians
  <2>3. w.coin.id \in CustodyOf(g) /\ c.id \in CustodyOf(h)
    BY <2>1, CustodyByKind DEF WorkCoins
  <2>4. c.id \in ids
    BY <1>9, <2>2, <2>3 DEF CustodyInv
  <2> QED
    BY <1>1, <1>9, <2>2, <2>3, <2>4, FreshCoinsAreFree
<1>17. GiversInv'
  <2>1. GiversInv
    BY DEF RememberInv
  <2>2. IdleHoldNothing' /\ TasksGiveTheirOwn'
    BY <2>1 DEF GiversInv, IdleHoldNothing, TasksGiveTheirOwn
  <2>3. UnlockersGiveAll'
    BY <1>16, <2>1, UnlockersStillGiveAll DEF GiversInv
  <2> QED
    BY <2>2, <2>3 DEF GiversInv
<1>18. HasScanned(initializer[s])
  BY DEF At, HasScanned
<1>19. initialized \/ SomebodyHasScanned => AllRemembered
  BY DEF RememberInv
<1>20. initialized' \/ SomebodyHasScanned' => AllRemembered'
  BY <1>1, <1>7, <1>15, <1>18, <1>19, OneHasScanned
<1> QED
  BY <1>17, <1>20 DEF RememberInv

LEMMA SplitRemembers ==
  ASSUME InitializerInv, fullnode = ledger, CustodyInv, RememberInv,
         ResponsesGetLost = FALSE, NEW s \in Stations, Split(s)
  PROVE  RememberInv'
<1>1. /\ UNCHANGED <<available, reservations, task, unlocker, initialized>>
      /\ At(s, "split") /\ InitializersTyped
  BY DEF Split, registryVars, poolVars, reservationVars, processVars, InitializerInv
<1>2. ASSUME NEW w \in initializer[s].work, SplitOk(s, w) PROVE RememberInv'
  BY <1>1, <1>2, SplitOkRemembers
<1>3. ASSUME UNCHANGED ledger,
             \A r \in Stations : /\ initializer'[r].work = initializer[r].work
                                 /\ initializer'[r].result = initializer[r].result
      PROVE  RememberInv'
  <2>1. AllRemembered
    BY <1>1 DEF RememberInv, SomebodyHasScanned, HasScanned, At
  <2>2. AllRemembered'
    BY <1>1, <1>3, <2>1, StandingStillRemembers
  <2>3. GiversInv'
    BY <1>1, <1>3, GiversStandStill DEF RememberInv
  <2> QED
    BY <2>2, <2>3 DEF RememberInv
<1>4. ASSUME NEW w \in initializer[s].work, SplitErr(s, w) PROVE RememberInv'
  BY <1>3, <1>4, SplitErrKeepsWork
<1>5. CASE Moves(s, "add") /\ UNCHANGED chainVars
  BY <1>1, <1>3, <1>5, MovesKeepWork DEF chainVars
<1> QED
  BY <1>2, <1>4, <1>5 DEF Split, chainVars

(* What leaves the list of results is in the pool. *)
LEMMA AddChunkRemembers ==
  ASSUME RememberInv, Typed, InitializersTyped, availableTotal # Absent,
         NEW s \in Stations, AddChunk(s)
  PROVE  RememberInv'
<1>1. initializer[s] \in InitializerRecord /\ initializer[s].pc = "add"
  BY DEF InitializersTyped, AddChunk, At
<1>2. UNCHANGED <<ledger, task, unlocker>>
  BY DEF AddChunk, ScriptOnly, chainVars, processVars
<1>3. AllRemembered
  BY <1>1 DEF RememberInv, SomebodyHasScanned, HasScanned
<1>4. GiversInv'
  BY <1>2, GiversStandStill DEF RememberInv
<1>5. PICK result \in Seq(Coin) : result = initializer[s].result
  BY <1>1 DEF InitializerRecord
<1>6. PICK n \in 0 .. Len(result) :
        n = IF Len(result) < ChunkSize THEN Len(result) ELSE ChunkSize
  BY InitializerAssumption
<1>7. PICK chunk, rest : /\ chunk = SubSeq(result, 1, n)
                         /\ rest = SubSeq(result, n + 1, Len(result))
  OBVIOUS
<1>8. chunk \in Seq(Coin) /\ rest \in Seq(Coin) /\ result = chunk \o rest
  BY <1>7, SplitAt
<1>9. CASE Moves(s, "unlock") /\ UNCHANGED registryVars
  <2>1. UNCHANGED <<available, reservations>>
    BY <1>9 DEF registryVars, poolVars, reservationVars
  <2>2. AllRemembered'
    BY <1>2, <1>3, <1>9, <2>1, MovesKeepWork, StandingStillRemembers
  <2> QED
    BY <1>4, <2>2 DEF RememberInv
<1>10. CASE /\ AddNewCoins(chunk)
            /\ initializer' = [initializer EXCEPT
                 ![s].result = SubSeq(@, n + 1, Len(@))]
  <2>1. /\ available \in Seq(Coin)
        /\ available' = available \o chunk /\ UNCHANGED reservations
    BY <1>8, <1>10 DEF AddNewCoins, PushCoins, reservationVars, Typed, PoolTyped
  <2>2. /\ ToSet(IdsOf(available')) = ToSet(IdsOf(available)) \cup ToSet(IdsOf(chunk))
        /\ ToSet(IdsOf(result)) = ToSet(IdsOf(chunk)) \cup ToSet(IdsOf(rest))
    BY <1>8, <2>1, IdsOfBoth
  <2>3. PICK new : new = [initializer[s] EXCEPT !.result = rest]
    OBVIOUS
  <2>4. new.work = initializer[s].work /\ new.result = rest
    BY <1>1, <2>3 DEF InitializerRecord
  <2>5. initializer' = [initializer EXCEPT ![s] = new]
    BY <1>5, <1>7, <1>10, <2>3
  <2>6. \A id : id \in WorkCoins(initializer[s].work, initializer[s].result) =>
                  id \in WorkCoins(new.work, new.result) \cup ToSet(IdsOf(available'))
    BY <1>5, <2>2, <2>4 DEF WorkCoins
  <2>7. \A id : IsHeld(id) => IsHeld(id)'
    BY <1>2, <2>1, <2>2, <2>5, <2>6, StationKeepsHold
  <2>8. AllRemembered'
    BY <1>2, <1>3, <2>7, HeldCoinsAreRemembered
  <2> QED
    BY <1>4, <2>8 DEF RememberInv
<1> QED
  BY <1>5, <1>6, <1>7, <1>9, <1>10 DEF AddChunk, AddNewCoinsFailed

(* The coins that somebody sends must be large enough for a refresh. *)
LEMMA DepositRemembers ==
  ASSUME InitializerInv, CustodyInv, RememberInv,
         DepositBalance >= OversizeThreshold, Deposit
  PROVE  RememberInv'
<1>1. PICK coin : coin = [id |-> CHOOSE i \in CoinIds \ created : TRUE,
                          balance |-> DepositBalance, version |-> 1]
  OBVIOUS
<1>2. /\ ledger' = ledger \cup {coin} /\ coin.id \notin created
      /\ coin.balance = DepositBalance
  BY <1>1 DEF Deposit
<1>3. UNCHANGED <<available, reservations, task, unlocker, initializer, initialized>>
  BY DEF Deposit, registryVars, poolVars, reservationVars, processVars
<1>4. \A id : IsHeld(id) => IsHeld(id)'
  BY <1>3, HeldByKind
<1>5. AllRemembered => AllRemembered'
  BY <1>2, <1>4 DEF AllRemembered, Remembered
<1>6. \A r \in Stations : coin.id \notin unlocker[r].batch
  <2> SUFFICES ASSUME NEW r \in Stations, coin.id \in unlocker[r].batch PROVE FALSE
    OBVIOUS
  <2>1. PICK h \in Custodians : h = <<"unlocker", r>>
    BY KindsOfCustodians
  <2>2. {coin.id} \cap created = {}
    BY <1>2
  <2>3. coin.id \in CustodyOf(h)
    BY <2>1, CustodyByKind
  <2> QED
    BY <2>2, <2>3, FreshCoinsAreFree DEF InitializerInv, IdsInv
<1>7. GiversInv'
  <2>1. GiversInv
    BY DEF RememberInv
  <2>2. IdleHoldNothing' /\ TasksGiveTheirOwn'
    BY <1>3, <2>1 DEF GiversInv, IdleHoldNothing, TasksGiveTheirOwn
  <2>3. UnlockersGiveAll'
    BY <1>2, <1>3, <1>6, <2>1, UnlockersStillGiveAll DEF GiversInv
  <2> QED
    BY <2>2, <2>3 DEF GiversInv
<1>8. SomebodyHasScanned' => SomebodyHasScanned
  BY <1>3 DEF SomebodyHasScanned, HasScanned
<1> QED
  BY <1>3, <1>5, <1>7, <1>8 DEF RememberInv

-----------------------------------------------------------------------------
LEMMA CrashesAreNotUndone ==
  ASSUME InitializerInv, [InitializerNext]_allVars, crashes' = 0
  PROVE  crashes = 0 /\ \A s \in Stations : ~CrashAnywhere(s)
<1>1. crashes \in Nat
  BY DEF InitializerInv, Typed, ProcessesTyped
<1>2. \A s \in Stations : CrashAnywhere(s) => crashes' = crashes + 1
  BY DEF CrashAnywhere, Crash
<1>3. crashes' = crashes \/ crashes' = crashes + 1
  BY <1>2
     DEF InitializerNext, Serving, LateCommit, ReserveGas, DebugCheckHealth, Reserve,
         StartExecution, TaskStep, QueryTotalBalance, ExecuteOk, ExecuteErr,
         QueryLatest, TriggerRescan, ReleaseCoins, UnlockStep, UnlockExpire,
         UnlockQuery, UnlockRelease, FullnodeSyncs, TimePasses, Start,
         InitializerStep, CheckInitialized, BeginMaintenance, CleanUp, ResetStats,
         AcquireLock, Scan, Split, AddChunk, ReleaseLock, EndMaintenance,
         WakeByTrigger, WakeByTicker, Wake, Deposit, Serve, Panic, ScriptOnly,
         processVars, faultVars, vars, allVars
<1> QED
  BY <1>1, <1>2, <1>3

LEMMA StationsRemember ==
  ASSUME ResponsesGetLost = FALSE, SoleInv, RememberInv, NEW s \in Stations,
         Start(s) \/ InitializerStep(s) \/ WakeByTicker(s)
  PROVE  RememberInv'
<1>1. /\ InitializerInv /\ fullnode = ledger /\ CustodyInv /\ StagesInv
      /\ Typed /\ InitializersTyped
  BY DEF SoleInv, InitializerInv
<1>2. CASE AddChunk(s)
  <2>1. availableTotal # Absent
    BY <1>2, ConstantsAssumption DEF SoleInv, TotalIsThere, AddChunk, At
  <2> QED
    BY <1>1, <1>2, <2>1, AddChunkRemembers
<1>3. CASE WakeByTrigger(s) \/ WakeByTicker(s)
  BY <1>1, <1>3, ControlRemembers DEF WakeByTrigger, WakeByTicker
<1>4. CASE Scan(s)
  BY <1>1, <1>4, ScanRemembers
<1>5. CASE Split(s)
  BY <1>1, <1>5, SplitRemembers
<1> QED
  BY <1>1, <1>2, <1>3, <1>4, <1>5, ControlRemembers DEF InitializerStep

LEMMA StepsRemember ==
  ASSUME ResponsesGetLost = FALSE, DepositBalance >= OversizeThreshold,
         SoleInv, Typed', RememberInv, [InitializerNext]_allVars,
         lostReplies = 0, lostReplies' = 0, crashes' = 0, BalancesFit'
  PROVE  RememberInv'
<1>1. InitializerInv /\ CustodyInv
  BY DEF SoleInv
<1>2. CASE UNCHANGED allVars
  <2>1. UNCHANGED <<available, reservations, task, unlocker, ledger, initializer,
                    initialized>>
    BY <1>2
       DEF allVars, vars, registryVars, poolVars, reservationVars, chainVars,
           processVars, initializerVars
  <2>2. AllRemembered => AllRemembered'
    BY <2>1, StandingStillRemembers
  <2>3. GiversInv'
    BY <2>1, GiversStandStill DEF RememberInv
  <2>4. SomebodyHasScanned' => SomebodyHasScanned
    BY <2>1 DEF SomebodyHasScanned, HasScanned
  <2> QED
    BY <2>1, <2>2, <2>3, <2>4 DEF RememberInv
<1>3. \A s \in Stations : ~CrashAnywhere(s)
  BY <1>1, CrashesAreNotUndone
<1>4. CASE Serving
  BY <1>4, ServingRemembers
<1>5. CASE Deposit
  BY <1>1, <1>5, DepositRemembers
<1> QED
  BY <1>2, <1>3, <1>4, <1>5, StationsRemember DEF InitializerNext

LEMMA RememberInvStarts == InitializerInit => RememberInv
<1> SUFFICES ASSUME InitializerInit PROVE RememberInv
  OBVIOUS
<1>1. /\ ~initialized
      /\ \A t \in Tasks : task[t] = IdleTask
      /\ \A s \in Stations : unlocker[s] = IdleUnlocker /\ initializer[s] = Down
  BY DEF InitializerInit, RegistryInit
<1>2. ~SomebodyHasScanned
  BY <1>1 DEF SomebodyHasScanned, HasScanned, Down
<1>3. GiversInv
  BY <1>1
     DEF GiversInv, IdleHoldNothing, TasksGiveTheirOwn, UnlockersGiveAll, IdleTask,
         IdleUnlocker
<1> QED
  BY <1>1, <1>2, <1>3 DEF RememberInv

LEMMA RememberedIsNotForgotten ==
  ASSUME RememberInv
  PROVE  NoCoinIsForgotten
<1> SUFFICES ASSUME initialized, NEW c \in ledger,
                    \A h \in Holders : c.id \notin CoinsOf(h),
                    \A s \in Stations : c.id \notin InitializerCoins(s),
                    ~(c.balance >= OversizeThreshold)
             PROVE  FALSE
  BY DEF NoCoinIsForgotten
<1>1. IsHeld(c.id)
  BY DEF RememberInv, AllRemembered, Remembered
<1>2. /\ c.id \notin ToSet(IdsOf(available))
      /\ \A r \in DOMAIN reservations : c.id \notin ToSet(reservations[r])
      /\ \A t \in Tasks : c.id \notin PaymentIds(t)
      /\ \A s \in Stations : c.id \notin unlocker[s].batch
  <2>1. /\ <<"pool">> \in Holders
        /\ \A r \in DOMAIN reservations : <<"reservation", r>> \in Holders
        /\ \A t \in Tasks : <<"task", t>> \in Holders
        /\ \A s \in Stations : <<"unlocker", s>> \in Holders
    BY DEF Holders
  <2>2. \A t \in Tasks : c.id \notin PaymentIds(t)
    BY <2>1, CoinsOfHolders
  <2>3. \A s \in Stations : c.id \notin unlocker[s].batch
    BY <2>1, CoinsOfHolders
  <2>4. \A r \in DOMAIN reservations : c.id \notin ToSet(reservations[r])
    BY <2>1, CoinsOfHolders
  <2> QED
    BY <2>1, <2>2, <2>3, <2>4, CoinsOfHolders
<1>3. \A t \in Tasks : TaskCoins(task[t]) \subseteq PaymentIds(t)
  BY DEF RememberInv, GiversInv, TasksGiveTheirOwn, TaskCoins, TaskIds, PaymentIds
<1>4. \A s \in Stations :
        WorkCoins(initializer[s].work, initializer[s].result) = InitializerCoins(s)
  BY DEF WorkCoins, InitializerCoins
<1> QED
  BY <1>1, <1>2, <1>3, <1>4, HeldByKind

(* Once the registry is initialized, every live coin is in the pool, in a
   reservation, with a task, an unlock task or an initializer, or so large that
   the next refresh takes it up, through any number of grants, executions,
   merges, expiries, splits and refreshes of any number of stations.  Assumed
   are the conditions of CustodyStaysSole, deposits that a refresh looks for
   (smaller ones wait for a full rescan, gas_station_initializer.rs:43-52), and
   that no process has crashed: what one holds in memory is lost with it. *)
THEOREM NoCoinGetsForgotten ==
  ASSUME FullRescans = FALSE, FullnodeLags = FALSE, ResponsesGetLost = FALSE,
         DepositBalance >= OversizeThreshold
  PROVE  /\ InitializerSpec
         /\ []LocksExclude /\ []FirstStartsAreFirst
         /\ []BalancesFit /\ []NoneIsOnTheEdge
         => [](lostReplies = 0 /\ crashes = 0 => NoCoinIsForgotten)
<1> DEFINE Memory == /\ InitializerInv
                     /\ lostReplies = 0 => SoleInv
                     /\ lostReplies = 0 /\ crashes = 0 => RememberInv
<1>1. InitializerInit => Memory
  BY InitializersStartTyped, SoleInvStarts, RememberInvStarts
<1>2. ASSUME Memory, [InitializerNext]_allVars, LocksExclude, FirstStartsAreFirst,
             BalancesFit', NoneIsOnTheEdge'
      PROVE  Memory'
  <2>1. InitializerInv'
    BY <1>2, InitializerStepsKeepInv
  <2>2. lostReplies' = 0 => lostReplies = 0
    BY <1>2, RepliesAreNotFound
  <2>3. lostReplies' = 0 => SoleInv'
    BY <1>2, <2>2, StepsKeepSoleCustody
  <2>4. crashes' = 0 => crashes = 0
    BY <1>2, CrashesAreNotUndone
  <2>5. lostReplies' = 0 /\ crashes' = 0 => RememberInv'
    <3>1. Typed'
      BY <2>1 DEF InitializerInv
    <3> QED
      BY <1>2, <2>2, <2>4, <3>1, StepsRemember
  <2> QED
    BY <2>1, <2>3, <2>5
<1>3. Memory => (lostReplies = 0 /\ crashes = 0 => NoCoinIsForgotten)
  BY RememberedIsNotForgotten
<1> HIDE DEF Memory
<1> QED
  BY <1>1, <1>2, <1>3, PTL DEF InitializerSpec

(* A station that is the only one needs no lock for it. *)
THEOREM AloneNoCoinGetsForgotten ==
  ASSUME FullRescans = FALSE, FullnodeLags = FALSE, ResponsesGetLost = FALSE,
         DepositBalance >= OversizeThreshold,
         \A r, s \in Stations : r = s
  PROVE  InitializerSpec /\ []BalancesFit /\ []NoneIsOnTheEdge
           => [](lostReplies = 0 /\ crashes = 0 => NoCoinIsForgotten)
<1>1. InitializerInit => InitializerInv /\ FirstInv
  <2>1. InitializerInit => FirstInv
    BY DEF InitializerInit, FirstInv, Down
  <2> QED
    BY <2>1, InitializersStartTyped
<1>2. InitializerInv /\ FirstInv /\ [InitializerNext]_allVars
        => (InitializerInv /\ FirstInv)'
  BY InitializerStepsKeepInv, AloneNobodyIsFirst
<1>3. InitializerInv /\ FirstInv => FirstStartsAreFirst
  BY DEF FirstInv, FirstStartsAreFirst, At
<1>4. LocksExclude
  BY DEF LocksExclude
<1>5. InitializerSpec => []LocksExclude /\ []FirstStartsAreFirst
  BY <1>1, <1>2, <1>3, <1>4, PTL DEF InitializerSpec
<1> QED
  BY <1>5, NoCoinGetsForgotten, PTL
=============================================================================
