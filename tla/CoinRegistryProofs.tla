------------------------ MODULE CoinRegistryProofs ------------------------
(***************************************************************************)
(* Lemmas about the operators of CoinRegistry: what PrefixBalance,         *)
(* BalanceOf, IdsOf and PoppedCoins return for every list of coins.        *)
(* Proofs by induction go by the least counterexample.                     *)
(***************************************************************************)
EXTENDS CoinRegistry, SumTheorems, SequenceTheorems

(* g holds the sums of the balances of the first 0 .. k coins of s. *)
SumsTo(g, s, k) ==
  /\ g \in [0 .. k -> Nat]
  /\ g[0] = 0
  /\ \A n \in 1 .. k : g[n] = g[n - 1] + s[n].balance

LEMMA PrefixSumsExist ==
  ASSUME NEW s \in Seq(Coin), NEW k \in 0 .. Len(s)
  PROVE  \E g : SumsTo(g, s, k)
<1> DEFINE Bad == {n \in 0 .. Len(s) : ~ \E g : SumsTo(g, s, n)}
<1>1. SUFFICES ASSUME Bad # {} PROVE FALSE
  OBVIOUS
<1>2. PICK m \in Bad : \A n \in Bad : m <= n
  <2>1. Bad \subseteq Nat
    OBVIOUS
  <2> HIDE DEF Bad
  <2> QED
    BY <1>1, <2>1, LeastNatural
<1>3. m \in 1 .. Len(s)
  <2>1. SumsTo([n \in 0 .. 0 |-> 0], s, 0)
    BY DEF SumsTo
  <2> QED
    BY <2>1
<1>4. PICK g : SumsTo(g, s, m - 1)
  BY <1>2, <1>3
<1>5. s[m].balance \in Nat
  <2>1. s[m] \in Coin
    BY <1>3, ElementOfSeq
  <2> QED
    BY <2>1 DEF Coin
<1> DEFINE h == [n \in 0 .. m |-> IF n = m THEN g[m - 1] + s[m].balance
                                           ELSE g[n]]
<1>6. SumsTo(h, s, m)
  <2>1. g[m - 1] \in Nat
    BY <1>3, <1>4 DEF SumsTo
  <2>2. h \in [0 .. m -> Nat]
    BY <1>3, <1>4, <1>5, <2>1 DEF SumsTo
  <2>3. h[0] = 0
    BY <1>3, <1>4 DEF SumsTo
  <2>4. ASSUME NEW n \in 1 .. m PROVE h[n] = h[n - 1] + s[n].balance
    <3>1. CASE n = m
      BY <1>3, <3>1
    <3>2. CASE n # m
      BY <1>3, <1>4, <3>2 DEF SumsTo
    <3> QED
      BY <3>1, <3>2
  <2> QED
    BY <2>2, <2>3, <2>4 DEF SumsTo
<1> QED
  BY <1>3, <1>6

LEMMA PrefixSumsUnique ==
  ASSUME NEW s, NEW N \in Nat, NEW g, SumsTo(g, s, N), NEW h,
         h = [n \in 0 .. N |-> IF n = 0 THEN 0 ELSE h[n - 1] + s[n].balance]
  PROVE  h = g
<1>1. \A n \in 0 .. N : h[n] = g[n]
  <2> DEFINE Bad == {n \in 0 .. N : h[n] # g[n]}
  <2>1. SUFFICES ASSUME Bad # {} PROVE FALSE
    OBVIOUS
  <2>2. PICK m \in Bad : \A n \in Bad : m <= n
    <3>1. Bad \subseteq Nat
      OBVIOUS
    <3> HIDE DEF Bad
    <3> QED
      BY <2>1, <3>1, LeastNatural
  <2>3. m \in 1 .. N
    BY DEF SumsTo
  <2>4. h[m - 1] = g[m - 1]
    BY <2>2, <2>3
  <2> QED
    BY <2>3, <2>4 DEF SumsTo
<1> QED
  BY <1>1 DEF SumsTo

(* PrefixBalance is a recursive function: it exists, and is what its equation
   says. *)
LEMMA PrefixBalanceSums ==
  ASSUME NEW s \in Seq(Coin)
  PROVE  /\ SumsTo(PrefixBalance(s), s, Len(s))
         /\ \A g : SumsTo(g, s, Len(s)) => g = PrefixBalance(s)
<1> DEFINE N == Len(s)
           P == PrefixBalance(s)
           Def(f) == f = [n \in 0 .. N |-> IF n = 0 THEN 0
                                           ELSE f[n - 1] + s[n].balance]
<1>1. N \in Nat
  OBVIOUS
<1>2. \E g : SumsTo(g, s, N)
  BY <1>1, PrefixSumsExist
<1>3. P = CHOOSE f : Def(f)
  BY DEF PrefixBalance
<1> HIDE DEF P
<1>4. ASSUME NEW g, SumsTo(g, s, N)
      PROVE  Def(g)
  BY <1>1, <1>4 DEF SumsTo
<1>5. Def(P)
  BY <1>2, <1>3, <1>4
<1>6. ASSUME NEW g, SumsTo(g, s, N)
      PROVE  P = g
  BY <1>1, <1>5, <1>6, PrefixSumsUnique
<1> QED
  BY <1>2, <1>6 DEF P

-----------------------------------------------------------------------------
LEMMA BalanceOfType ==
  ASSUME NEW s \in Seq(Coin)
  PROVE  BalanceOf(s) \in Nat
BY PrefixBalanceSums DEF SumsTo, BalanceOf

LEMMA BalanceOfEmpty == BalanceOf(<< >>) = 0
<1>1. << >> \in Seq(Coin) /\ Len(<< >>) = 0
  OBVIOUS
<1> QED
  BY <1>1, PrefixBalanceSums DEF SumsTo, BalanceOf

LEMMA BalanceOfConcat ==
  ASSUME NEW s \in Seq(Coin), NEW t \in Seq(Coin)
  PROVE  BalanceOf(s \o t) = BalanceOf(s) + BalanceOf(t)
<1> DEFINE P == PrefixBalance(s)
           Q == PrefixBalance(t)
           M == Len(s)
           N == Len(t)
           w == s \o t
           h == [n \in 0 .. M + N |-> IF n <= M THEN P[n] ELSE P[M] + Q[n - M]]
           Step(n) == h[n] = h[n - 1] + w[n].balance
<1>1. M \in Nat /\ N \in Nat
  OBVIOUS
<1>2. SumsTo(P, s, M) /\ SumsTo(Q, t, N)
  BY PrefixBalanceSums
<1>3. /\ w \in Seq(Coin)
      /\ Len(w) = M + N
      /\ \A n \in 1 .. M : w[n] = s[n]
      /\ \A n \in 1 .. N : w[M + n] = t[n]
  BY ConcatProperties
<1>4. /\ \A n \in 1 .. M : s[n].balance \in Nat
      /\ \A n \in 1 .. N : t[n].balance \in Nat
  <2>1. \A n \in 1 .. M : s[n] \in Coin
    BY ElementOfSeq
  <2>2. \A n \in 1 .. N : t[n] \in Coin
    BY ElementOfSeq
  <2> QED
    BY <2>1, <2>2 DEF Coin
<1> HIDE DEF P, Q, M, N, w
<1>5. /\ \A n \in 0 .. M : h[n] = P[n] /\ P[n] \in Nat
      /\ \A n \in 0 .. N : h[M + n] = P[M] + Q[n] /\ Q[n] \in Nat
  BY <1>1, <1>2 DEF SumsTo
<1>6. SumsTo(h, w, M + N)
  <2>1. h \in [0 .. M + N -> Nat]
    BY <1>1, <1>2 DEF SumsTo
  <2>2. h[0] = 0
    BY <1>1, <1>2, <1>5 DEF SumsTo
  <2> HIDE DEF h
  <2>3. ASSUME NEW n \in 1 .. M PROVE Step(n)
    <3>1. P[n] = P[n - 1] + s[n].balance
      BY <1>2 DEF SumsTo
    <3>2. h[n] = P[n] /\ h[n - 1] = P[n - 1]
      BY <1>1, <1>5
    <3> QED
      BY <1>3, <3>1, <3>2
  <2>4. ASSUME NEW n \in 1 .. N PROVE Step(M + n)
    <3>1. Q[n] = Q[n - 1] + t[n].balance
      BY <1>2 DEF SumsTo
    <3>2. h[M + n] = P[M] + Q[n] /\ h[M + (n - 1)] = P[M] + Q[n - 1]
      BY <1>1, <1>5
    <3>3. h[(M + n) - 1] = P[M] + Q[n - 1]
      <4>1. (M + n) - 1 = M + (n - 1)
        BY <1>1
      <4> QED
        BY <3>2, <4>1
    <3>4. Q[n - 1] \in Nat /\ P[M] \in Nat /\ t[n].balance \in Nat
      BY <1>1, <1>4, <1>5
    <3>5. w[M + n] = t[n]
      BY <1>3
    <3>6. P[M] + Q[n] = (P[M] + Q[n - 1]) + t[n].balance
      BY <3>1, <3>4
    <3> QED
      BY <3>2, <3>3, <3>5, <3>6
  <2> HIDE DEF Step
  <2>5. ASSUME NEW n \in 1 .. M + N PROVE Step(n)
    <3>1. CASE n <= M
      BY <1>1, <2>3, <3>1
    <3>2. CASE n > M
      <4>1. n - M \in 1 .. N /\ M + (n - M) = n
        BY <1>1, <3>2
      <4> QED
        BY <2>4, <4>1
    <3> QED
      BY <1>1, <3>1, <3>2
  <2> QED
    BY <2>1, <2>2, <2>5 DEF SumsTo, Step
<1>7. h = PrefixBalance(w)
  BY <1>3, <1>6, PrefixBalanceSums
<1>8. h[M + N] = P[M] + Q[N]
  BY <1>1, <1>5
<1> QED
  BY <1>3, <1>7, <1>8 DEF BalanceOf, P, Q, M, N, w

(* What a reservation takes and what it leaves are the two halves of the
   list, and so are their balances. *)
LEMMA SplitAt ==
  ASSUME NEW s \in Seq(Coin), NEW n \in 0 .. Len(s)
  PROVE  LET taken == SubSeq(s, 1, n)
             rest == SubSeq(s, n + 1, Len(s))
         IN  /\ taken \in Seq(Coin) /\ rest \in Seq(Coin)
             /\ Len(taken) = n /\ Len(rest) = Len(s) - n
             /\ s = taken \o rest
             /\ BalanceOf(s) = BalanceOf(taken) + BalanceOf(rest)
<1> DEFINE taken == SubSeq(s, 1, n)
           rest == SubSeq(s, n + 1, Len(s))
<1>1. Len(s) \in Nat /\ \A i \in 1 .. Len(s) : s[i] \in Coin
  BY ElementOfSeq
<1>2. taken \in Seq(Coin) /\ Len(taken) = n
  BY <1>1, SubSeqProperties
<1>3. rest \in Seq(Coin) /\ Len(rest) = Len(s) - n
  BY <1>1, SubSeqProperties
<1>4. s = taken \o rest
  <2>1. 1 \in 1 .. Len(s) + 1 /\ n \in 1 - 1 .. Len(s) /\ Len(s) \in n .. Len(s)
    BY <1>1
  <2>2. taken \o rest = SubSeq(s, 1, Len(s))
    BY <2>1, ConcatAdjacentSubSeq, Zenon
  <2> QED
    BY <2>2, SubSeqFull
<1> HIDE DEF taken, rest
<1>5. BalanceOf(s) = BalanceOf(taken) + BalanceOf(rest)
  BY <1>2, <1>3, <1>4, BalanceOfConcat
<1> QED
  BY <1>2, <1>3, <1>4, <1>5 DEF taken, rest

-----------------------------------------------------------------------------
LEMMA IdsOfProperties ==
  ASSUME NEW s \in Seq(Coin)
  PROVE  /\ IdsOf(s) \in Seq(CoinIds)
         /\ Len(IdsOf(s)) = Len(s)
         /\ \A i \in 1 .. Len(s) : IdsOf(s)[i] = s[i].id
<1>1. Len(s) \in Nat /\ DOMAIN s = 1 .. Len(s)
  OBVIOUS
<1>2. \A i \in 1 .. Len(s) : s[i].id \in CoinIds
  <2>1. \A i \in 1 .. Len(s) : s[i] \in Coin
    BY ElementOfSeq
  <2> QED
    BY <2>1 DEF Coin
<1> QED
  BY <1>1, <1>2 DEF IdsOf

LEMMA IdsOfConcat ==
  ASSUME NEW s \in Seq(Coin), NEW t \in Seq(Coin)
  PROVE  IdsOf(s \o t) = IdsOf(s) \o IdsOf(t)
<1> DEFINE u == IdsOf(s)
           v == IdsOf(t)
           a == IdsOf(s \o t)
           b == u \o v
<1>1. /\ s \o t \in Seq(Coin)
      /\ Len(s \o t) = Len(s) + Len(t)
      /\ \A i \in 1 .. Len(s) + Len(t) :
           (s \o t)[i] = IF i <= Len(s) THEN s[i] ELSE t[i - Len(s)]
  BY ConcatProperties
<1>2. /\ a \in Seq(CoinIds) /\ Len(a) = Len(s) + Len(t)
      /\ \A i \in 1 .. Len(s) + Len(t) : a[i] = (s \o t)[i].id
  BY <1>1, IdsOfProperties
<1>3. /\ u \in Seq(CoinIds) /\ Len(u) = Len(s)
      /\ v \in Seq(CoinIds) /\ Len(v) = Len(t)
      /\ \A i \in 1 .. Len(s) : u[i] = s[i].id
      /\ \A i \in 1 .. Len(t) : v[i] = t[i].id
  BY IdsOfProperties
<1> HIDE DEF u, v
<1>4. /\ b \in Seq(CoinIds) /\ Len(b) = Len(s) + Len(t)
      /\ \A i \in 1 .. Len(s) + Len(t) :
           b[i] = IF i <= Len(s) THEN u[i] ELSE v[i - Len(s)]
  <2>1. u \in Seq(CoinIds) /\ v \in Seq(CoinIds)
    BY <1>3
  <2>2. /\ b \in Seq(CoinIds) /\ Len(b) = Len(u) + Len(v)
        /\ \A i \in 1 .. Len(u) + Len(v) :
             b[i] = IF i <= Len(u) THEN u[i] ELSE v[i - Len(u)]
    BY <2>1, ConcatProperties
  <2> HIDE DEF b
  <2> QED
    BY <1>3, <2>2, Zenon
<1> HIDE DEF a, b
<1>5. ASSUME NEW i \in 1 .. Len(a)
      PROVE  a[i] = b[i]
  <2>1. Len(s) \in Nat /\ Len(t) \in Nat /\ i \in 1 .. Len(s) + Len(t)
    BY <1>2
  <2>2. CASE i <= Len(s)
    <3>1. a[i] = s[i].id /\ b[i] = u[i] /\ i \in 1 .. Len(s)
      BY <1>1, <1>2, <1>4, <2>1, <2>2
    <3> QED
      BY <1>3, <3>1
  <2>3. CASE i > Len(s)
    <3>1. /\ a[i] = t[i - Len(s)].id
          /\ b[i] = v[i - Len(s)]
          /\ i - Len(s) \in 1 .. Len(t)
      BY <1>1, <1>2, <1>4, <2>1, <2>3
    <3> QED
      BY <1>3, <3>1
  <2> QED
    BY <2>1, <2>2, <2>3
<1> QED
  BY <1>2, <1>4, <1>5, SeqEqual DEF a, b, u, v

(* The loop of reserve_gas_coins.lua ends, at the first count of coins that
   stops it. *)
LEMMA PoppedCoinsProperties ==
  ASSUME available \in Seq(Coin), NEW budget \in Nat \ {0}
  PROVE  LET n == PoppedCoins(budget)
             paid == PrefixBalance(available)
         IN  /\ n \in 0 .. Len(available)
             /\ n <= MaxCoinsPerQuery
             /\ \A m \in 0 .. n - 1 : paid[m] < budget
<1> DEFINE paid == PrefixBalance(available)
           N == Len(available)
           Stops(n) == \/ paid[n] >= budget
                       \/ n = MaxCoinsPerQuery
                       \/ n = N
           First(n) == Stops(n) /\ \A m \in 0 .. n - 1 : ~Stops(m)
<1>1. N \in Nat
  OBVIOUS
<1>2. paid \in [0 .. N -> Nat]
  BY PrefixBalanceSums DEF SumsTo
<1> HIDE DEF paid
<1>3. \E n \in 0 .. N : First(n)
  <2> DEFINE T == {n \in 0 .. N : Stops(n)}
  <2>1. T \subseteq Nat /\ N \in T
    BY <1>1
  <2> HIDE DEF T
  <2>2. PICK m \in T : \A k \in T : m <= k
    BY <2>1, LeastNatural
  <2> USE DEF T
  <2>3. m \in 0 .. N /\ Stops(m)
    OBVIOUS
  <2>4. ASSUME NEW k \in 0 .. m - 1 PROVE ~Stops(k)
    <3>1. k \in 0 .. N /\ ~(m <= k)
      BY <1>1, <2>3
    <3> QED
      BY <2>2, <3>1
  <2> QED
    BY <2>3, <2>4
<1> DEFINE n == PoppedCoins(budget)
<1>4. n = CHOOSE m \in 0 .. N : First(m)
  BY DEF PoppedCoins, paid
<1> HIDE DEF n
<1>5. n \in 0 .. N /\ First(n)
  <2> HIDE DEF First
  <2> QED
    BY <1>3, <1>4
<1>6. n <= MaxCoinsPerQuery
  BY <1>1, <1>5, ConstantsAssumption
<1>7. \A m \in 0 .. n - 1 : paid[m] < budget
  BY <1>1, <1>2, <1>5
<1> QED
  BY <1>5, <1>6, <1>7 DEF n, paid

LEMMA ConcatIsLonger ==
  ASSUME NEW s \in Seq(Coin), NEW t \in Seq(Coin)
  PROVE  IsPrefix(s, s \o t)
<1> DEFINE N == Len(s)
           w == s \o t
<1>1. N \in Nat /\ Len(t) \in Nat /\ Len(w) = N + Len(t)
  OBVIOUS
<1>2. SubSeq(s, 1, N) = SubSeq(w, 1, N)
  <2>1. CASE N = 0
    BY <2>1, SubSeqEmpty
  <2>2. CASE N # 0
    <3>1. 1 \in 1 .. N /\ N \in 1 .. N
      BY <1>1, <2>2
    <3> QED
      BY <3>1, SubSeqOfConcat1
  <2> QED
    BY <2>1, <2>2
<1> QED
  BY <1>1, <1>2 DEF IsPrefix

LEMMA SameIsPrefix ==
  ASSUME NEW s \in Seq(Coin)
  PROVE  IsPrefix(s, s)
BY DEF IsPrefix

=============================================================================
