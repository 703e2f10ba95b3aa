---------------------------- MODULE SumTheorems ----------------------------
(***************************************************************************)
(* Sums over finite sets, for the proofs.  MapThenSumSet takes one element *)
(* out after the other, in the order of CHOOSE; Total is that sum for a    *)
(* function, and the lemmas say of it what does not depend on the order.   *)
(*                                                                         *)
(* Induction is over sets: a property of natural numbers or of finite sets *)
(* is here the set of those that have it.                                  *)
(***************************************************************************)
EXTENDS Integers, FiniteSets, FiniteSetTheorems, WellFoundedInduction, TLAPS

LEMMA LeastNatural ==
  ASSUME NEW T, T \subseteq Nat, T # {}
  PROVE  \E m \in T : \A k \in T : m <= k
<1>1. PICK m \in T : \A k \in T : ~ (<<k, m>> \in OpToRel(<, Nat))
  BY NatLessThanWellFounded, WFMin
<1>2. ASSUME NEW k \in T, k < m
      PROVE  <<k, m>> \in OpToRel(<, Nat)
  <2>1. <<k, m>> \in Nat \X Nat
    OBVIOUS
  <2>2. <<k, m>>[1] = k /\ <<k, m>>[2] = m
    OBVIOUS
  <2> QED
    BY <1>2, <2>1, <2>2, Zenon DEF OpToRel
<1>3. \A k \in T : ~ (k < m)
  BY <1>1, <1>2, Zenon
<1> QED
  BY <1>3

LEMMA NatSetInduction ==
  ASSUME NEW P, 0 \in P, \A n \in Nat : n \in P => n + 1 \in P
  PROVE  Nat \subseteq P
<1> DEFINE Bad == {n \in Nat : n \notin P}
<1>1. SUFFICES ASSUME Bad # {} PROVE FALSE
  OBVIOUS
<1>2. PICK m \in Bad : \A n \in Bad : m <= n
  <2>1. Bad \subseteq Nat
    OBVIOUS
  <2> HIDE DEF Bad
  <2> QED
    BY <1>1, <2>1, LeastNatural
<1>3. m # 0 /\ m \in Nat /\ m \notin P
  BY <1>2
<1>4. m - 1 \in Nat /\ (m - 1) + 1 = m /\ m - 1 \notin Bad
  BY <1>2, <1>3
<1> QED
  BY <1>3, <1>4

(* A property of the subsets of a finite set that an element more keeps. *)
LEMMA SetInduction ==
  ASSUME NEW S, IsFiniteSet(S), NEW P, {} \in P,
         \A s \in SUBSET S : s \in P => \A x \in S \ s : s \cup {x} \in P
  PROVE  S \in P
<1> DEFINE Sized(n) == {s \in SUBSET S : IsFiniteSet(s) /\ Cardinality(s) = n}
           Q == {n \in Nat : Sized(n) \subseteq P}
<1>1. 0 \in Q
  BY FS_EmptySet
<1>2. ASSUME NEW n \in Nat, n \in Q
      PROVE  n + 1 \in Q
  <2>1. ASSUME NEW s \in Sized(n + 1)
        PROVE  s \in P
    <3>1. s # {}
      BY <2>1, FS_EmptySet
    <3>2. PICK x \in s : TRUE
      BY <3>1
    <3>3. IsFiniteSet(s \ {x}) /\ Cardinality(s \ {x}) = n
      <4>1. IsFiniteSet(s) /\ Cardinality(s) = n + 1
        BY <2>1
      <4>2. /\ IsFiniteSet(s \ {x})
            /\ Cardinality(s \ {x}) = Cardinality(s) - 1
        BY <4>1, <3>2, FS_RemoveElement
      <4> QED
        BY <4>1, <4>2
    <3>4. s \ {x} \in P
      BY <1>2, <2>1, <3>3
    <3>5. s \ {x} \in SUBSET S /\ x \in S \ (s \ {x})
      BY <2>1, <3>2
    <3>6. (s \ {x}) \cup {x} \in P
      BY <3>4, <3>5
    <3>7. (s \ {x}) \cup {x} = s
      BY <3>2
    <3> QED
      BY <3>6, <3>7
  <2> QED
    BY <2>1
<1>3. Nat \subseteq Q
  <2> HIDE DEF Q
  <2> QED
    BY <1>1, <1>2, NatSetInduction
<1> QED
  BY <1>3, FS_CardinalityType

-----------------------------------------------------------------------------
Taken(s) == CHOOSE x \in s : TRUE

Sums(g, f, S) ==
  g = [s \in SUBSET S |-> IF s = {} THEN 0 ELSE f[Taken(s)] + g[s \ {Taken(s)}]]

TotalOver(f, S) == CHOOSE g : Sums(g, f, S)

Total(f, S) == TotalOver(f, S)[S]

(* The subsets of S with at most n elements, and the sums of those alone. *)
Small(S, n) == {s \in SUBSET S : Cardinality(s) <= n}

SumsUpTo(g, f, S, n) ==
  g = [s \in Small(S, n) |-> IF s = {} THEN 0 ELSE f[Taken(s)] + g[s \ {Taken(s)}]]

LEMMA TakenIsSmaller ==
  ASSUME NEW S, IsFiniteSet(S), NEW n \in Nat,
         NEW s \in Small(S, n + 1), s # {}
  PROVE  Taken(s) \in s /\ s \ {Taken(s)} \in Small(S, n)
<1>1. Taken(s) \in s
  BY DEF Taken
<1>2. IsFiniteSet(s) /\ Cardinality(s) \in Nat
  BY FS_Subset, FS_CardinalityType DEF Small
<1>3. Cardinality(s \ {Taken(s)}) = Cardinality(s) - 1
  BY <1>1, <1>2, FS_RemoveElement
<1> QED
  BY <1>1, <1>2, <1>3 DEF Small

LEMMA SumsExist ==
  ASSUME NEW S, IsFiniteSet(S), NEW f
  PROVE  \E g : Sums(g, f, S)
<1> DEFINE P == {n \in Nat : \E g : SumsUpTo(g, f, S, n)}
<1>1. 0 \in P
  <2>1. \A s \in Small(S, 0) : s = {}
    <3> TAKE s \in Small(S, 0)
    <3>1. IsFiniteSet(s)
      BY FS_Subset DEF Small
    <3> QED
      BY <3>1, FS_CardinalityType, FS_EmptySet DEF Small
  <2>2. SumsUpTo([s \in Small(S, 0) |-> 0], f, S, 0)
    BY <2>1 DEF SumsUpTo
  <2> QED
    BY <2>2
<1>2. ASSUME NEW n \in Nat, n \in P
      PROVE  n + 1 \in P
  <2>1. PICK g : SumsUpTo(g, f, S, n)
    BY <1>2
  <2> DEFINE h == [s \in Small(S, n + 1) |->
                     IF s = {} THEN 0 ELSE f[Taken(s)] + g[s \ {Taken(s)}]]
  <2>2. ASSUME NEW s \in Small(S, n)
        PROVE  s \in Small(S, n + 1) /\ h[s] = g[s]
    <3>1. IsFiniteSet(s) /\ Cardinality(s) \in Nat
      BY FS_Subset, FS_CardinalityType DEF Small
    <3>2. s \in Small(S, n + 1)
      BY <3>1 DEF Small
    <3> QED
      BY <2>1, <3>2 DEF SumsUpTo
  <2>3. \A s \in Small(S, n + 1) : s # {} => s \ {Taken(s)} \in Small(S, n)
    BY TakenIsSmaller
  <2>4. \A s \in Small(S, n + 1) :
          s # {} => h[s \ {Taken(s)}] = g[s \ {Taken(s)}]
    BY <2>2, <2>3
  <2>5. SumsUpTo(h, f, S, n + 1)
    BY <2>4 DEF SumsUpTo
  <2> QED
    BY <2>5
<1>3. Nat \subseteq P
  <2> HIDE DEF P
  <2> QED
    BY <1>1, <1>2, NatSetInduction
<1>4. Cardinality(S) \in Nat /\ SUBSET S = Small(S, Cardinality(S))
  <2>1. \A s \in SUBSET S : Cardinality(s) <= Cardinality(S)
    BY FS_Subset
  <2> QED
    BY <2>1, FS_CardinalityType DEF Small
<1> QED
  BY <1>3, <1>4 DEF SumsUpTo, Sums

LEMMA SumsAreUnique ==
  ASSUME NEW S, NEW T, S \subseteq T, IsFiniteSet(S), NEW f, NEW e, NEW g, NEW h,
         Sums(g, f, S), Sums(h, e, T), \A x \in S : f[x] = e[x]
  PROVE  g[S] = h[S]
<1> DEFINE Sized(n) == {s \in SUBSET S : IsFiniteSet(s) /\ Cardinality(s) = n}
           P == {n \in Nat : \A s \in Sized(n) : g[s] = h[s]}
<1>1. \A s \in SUBSET S :
        /\ g[s] = IF s = {} THEN 0 ELSE f[Taken(s)] + g[s \ {Taken(s)}]
        /\ h[s] = IF s = {} THEN 0 ELSE e[Taken(s)] + h[s \ {Taken(s)}]
  <2>1. \A s \in SUBSET S :
          g[s] = IF s = {} THEN 0 ELSE f[Taken(s)] + g[s \ {Taken(s)}]
    BY DEF Sums
  <2>2. \A s \in SUBSET T :
          h[s] = IF s = {} THEN 0 ELSE e[Taken(s)] + h[s \ {Taken(s)}]
    BY DEF Sums
  <2> QED
    BY <2>1, <2>2
<1>2. 0 \in P
  BY <1>1, FS_EmptySet
<1>3. ASSUME NEW n \in Nat, n \in P
      PROVE  n + 1 \in P
  <2>1. ASSUME NEW s \in Sized(n + 1)
        PROVE  g[s] = h[s]
    <3>1. s # {}
      BY <2>1, FS_EmptySet
    <3>2. Taken(s) \in s
      BY <3>1 DEF Taken
    <3>3. IsFiniteSet(s \ {Taken(s)}) /\ Cardinality(s \ {Taken(s)}) = n
      <4>1. IsFiniteSet(s) /\ Cardinality(s) = n + 1
        BY <2>1
      <4>2. /\ IsFiniteSet(s \ {Taken(s)})
            /\ Cardinality(s \ {Taken(s)}) = Cardinality(s) - 1
        BY <4>1, <3>2, FS_RemoveElement
      <4> QED
        BY <4>1, <4>2
    <3>4. g[s \ {Taken(s)}] = h[s \ {Taken(s)}]
      BY <1>3, <2>1, <3>3
    <3>5. f[Taken(s)] = e[Taken(s)]
      BY <2>1, <3>2
    <3> QED
      BY <1>1, <2>1, <3>1, <3>4, <3>5
  <2> QED
    BY <2>1
<1>4. Nat \subseteq P
  <2> HIDE DEF P
  <2> QED
    BY <1>2, <1>3, NatSetInduction
<1> QED
  BY <1>4, FS_CardinalityType

-----------------------------------------------------------------------------
LEMMA TotalSums ==
  ASSUME NEW S, IsFiniteSet(S), NEW f
  PROVE  Sums(TotalOver(f, S), f, S)
BY SumsExist DEF TotalOver

(* What sums as MapThenSumSet does is the total. *)
LEMMA TotalIsUnique ==
  ASSUME NEW S, IsFiniteSet(S), NEW f, NEW g, Sums(g, f, S)
  PROVE  g[S] = Total(f, S)
BY TotalSums, SumsAreUnique DEF Total

LEMMA TotalCongruent ==
  ASSUME NEW S, IsFiniteSet(S), NEW f, NEW e, \A x \in S : f[x] = e[x]
  PROVE  Total(f, S) = Total(e, S)
BY TotalSums, SumsAreUnique DEF Total

LEMMA TotalOfEmpty ==
  ASSUME NEW f
  PROVE  Total(f, {}) = 0
BY TotalSums, FS_EmptySet DEF Total, Sums

LEMMA TotalOfTaken ==
  ASSUME NEW S, IsFiniteSet(S), S # {}, NEW f
  PROVE  /\ Taken(S) \in S
         /\ Total(f, S) = f[Taken(S)] + Total(f, S \ {Taken(S)})
<1>1. Taken(S) \in S
  BY DEF Taken
<1> DEFINE rest == S \ {Taken(S)}
           g == TotalOver(f, S)
<1>2. rest \subseteq S /\ IsFiniteSet(rest)
  BY FS_Subset
<1>3. Sums(g, f, S) /\ Sums(TotalOver(f, rest), f, rest)
  BY <1>2, TotalSums
<1> HIDE DEF g, rest
<1>4. TotalOver(f, rest)[rest] = g[rest]
  BY <1>2, <1>3, SumsAreUnique
<1>5. g[S] = f[Taken(S)] + g[S \ {Taken(S)}]
  BY <1>3 DEF Sums
<1> QED
  BY <1>1, <1>4, <1>5 DEF Total, g, rest

LEMMA TotalType ==
  ASSUME NEW S, IsFiniteSet(S), NEW f, \A x \in S : f[x] \in Int
  PROVE  Total(f, S) \in Int
<1> DEFINE Sized(n) == {s \in SUBSET S : IsFiniteSet(s) /\ Cardinality(s) = n}
           P == {n \in Nat : \A s \in Sized(n) : Total(f, s) \in Int}
<1>1. 0 \in P
  BY TotalOfEmpty, FS_EmptySet
<1>2. ASSUME NEW n \in Nat, n \in P
      PROVE  n + 1 \in P
  <2>1. ASSUME NEW s \in Sized(n + 1)
        PROVE  Total(f, s) \in Int
    <3>1. s # {} /\ IsFiniteSet(s) /\ Cardinality(s) = n + 1
      BY <2>1, FS_EmptySet
    <3>2. Taken(s) \in s /\ Total(f, s) = f[Taken(s)] + Total(f, s \ {Taken(s)})
      BY <3>1, TotalOfTaken
    <3>3. /\ IsFiniteSet(s \ {Taken(s)})
          /\ Cardinality(s \ {Taken(s)}) = Cardinality(s) - 1
      BY <3>1, <3>2, FS_RemoveElement
    <3>4. s \ {Taken(s)} \in Sized(n)
      BY <2>1, <3>1, <3>3
    <3>5. Total(f, s \ {Taken(s)}) \in Int /\ f[Taken(s)] \in Int
      BY <1>2, <2>1, <3>2, <3>4
    <3> QED
      BY <3>2, <3>5
  <2> QED
    BY <2>1
<1>3. Nat \subseteq P
  <2> HIDE DEF P
  <2> QED
    BY <1>1, <1>2, NatSetInduction
<1> QED
  BY <1>3, FS_CardinalityType

(* The order does not matter: any element may be the one that is taken. *)
LEMMA TotalAdd ==
  ASSUME NEW S, IsFiniteSet(S), NEW x, x \notin S, NEW f,
         \A y \in S \cup {x} : f[y] \in Int
  PROVE  Total(f, S \cup {x}) = Total(f, S) + f[x]
<1> DEFINE Sized(n) == {s \in SUBSET S : IsFiniteSet(s) /\ Cardinality(s) = n}
           P == {n \in Nat : \A s \in Sized(n) : \A y \in (S \cup {x}) \ s :
                   Total(f, s \cup {y}) = Total(f, s) + f[y]}
<1>1. ASSUME NEW s \in SUBSET S, NEW y \in (S \cup {x}) \ s
      PROVE  /\ IsFiniteSet(s) /\ IsFiniteSet(s \cup {y})
             /\ Total(f, s) \in Int
             /\ Taken(s \cup {y}) \in s \cup {y}
             /\ Total(f, s \cup {y}) = f[Taken(s \cup {y})]
                                        + Total(f, (s \cup {y}) \ {Taken(s \cup {y})})
  <2>1. IsFiniteSet(s) /\ IsFiniteSet(s \cup {y}) /\ s \cup {y} # {}
    BY FS_Subset, FS_AddElement
  <2>2. Total(f, s) \in Int
    BY <2>1, TotalType
  <2> QED
    BY <2>1, <2>2, TotalOfTaken
<1>2. ASSUME NEW s \in SUBSET S, NEW y \in (S \cup {x}) \ s,
             Taken(s \cup {y}) = y
      PROVE  Total(f, s \cup {y}) = Total(f, s) + f[y]
  <2>1. (s \cup {y}) \ {y} = s
    OBVIOUS
  <2> QED
    BY <1>1, <1>2, <2>1
<1>3. 0 \in P
  <2>1. ASSUME NEW s \in Sized(0), NEW y \in (S \cup {x}) \ s
        PROVE  Total(f, s \cup {y}) = Total(f, s) + f[y]
    <3>1. s = {}
      BY <2>1, FS_EmptySet
    <3>2. Taken(s \cup {y}) = y
      BY <1>1, <3>1
    <3> QED
      BY <1>2, <3>2
  <2> QED
    BY <2>1
<1>4. ASSUME NEW n \in Nat, n \in P
      PROVE  n + 1 \in P
  <2>1. ASSUME NEW s \in Sized(n + 1), NEW y \in (S \cup {x}) \ s
        PROVE  Total(f, s \cup {y}) = Total(f, s) + f[y]
    <3>1. PICK z : z = Taken(s \cup {y})
      OBVIOUS
    <3>2. CASE z = y
      BY <1>2, <3>1, <3>2
    <3>3. CASE z # y
      <4>1. z \in s /\ IsFiniteSet(s) /\ Cardinality(s) = n + 1
        BY <1>1, <2>1, <3>1, <3>3
      <4>2. IsFiniteSet(s \ {z}) /\ Cardinality(s \ {z}) = Cardinality(s) - 1
        BY <4>1, FS_RemoveElement
      <4>3. s \ {z} \in Sized(n)
        BY <2>1, <4>1, <4>2
      <4>4. /\ Total(f, (s \ {z}) \cup {y}) = Total(f, s \ {z}) + f[y]
            /\ Total(f, (s \ {z}) \cup {z}) = Total(f, s \ {z}) + f[z]
        BY <1>4, <2>1, <4>1, <4>3
      <4>5. (s \ {z}) \cup {z} = s /\ (s \cup {y}) \ {z} = (s \ {z}) \cup {y}
        BY <3>3, <4>1
      <4>6. Total(f, s \cup {y}) = f[z] + Total(f, (s \cup {y}) \ {z})
        BY <1>1, <2>1, <3>1
      <4>7. f[z] \in Int /\ f[y] \in Int /\ Total(f, s \ {z}) \in Int
        <5>1. Total(f, s \ {z}) \in Int
          BY <4>2, <2>1, TotalType
        <5> QED
          BY <2>1, <4>1, <5>1
      <4>8. Total(f, s) = Total(f, s \ {z}) + f[z]
        BY <4>4, <4>5, Zenon
      <4>9. Total(f, s \cup {y}) = f[z] + (Total(f, s \ {z}) + f[y])
        BY <4>4, <4>5, <4>6, Zenon
      <4> QED
        BY <4>7, <4>8, <4>9
    <3> QED
      BY <3>2, <3>3
  <2> QED
    BY <2>1
<1>5. Nat \subseteq P
  <2> HIDE DEF P
  <2> QED
    BY <1>3, <1>4, NatSetInduction
<1>6. Cardinality(S) \in Nat /\ S \in Sized(Cardinality(S))
  BY FS_CardinalityType
<1> QED
  BY <1>5, <1>6

LEMMA TotalOfUnion ==
  ASSUME NEW S, NEW T, IsFiniteSet(S), IsFiniteSet(T), S \cap T = {}, NEW f,
         \A x \in S \cup T : f[x] \in Int
  PROVE  Total(f, S \cup T) = Total(f, S) + Total(f, T)
<1> DEFINE P == {s \in SUBSET T : Total(f, S \cup s) = Total(f, S) + Total(f, s)}
<1>1. Total(f, S) \in Int
  BY TotalType
<1>2. {} \in P
  <2>1. S \cup {} = S
    OBVIOUS
  <2> QED
    BY <1>1, <2>1, TotalOfEmpty
<1>3. ASSUME NEW s \in SUBSET T, s \in P, NEW x \in T \ s
      PROVE  s \cup {x} \in P
  <2>1. IsFiniteSet(s) /\ IsFiniteSet(S \cup s)
    BY FS_Subset, FS_Union
  <2>2. Total(f, s \cup {x}) = Total(f, s) + f[x]
    BY <2>1, TotalAdd
  <2>3. Total(f, (S \cup s) \cup {x}) = Total(f, S \cup s) + f[x]
    BY <2>1, TotalAdd
  <2>4. (S \cup s) \cup {x} = S \cup (s \cup {x})
    OBVIOUS
  <2>5. Total(f, s) \in Int /\ f[x] \in Int
    BY <2>1, TotalType
  <2> QED
    <3>1. Total(f, S \cup s) = Total(f, S) + Total(f, s)
      BY <1>3
    <3>2. Total(f, S \cup (s \cup {x})) = Total(f, S) + Total(f, s \cup {x})
      <4>1. Total(f, S \cup (s \cup {x})) = (Total(f, S) + Total(f, s)) + f[x]
        BY <2>3, <2>4, <3>1, Zenon
      <4> QED
        BY <1>1, <2>2, <2>5, <4>1
    <3> QED
      BY <3>2
<1>4. T \in P
  <2> HIDE DEF P
  <2> QED
    BY <1>2, <1>3, SetInduction
<1> QED
  BY <1>4

LEMMA TotalIsBounded ==
  ASSUME NEW S, IsFiniteSet(S), NEW f, NEW m \in Int,
         \A x \in S : f[x] \in Int /\ f[x] <= m
  PROVE  Total(f, S) <= Cardinality(S) * m
<1> DEFINE P == {s \in SUBSET S : Total(f, s) <= Cardinality(s) * m}
<1>1. {} \in P
  BY TotalOfEmpty, FS_EmptySet
<1>2. ASSUME NEW s \in SUBSET S, s \in P, NEW x \in S \ s
      PROVE  s \cup {x} \in P
  <2>1. IsFiniteSet(s)
    BY FS_Subset
  <2>2. Total(f, s \cup {x}) = Total(f, s) + f[x]
    BY <2>1, TotalAdd
  <2>3. Cardinality(s \cup {x}) = Cardinality(s) + 1 /\ Cardinality(s) \in Nat
    BY <2>1, FS_AddElement, FS_CardinalityType
  <2>4. Total(f, s) \in Int /\ f[x] \in Int /\ f[x] <= m
    BY <2>1, TotalType
  <2>5. PICK k \in Nat : k = Cardinality(s)
    BY <2>3
  <2>6. (k + 1) * m = k * m + m /\ k * m \in Int
    BY <2>5
  <2>7. Total(f, s \cup {x}) <= (k + 1) * m
    BY <1>2, <2>2, <2>4, <2>5, <2>6
  <2> QED
    BY <2>3, <2>5, <2>7
<1>3. S \in P
  <2> HIDE DEF P
  <2> QED
    BY <1>1, <1>2, SetInduction
<1> QED
  BY <1>3

LEMMA TotalIsNatural ==
  ASSUME NEW S, IsFiniteSet(S), NEW f, \A x \in S : f[x] \in Nat
  PROVE  Total(f, S) \in Nat
<1> DEFINE P == {s \in SUBSET S : Total(f, s) \in Nat}
<1>1. {} \in P
  BY TotalOfEmpty
<1>2. ASSUME NEW s \in SUBSET S, s \in P, NEW x \in S \ s
      PROVE  s \cup {x} \in P
  <2>1. IsFiniteSet(s)
    BY FS_Subset
  <2>2. Total(f, s \cup {x}) = Total(f, s) + f[x]
    BY <2>1, TotalAdd
  <2> QED
    BY <1>2, <2>2
<1>3. S \in P
  <2> HIDE DEF P
  <2> QED
    BY <1>1, <1>2, SetInduction
<1> QED
  BY <1>3

(* One element less, and the same elsewhere. *)
LEMMA TotalRemove ==
  ASSUME NEW S, IsFiniteSet(S), NEW x \in S, NEW f, \A y \in S : f[y] \in Int
  PROVE  Total(f, S \ {x}) = Total(f, S) - f[x]
<1>1. IsFiniteSet(S \ {x}) /\ x \notin S \ {x} /\ (S \ {x}) \cup {x} = S
  BY FS_Subset
<1> DEFINE rest == S \ {x}
<1>2. \A y \in rest \cup {x} : f[y] \in Int
  BY <1>1
<1>3. Total(f, rest) \in Int /\ f[x] \in Int
  BY <1>1, TotalType
<1> HIDE DEF rest
<1>4. Total(f, rest \cup {x}) = Total(f, rest) + f[x]
  BY <1>1, <1>2, TotalAdd DEF rest
<1>5. Total(f, S) = Total(f, rest) + f[x]
  BY <1>1, <1>4, Zenon DEF rest
<1> QED
  BY <1>3, <1>5 DEF rest

LEMMA TotalOfSubset ==
  ASSUME NEW T, IsFiniteSet(T), NEW S \in SUBSET T, NEW f, \A x \in T : f[x] \in Nat
  PROVE  Total(f, S) <= Total(f, T)
<1>1. IsFiniteSet(S) /\ IsFiniteSet(T \ S) /\ S \cup (T \ S) = T
  BY FS_Subset
<1>2. Total(f, T) = Total(f, S) + Total(f, T \ S)
  BY <1>1, TotalOfUnion
<1>3. Total(f, S) \in Nat /\ Total(f, T \ S) \in Nat
  BY <1>1, TotalIsNatural
<1> QED
  BY <1>2, <1>3

LEMMA TotalIsMonotone ==
  ASSUME NEW S, IsFiniteSet(S), NEW f, NEW e,
         \A x \in S : f[x] \in Int /\ e[x] \in Int /\ f[x] <= e[x]
  PROVE  Total(f, S) <= Total(e, S)
<1> DEFINE P == {s \in SUBSET S : Total(f, s) <= Total(e, s)}
<1>1. {} \in P
  BY TotalOfEmpty
<1>2. ASSUME NEW s \in SUBSET S, s \in P, NEW x \in S \ s
      PROVE  s \cup {x} \in P
  <2>1. IsFiniteSet(s)
    BY FS_Subset
  <2>2. /\ Total(f, s \cup {x}) = Total(f, s) + f[x]
        /\ Total(e, s \cup {x}) = Total(e, s) + e[x]
    BY <2>1, TotalAdd
  <2>3. Total(f, s) \in Int /\ Total(e, s) \in Int
    BY <2>1, TotalType
  <2> QED
    BY <1>2, <2>2, <2>3
<1>3. S \in P
  <2> HIDE DEF P
  <2> QED
    BY <1>1, <1>2, SetInduction
<1> QED
  BY <1>3

(* The elements may be counted under other names. *)
LEMMA TotalReindexed ==
  ASSUME NEW S, IsFiniteSet(S), NEW f, NEW e, NEW h,
         \A x \in S : f[x] \in Int /\ e[h[x]] = f[x],
         \A x, y \in S : h[x] = h[y] => x = y
  PROVE  /\ IsFiniteSet({h[x] : x \in S})
         /\ Total(e, {h[x] : x \in S}) = Total(f, S)
<1> DEFINE Image(s) == {h[x] : x \in s}
           P == {s \in SUBSET S : IsFiniteSet(Image(s)) /\ Total(e, Image(s)) = Total(f, s)}
<1>1. {} \in P
  <2>1. Image({}) = {}
    OBVIOUS
  <2> QED
    BY <2>1, TotalOfEmpty, FS_EmptySet
<1>2. ASSUME NEW s \in SUBSET S, s \in P, NEW x \in S \ s
      PROVE  s \cup {x} \in P
  <2>1. IsFiniteSet(s) /\ IsFiniteSet(Image(s))
    BY <1>2, FS_Subset
  <2>2. PICK z : z = h[x]
    OBVIOUS
  <2>3. Image(s \cup {x}) = Image(s) \cup {z} /\ z \notin Image(s)
    BY <2>2
  <2>4. \A y \in Image(s) \cup {z} : e[y] \in Int
    BY <2>2
  <2> HIDE DEF Image
  <2>5. Total(e, Image(s) \cup {z}) = Total(e, Image(s)) + e[z]
    BY <2>1, <2>3, <2>4, TotalAdd
  <2>6. Total(f, s \cup {x}) = Total(f, s) + f[x]
    BY <2>1, TotalAdd
  <2>7. e[z] = f[x] /\ Total(e, Image(s)) = Total(f, s)
    BY <1>2, <2>2
  <2>8. Total(e, Image(s \cup {x})) = Total(f, s \cup {x})
    BY <2>3, <2>5, <2>6, <2>7, Zenon
  <2>9. IsFiniteSet(Image(s \cup {x}))
    <3>1. IsFiniteSet(Image(s) \cup {z})
      BY <2>1, FS_AddElement
    <3> QED
      BY <2>3, <3>1, Zenon
  <2> QED
    BY <2>8, <2>9
<1>3. S \in P
  <2> HIDE DEF P
  <2> QED
    BY <1>1, <1>2, SetInduction
<1> QED
  BY <1>3

(* Amounts that are sums themselves. *)
LEMMA TotalOfSums ==
  ASSUME NEW S, IsFiniteSet(S), NEW f, NEW e, NEW g,
         \A x \in S : e[x] \in Int /\ g[x] \in Int /\ f[x] = e[x] + g[x]
  PROVE  Total(f, S) = Total(e, S) + Total(g, S)
<1> DEFINE P == {s \in SUBSET S : Total(f, s) = Total(e, s) + Total(g, s)}
<1>1. {} \in P
  BY TotalOfEmpty
<1>2. ASSUME NEW s \in SUBSET S, s \in P, NEW x \in S \ s
      PROVE  s \cup {x} \in P
  <2>1. IsFiniteSet(s)
    BY FS_Subset
  <2>2. \A y \in s \cup {x} : f[y] \in Int /\ e[y] \in Int /\ g[y] \in Int
    OBVIOUS
  <2>3. /\ Total(f, s \cup {x}) = Total(f, s) + f[x]
        /\ Total(e, s \cup {x}) = Total(e, s) + e[x]
        /\ Total(g, s \cup {x}) = Total(g, s) + g[x]
    BY <2>1, <2>2, TotalAdd
  <2>4. Total(e, s) \in Int /\ Total(g, s) \in Int
    BY <2>1, <2>2, TotalType
  <2> QED
    BY <1>2, <2>3, <2>4
<1>3. S \in P
  <2> HIDE DEF P
  <2> QED
    BY <1>1, <1>2, SetInduction
<1> QED
  BY <1>3
=============================================================================
