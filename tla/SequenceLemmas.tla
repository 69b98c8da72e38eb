--------------------------- MODULE SequenceLemmas ---------------------------
(***************************************************************************)
(* Facts about numbers, sequences without repetition and sums that the     *)
(* proofs of several modules rest on.  Induction is used in the form of a  *)
(* least element: a set of natural numbers that is not empty has one.      *)
(***************************************************************************)
EXTENDS Integers, FiniteSets, SequencesExt, WellFoundedInduction, FiniteSetTheorems, TLAPS

Distinct(s) == \A i, j \in 1..Len(s) : s[i] = s[j] => i = j

\* Every set of natural numbers that has an element has a least one.
LEMMA LeastNumber ==
    ASSUME NEW S \in SUBSET Nat, S # {}
    PROVE  \E m \in S : \A k \in S : m <= k
  <1>1. IsWellFoundedOn(OpToRel(<, Nat), Nat)
    BY NatLessThanWellFounded
  <1>2. PICK m \in S : \A y \in S : ~(<<y, m>> \in OpToRel(<, Nat))
    BY <1>1, WFMin
  <1>3. \A k \in S : ~(k < m)
    BY <1>2 DEF OpToRel
  <1>. QED BY <1>3

\* Induction over a set of natural numbers.
LEMMA NumbersInduction ==
    ASSUME NEW S \in SUBSET Nat, 0 \in S, \A n \in S : n + 1 \in S
    PROVE  S = Nat
  <1> SUFFICES ASSUME Nat \ S # {} PROVE FALSE
    OBVIOUS
  <1>1. PICK m \in Nat \ S : \A k \in Nat \ S : m <= k
    BY LeastNumber
  <1>2. m # 0 /\ m - 1 \in Nat
    BY <1>1
  <1>3. m - 1 \in S
    BY <1>1, <1>2
  <1>4. (m - 1) + 1 \in S
    BY <1>3
  <1>. QED BY <1>1, <1>4

\* What the place of the first occurrence is.
LEMMA MinOfNumbers ==
    ASSUME NEW I \in SUBSET Nat, I # {}
    PROVE  Min(I) \in I
  <1>. QED BY LeastNumber DEF Min

\* The place of an element.
LEMMA PlaceOf ==
    ASSUME NEW S, NEW s \in Seq(S), NEW e, NEW p \in 1..Len(s), s[p] = e
    PROVE  /\ SelectInSeq(s, LAMBDA v : v = e) \in 1..Len(s)
           /\ s[SelectInSeq(s, LAMBDA v : v = e)] = e
  <1> DEFINE I == {i \in 1..Len(s) : s[i] = e}
  <1>1. I # {} /\ I \in SUBSET Nat
    OBVIOUS
  <1>2. Min(I) \in I
    BY <1>1, MinOfNumbers
  <1>3. SelectInSeq(s, LAMBDA v : v = e) = Min(I)
    BY <1>1 DEF SelectInSeq
  <1>. QED BY <1>2, <1>3

\* Without its place p a sequence is shorter by one, and what was behind p moves up.
LEMMA RemoveAtIs ==
    ASSUME NEW S, NEW s \in Seq(S), NEW p \in 1..Len(s)
    PROVE  /\ RemoveAt(s, p) \in Seq(S)
           /\ Len(RemoveAt(s, p)) = Len(s) - 1
           /\ \A i \in 1..Len(s) - 1 :
                 RemoveAt(s, p)[i] = IF i < p THEN s[i] ELSE s[i + 1]
  <1> DEFINE a == SubSeq(s, 1, p - 1)
             b == SubSeq(s, p + 1, Len(s))
  <1>1. a \in Seq(S) /\ Len(a) = p - 1 /\ \A i \in 1..p - 1 : a[i] = s[i]
    OBVIOUS
  <1>2. b \in Seq(S) /\ Len(b) = Len(s) - p /\ \A i \in 1..Len(s) - p : b[i] = s[p + i]
    OBVIOUS
  <1>3. RemoveAt(s, p) = a \o b
    BY DEF RemoveAt
  <1> HIDE DEF a, b
  <1>4. a \o b \in Seq(S) /\ Len(a \o b) = Len(s) - 1
    <2>1. a \o b \in Seq(S) /\ Len(a \o b) = Len(a) + Len(b)
      <3>1. a \in Seq(S) /\ b \in Seq(S)
        BY <1>1, <1>2
      <3>. QED BY <3>1
    <2>2. (p - 1) + (Len(s) - p) = Len(s) - 1
      OBVIOUS
    <2>. QED BY <1>1, <1>2, <2>1, <2>2
  <1>5. \A i \in 1..Len(s) - 1 : (a \o b)[i] = IF i < p THEN s[i] ELSE s[i + 1]
    BY <1>1, <1>2
  <1>. QED BY <1>3, <1>4, <1>5

\* What is left of a sequence without repetition when an element is taken out.
LEMMA RemoveFirstIs ==
    ASSUME NEW S, NEW s \in Seq(S), Distinct(s), NEW e
    PROVE  /\ RemoveFirst(s, e) \in Seq(S)
           /\ Distinct(RemoveFirst(s, e))
           /\ \A i \in 1..Len(RemoveFirst(s, e)) :
                 /\ RemoveFirst(s, e)[i] # e
                 /\ \E j \in 1..Len(s) : s[j] = RemoveFirst(s, e)[i]
           /\ \A j \in 1..Len(s) : s[j] # e =>
                 \E i \in 1..Len(RemoveFirst(s, e)) : s[j] = RemoveFirst(s, e)[i]
           /\ Len(RemoveFirst(s, e)) <= Len(s)
           /\ (\A j \in 1..Len(s) : s[j] # e) => RemoveFirst(s, e) = s
  <1>1. CASE \E p \in 1..Len(s) : s[p] = e
    <2> DEFINE p == SelectInSeq(s, LAMBDA v : v = e)
               r == RemoveAt(s, p)
    <2>1. p \in 1..Len(s) /\ s[p] = e
      BY <1>1, PlaceOf
    <2>2. RemoveFirst(s, e) = r
      BY <1>1 DEF RemoveFirst
    <2> HIDE DEF p
    <2>3. /\ r \in Seq(S) /\ Len(r) = Len(s) - 1
          /\ \A i \in 1..Len(s) - 1 : r[i] = IF i < p THEN s[i] ELSE s[i + 1]
      BY <2>1, RemoveAtIs
    <2> HIDE DEF r
    <2>4. Len(s) \in Nat /\ p \in Nat
      BY <2>1
    <2>5. Distinct(r)
      BY <2>1, <2>3, <2>4 DEF Distinct
    <2>6. \A i \in 1..Len(r) : r[i] # e /\ \E j \in 1..Len(s) : s[j] = r[i]
      BY <2>1, <2>3, <2>4 DEF Distinct
    <2>7. ASSUME NEW j \in 1..Len(s), s[j] # e
          PROVE  \E i \in 1..Len(r) : s[j] = r[i]
      <3>1. CASE j < p
        BY <3>1, <2>1, <2>3, <2>4
      <3>2. CASE j > p
        <4>1. j - 1 \in 1..Len(r) /\ ~(j - 1 < p) /\ (j - 1) + 1 = j
          BY <3>2, <2>1, <2>3, <2>4
        <4>. QED BY <4>1, <2>3
      <3>. QED BY <3>1, <3>2, <2>1, <2>7, <2>4
    <2>. QED BY <2>1, <2>2, <2>3, <2>4, <2>5, <2>6, <2>7
  <1>2. CASE ~\E p \in 1..Len(s) : s[p] = e
    BY <1>2 DEF RemoveFirst
  <1>. QED BY <1>1, <1>2

-----------------------------------------------------------------------------
(* Finite sets laid out.                                                    *)

\* A finite set with no more elements than another one fits into it.
LEMMA SmallerSetFits ==
    ASSUME NEW S, NEW T, IsFiniteSet(S), IsFiniteSet(T), Cardinality(S) <= Cardinality(T)
    PROVE  \E f \in [S -> T] : IsInjective(f)
  <1> DEFINE m == Cardinality(S)
             n == Cardinality(T)
  <1>1. /\ m \in Nat /\ n \in Nat /\ m <= n
        /\ ExistsBijection(1..m, S) /\ ExistsBijection(1..n, T)
    BY FS_CardinalityType
  <1> HIDE DEF m, n
  <1>2. PICK g : /\ g \in [1..m -> S]
                 /\ \A t \in S : \E i \in 1..m : g[i] = t
    BY <1>1 DEF ExistsBijection, Bijection, Surjection
  <1>3. PICK h : h \in [1..n -> T] /\ \A i, j \in 1..n : h[i] = h[j] => i = j
    BY <1>1 DEF ExistsBijection, Bijection, Injection, IsInjective
  <1> DEFINE place(t) == CHOOSE i \in 1..m : g[i] = t
             f == [t \in S |-> h[place(t)]]
  <1>4. \A t \in S : place(t) \in 1..m /\ g[place(t)] = t
    BY <1>2
  <1>5. \A i \in 1..m : i \in 1..n
    BY <1>1
  <1> HIDE DEF place
  <1>6. f \in [S -> T] /\ IsInjective(f)
    BY <1>3, <1>4, <1>5 DEF IsInjective
  <1>. QED BY <1>6

\* A finite set written as a sequence.
LEMMA SetToSeqIs ==
    ASSUME NEW S, IsFiniteSet(S)
    PROVE  /\ SetToSeq(S) \in Seq(S) /\ Len(SetToSeq(S)) = Cardinality(S)
           /\ Distinct(SetToSeq(S))
           /\ \A x \in S : \E i \in 1..Len(SetToSeq(S)) : SetToSeq(S)[i] = x
  <1> DEFINE n == Cardinality(S)
             s == SetToSeq(S)
  <1>1. n \in Nat /\ ExistsBijection(1..n, S)
    BY FS_CardinalityType
  <1>2. \E f \in [1..n -> S] : IsInjective(f)
    BY <1>1 DEF ExistsBijection, Bijection, Injection
  <1>3. s \in [1..n -> S] /\ IsInjective(s)
    BY <1>2 DEF SetToSeq
  <1> HIDE DEF s
  <1>4. s \in Seq(S) /\ Len(s) = n
    BY <1>1, <1>3
  <1>5. Distinct(s)
    BY <1>3, <1>4 DEF Distinct, IsInjective
  <1>6. IsFiniteSet(1..n) /\ Cardinality(1..n) = n
    <2>1. 1 \in Int /\ n \in Int /\ (IF 1 > n THEN 0 ELSE n - 1 + 1) = n
      BY <1>1
    <2>. QED BY <2>1, FS_Interval
  <1>7. s \in Injection(1..n, S)
    BY <1>3 DEF Injection
  <1>8. s \in Surjection(1..n, S)
    BY <1>6, <1>7, FS_Injection
  <1>9. \A x \in S : \E i \in 1..Len(s) : s[i] = x
    BY <1>4, <1>8 DEF Surjection
  <1>. QED BY <1>4, <1>5, <1>9 DEF s

-----------------------------------------------------------------------------
(* Sums over finite sets, as the folds of the community modules take them.  *)

Pick(s) == CHOOSE x \in s : TRUE

\* f gives every subset of S the sum of v over it.
IsSum(v, S, f) ==
    /\ f \in [SUBSET S -> Nat]
    /\ \A s \in SUBSET S : f[s] = IF s = {} THEN 0 ELSE v[Pick(s)] + f[s \ {Pick(s)}]

LEMMA PickIsIn == ASSUME NEW s, s # {} PROVE Pick(s) \in s
  BY DEF Pick

LEMMA OneLess ==
    ASSUME NEW s, IsFiniteSet(s), NEW x \in s
    PROVE  /\ IsFiniteSet(s \ {x}) /\ Cardinality(s) \in Nat \ {0}
           /\ Cardinality(s \ {x}) = Cardinality(s) - 1
           /\ Cardinality(s \ {x}) \in Nat
  <1>1. IsFiniteSet(s \ {x}) /\ Cardinality(s \ {x}) = Cardinality(s) - 1
    BY FS_RemoveElement
  <1>2. Cardinality(s) \in Nat /\ Cardinality(s \ {x}) \in Nat
    BY <1>1, FS_CardinalityType
  <1>. QED BY <1>1, <1>2

\* Every function on a finite set has a sum.
LEMMA SumExists ==
    ASSUME NEW S, IsFiniteSet(S), NEW v \in [S -> Nat]
    PROVE  \E f : IsSum(v, S, f)
  <1> DEFINE Small(n) == {s \in SUBSET S : Cardinality(s) <= n}
             Adds(f, s) == f[s] = IF s = {} THEN 0 ELSE v[Pick(s)] + f[s \ {Pick(s)}]
             G == {n \in Nat : \E f \in [Small(n) -> Nat] : \A s \in Small(n) : Adds(f, s)}
  <1>1. \A s \in SUBSET S : IsFiniteSet(s) /\ Cardinality(s) \in Nat /\ Cardinality(s) <= Cardinality(S)
    BY FS_Subset, FS_CardinalityType
  <1>2. 0 \in G
    <2>1. \A s \in Small(0) : s = {}
      BY <1>1, FS_EmptySet
    <2>2. [s \in Small(0) |-> 0] \in [Small(0) -> Nat]
      OBVIOUS
    <2>3. \A s \in Small(0) : Adds([u \in Small(0) |-> 0], s)
      BY <2>1
    <2>. QED BY <2>2, <2>3
  <1>3. ASSUME NEW n \in G PROVE n + 1 \in G
    <2>1. PICK f \in [Small(n) -> Nat] : \A s \in Small(n) : Adds(f, s)
      BY <1>3
    <2> DEFINE g == [s \in Small(n + 1) |->
                       IF s = {} THEN 0 ELSE v[Pick(s)] + f[s \ {Pick(s)}]]
    <2>2. ASSUME NEW s \in Small(n + 1), s # {}
          PROVE  s \ {Pick(s)} \in Small(n) /\ v[Pick(s)] \in Nat
      <3>1. Pick(s) \in s
        BY <2>2, PickIsIn
      <3>2. Cardinality(s \ {Pick(s)}) = Cardinality(s) - 1 /\ Cardinality(s) \in Nat
        BY <1>1, <3>1, OneLess
      <3>3. Cardinality(s \ {Pick(s)}) <= n
        BY <1>3, <3>2
      <3>. QED BY <3>1, <3>3
    <2>3. g \in [Small(n + 1) -> Nat]
      <3>1. \A s \in Small(n + 1) :
               (IF s = {} THEN 0 ELSE v[Pick(s)] + f[s \ {Pick(s)}]) \in Nat
        BY <2>1, <2>2
      <3>. QED BY <3>1
    <2>4. ASSUME NEW s \in Small(n) PROVE g[s] = f[s]
      <3>1. s \in Small(n + 1)
        BY <1>1, <1>3
      <3>. QED BY <2>1, <3>1
    <2>5. \A s \in Small(n + 1) : Adds(g, s)
      BY <2>2, <2>4
    <2>6. \E h \in [Small(n + 1) -> Nat] : \A s \in Small(n + 1) : Adds(h, s)
      <3> HIDE DEF g, Adds, Small
      <3>. QED BY <2>3, <2>5
    <2>7. n + 1 \in Nat
      BY <1>3
    <2>. HIDE DEF Adds, Small
    <2>. QED BY <2>6, <2>7
  <1>4. G = Nat
    BY <1>2, <1>3, NumbersInduction
  <1>5. Cardinality(S) \in G
    BY <1>4, FS_CardinalityType
  <1>6. Small(Cardinality(S)) = SUBSET S
    BY <1>1
  <1>7. PICK f \in [SUBSET S -> Nat] : \A s \in SUBSET S : Adds(f, s)
    BY <1>5, <1>6
  <1>. QED BY <1>7 DEF IsSum

AddsUp(v, S, f) ==
    f = [s \in SUBSET S |-> IF s = {} THEN 0 ELSE v[Pick(s)] + f[s \ {Pick(s)}]]

\* Whatever adds up in this way is a sum: its values are numbers.
LEMMA AddingUpIsSum ==
    ASSUME NEW S, IsFiniteSet(S), NEW v \in [S -> Nat], NEW f, AddsUp(v, S, f)
    PROVE  IsSum(v, S, f)
  <1> DEFINE G == {n \in Nat : \A s \in SUBSET S : Cardinality(s) = n => f[s] \in Nat}
  <1>1. \A s \in SUBSET S : IsFiniteSet(s) /\ Cardinality(s) \in Nat
    BY FS_Subset, FS_CardinalityType
  <1>2. \A s \in SUBSET S : f[s] = IF s = {} THEN 0 ELSE v[Pick(s)] + f[s \ {Pick(s)}]
    BY DEF AddsUp
  <1>3. 0 \in G
    <2>1. \A s \in SUBSET S : Cardinality(s) = 0 => s = {}
      BY <1>1, FS_EmptySet
    <2>2. f[{}] = 0
      BY <1>2
    <2>. QED BY <2>1, <2>2
  <1>4. ASSUME NEW n \in G PROVE n + 1 \in G
    <2>1. ASSUME NEW s \in SUBSET S, Cardinality(s) = n + 1
          PROVE  f[s] \in Nat
      <3>1. CASE s = {}
        BY <1>2, <3>1
      <3>2. CASE s # {}
        <4>1. Pick(s) \in s
          BY <3>2, PickIsIn
        <4>2. Cardinality(s \ {Pick(s)}) = n
          BY <1>1, <1>4, <2>1, <4>1, OneLess
        <4>3. f[s \ {Pick(s)}] \in Nat /\ v[Pick(s)] \in Nat
          BY <1>4, <4>1, <4>2
        <4>. QED BY <1>2, <3>2, <4>3
      <3>. QED BY <3>1, <3>2
    <2>. QED BY <1>4, <2>1
  <1>5. G = Nat
    BY <1>3, <1>4, NumbersInduction
  <1>6. \A s \in SUBSET S : f[s] \in Nat
    BY <1>1, <1>5
  <1>7. f = [s \in SUBSET S |-> f[s]]
    BY DEF AddsUp
  <1>8. f \in [SUBSET S -> Nat]
    BY <1>6, <1>7
  <1>. QED BY <1>2, <1>8 DEF IsSum

\* It does not matter which element is taken first.
LEMMA SumPeel ==
    ASSUME NEW S, IsFiniteSet(S), NEW v \in [S -> Nat], NEW f, IsSum(v, S, f),
           NEW s \in SUBSET S, NEW y \in s
    PROVE  f[s] = v[y] + f[s \ {y}]
  <1> DEFINE Good(u) == \A z \in u : f[u] = v[z] + f[u \ {z}]
             G == {n \in Nat : \A u \in SUBSET S : Cardinality(u) = n => Good(u)}
  <1>1. \A u \in SUBSET S : IsFiniteSet(u) /\ Cardinality(u) \in Nat
    BY FS_Subset, FS_CardinalityType
  <1>2. 0 \in G
    BY <1>1, FS_EmptySet
  <1>3. ASSUME NEW n \in G PROVE n + 1 \in G
    <2>1. ASSUME NEW u \in SUBSET S, Cardinality(u) = n + 1, NEW z \in u
          PROVE  f[u] = v[z] + f[u \ {z}]
      <3> DEFINE x == Pick(u)
      <3>1. x \in u /\ f[u] = v[x] + f[u \ {x}]
        BY PickIsIn DEF IsSum
      <3> HIDE DEF x
      <3>2. CASE x = z
        BY <3>1, <3>2
      <3>3. CASE x # z
        <4>1. Cardinality(u \ {x}) = n /\ Cardinality(u \ {z}) = n
          BY <1>1, <2>1, <3>1, OneLess
        <4>2. f[u \ {x}] = v[z] + f[(u \ {x}) \ {z}]
          BY <1>3, <3>3, <4>1
        <4>3. f[u \ {z}] = v[x] + f[(u \ {z}) \ {x}]
          BY <1>3, <3>1, <3>3, <4>1
        <4>4. (u \ {x}) \ {z} = (u \ {z}) \ {x}
          OBVIOUS
        <4>5. f[(u \ {x}) \ {z}] \in Nat /\ v[x] \in Nat /\ v[z] \in Nat
          BY <3>1 DEF IsSum
        <4> DEFINE rest == f[(u \ {x}) \ {z}]
        <4>6. /\ f[u] = v[x] + f[u \ {x}] /\ f[u \ {x}] = v[z] + rest
              /\ f[u \ {z}] = v[x] + rest /\ rest \in Nat
          BY <3>1, <4>2, <4>3, <4>4, <4>5
        <4> HIDE DEF rest
        <4>. QED BY <4>5, <4>6
      <3>. QED BY <3>2, <3>3
    <2>. QED BY <1>3, <2>1
  <1>4. G = Nat
    BY <1>2, <1>3, NumbersInduction
  <1>5. Cardinality(s) \in G
    BY <1>1, <1>4
  <1>. QED BY <1>5

\* A sum is at most another one when each of its positive terms is at most a term of
\* its own in the other one.
LEMMA SumAtMost ==
    ASSUME NEW S, IsFiniteSet(S), NEW v \in [S -> Nat], NEW f, IsSum(v, S, f),
           NEW T, IsFiniteSet(T), NEW w \in [T -> Nat], NEW g, IsSum(w, T, g),
           NEW h, \A i \in S : v[i] > 0 => h[i] \in T /\ v[i] <= w[h[i]],
           \A i, j \in S : v[i] > 0 /\ v[j] > 0 /\ h[i] = h[j] => i = j
    PROVE  f[S] <= g[T]
  <1> DEFINE Into(s, t) == \A i \in s : v[i] > 0 => h[i] \in t
             G == {n \in Nat : \A s \in SUBSET S : \A t \in SUBSET T :
                     Cardinality(s) = n /\ Into(s, t) => f[s] <= g[t]}
  <1>1. \A u \in SUBSET S : IsFiniteSet(u) /\ Cardinality(u) \in Nat
    BY FS_Subset, FS_CardinalityType
  <1>2. 0 \in G
    <2>1. f[{}] = 0 /\ \A t \in SUBSET T : g[t] \in Nat
      BY DEF IsSum
    <2>2. \A s \in SUBSET S : Cardinality(s) = 0 => s = {}
      BY <1>1, FS_EmptySet
    <2>3. ASSUME NEW s \in SUBSET S, NEW t \in SUBSET T, Cardinality(s) = 0
          PROVE  f[s] <= g[t]
      <3>1. s = {} /\ g[t] \in Nat
        BY <2>1, <2>2, <2>3
      <3>. QED BY <2>1, <3>1
    <2>. QED BY <2>3
  <1>3. ASSUME NEW n \in G PROVE n + 1 \in G
    <2>1. ASSUME NEW s \in SUBSET S, NEW t \in SUBSET T, Cardinality(s) = n + 1, Into(s, t)
          PROVE  f[s] <= g[t]
      <3>0. n \in Nat /\ n + 1 # 0 /\ Cardinality(s) = n + 1
        BY <1>3, <2>1
      <3>1. s # {}
        <4> HIDE DEF G, Into
        <4>. QED BY <3>0, FS_EmptySet
      <3>2. PICK i \in s : TRUE
        BY <3>1
      <3>3. f[s] = v[i] + f[s \ {i}] /\ Cardinality(s \ {i}) = n
        BY <1>1, <1>3, <2>1, SumPeel, OneLess
      <3>4. v[i] \in Nat /\ f[s \ {i}] \in Nat
        BY DEF IsSum
      <3>5. CASE v[i] = 0
        <4>1. f[s \ {i}] <= g[t]
          BY <1>3, <2>1, <3>3
        <4>. QED BY <3>3, <3>4, <3>5, <4>1
      <3>6. CASE v[i] # 0
        <4>1. v[i] > 0 /\ h[i] \in t /\ v[i] <= w[h[i]]
          BY <2>1, <3>4, <3>6
        <4>2. Into(s \ {i}, t \ {h[i]})
          BY <2>1, <4>1
        <4>3. f[s \ {i}] <= g[t \ {h[i]}]
          BY <1>3, <3>3, <4>2
        <4>4. g[t] = w[h[i]] + g[t \ {h[i]}]
          BY <4>1, SumPeel
        <4>5. g[t \ {h[i]}] \in Nat /\ w[h[i]] \in Nat
          BY <4>1 DEF IsSum
        <4>. QED BY <3>3, <3>4, <4>1, <4>3, <4>4, <4>5
      <3>. QED BY <3>5, <3>6
    <2>. QED BY <1>3, <2>1
  <1>4. G = Nat
    BY <1>2, <1>3, NumbersInduction
  <1>5. Cardinality(S) \in G /\ Into(S, T)
    BY <1>1, <1>4
  <1>. QED BY <1>5

\* The sum with one term more.
LEMMA SumOneMore ==
    ASSUME NEW T, IsFiniteSet(T), NEW v \in [T -> Nat], NEW f, IsSum(v, T, f), NEW n \in T,
           NEW w \in [T \ {n} -> Nat], NEW g, IsSum(w, T \ {n}, g),
           \A i \in T \ {n} : v[i] <= w[i]
    PROVE  f[T] <= v[n] + g[T \ {n}]
  <1> DEFINE S == T \ {n}
             u == [i \in S |-> v[i]]
             e == [s \in SUBSET S |-> f[s]]
             h == [i \in S |-> i]
  <1>1. IsFiniteSet(S) /\ u \in [S -> Nat]
    BY FS_Subset
  <1>2. IsSum(u, S, e)
    <2>1. e \in [SUBSET S -> Nat]
      BY DEF IsSum
    <2>2. ASSUME NEW s \in SUBSET S
          PROVE  e[s] = IF s = {} THEN 0 ELSE u[Pick(s)] + e[s \ {Pick(s)}]
      <3>1. CASE s = {}
        BY <3>1 DEF IsSum
      <3>2. CASE s # {}
        <4>1. Pick(s) \in s /\ s \in SUBSET T
          BY <3>2, PickIsIn
        <4>2. s \ {Pick(s)} \in SUBSET S
          BY <4>1
        <4>. QED BY <3>2, <4>1, <4>2 DEF IsSum
      <3>. QED BY <3>1, <3>2
    <2>. HIDE DEF e, u, S
    <2>. QED BY <2>1, <2>2 DEF IsSum
  <1>3. \A i \in S : u[i] > 0 => h[i] \in S /\ u[i] <= w[h[i]]
    OBVIOUS
  <1>4. \A i, j \in S : u[i] > 0 /\ u[j] > 0 /\ h[i] = h[j] => i = j
    OBVIOUS
  <1>5. e[S] <= g[S]
    <2>. HIDE DEF u, e, h
    <2>. QED BY <1>1, <1>2, <1>3, <1>4, SumAtMost
  <1>6. f[T] = v[n] + f[S] /\ e[S] = f[S]
    BY SumPeel
  <1>7. f[S] \in Nat /\ g[S] \in Nat /\ v[n] \in Nat
    BY DEF IsSum
  <1> HIDE DEF S, u, e, h
  <1>. QED BY <1>5, <1>6, <1>7 DEF S
=============================================================================
