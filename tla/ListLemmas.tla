----------------------------- MODULE ListLemmas -----------------------------
(***************************************************************************)
(* Facts about numbers, lists and folds that the proofs about RuleStore,   *)
(* RuleDraft, Expansion and Exchange share.  What is defined by recursion  *)
(* exists because there is a least counterexample otherwise: the set of the *)
(* numbers up to which it exists takes the place of the predicate that the *)
(* library's induction theorems have for a parameter.                      *)
(***************************************************************************)
EXTENDS SequencesExt, SequenceTheorems, FiniteSetTheorems, WellFoundedInduction, TLAPS

(***************************************************************************)
(* Numbers.                                                                *)
(***************************************************************************)
\* Every set of natural numbers has a least one.
LEMMA LeastExists ==
  ASSUME NEW S \in SUBSET Nat, S # {}
  PROVE  \E x \in S : \A y \in S : x <= y
<1>1. PICK x \in S : \A y \in S : ~ (<<y, x>> \in OpToRel(<, Nat))
  BY WFMin, NatLessThanWellFounded
<1>2. \A y \in S : x \in Nat /\ y \in Nat /\ ~ (y < x)
  BY <1>1 DEF OpToRel
<1>3. \A y \in S : x <= y
  BY <1>2
<1> QED BY <1>3

\* Induction on a set of numbers.
LEMMA SetInduction ==
  ASSUME NEW T, 0 \in T, \A n \in Nat : n \in T => n + 1 \in T
  PROVE  \A n \in Nat : n \in T
<1> SUFFICES ASSUME Nat \ T # {} PROVE FALSE
  OBVIOUS
<1>1. PICK x \in Nat \ T : \A y \in Nat \ T : x <= y
  BY LeastExists
<1>2. x # 0 /\ x - 1 \in Nat /\ x - 1 \in T
  BY <1>1
<1>3. (x - 1) + 1 \in T
  BY <1>2
<1> QED BY <1>1, <1>3

LEMMA IntervalInduction ==
  ASSUME NEW N \in Nat, NEW T, 0 \in T, \A n \in 1 .. N : n - 1 \in T => n \in T
  PROVE  \A n \in 0 .. N : n \in T
<1> DEFINE S == {n \in Nat : n \in 0 .. N => n \in T}
<1>1. 0 \in S
  OBVIOUS
<1>2. ASSUME NEW n \in Nat, n \in S PROVE n + 1 \in S
  <2>1. (n + 1) - 1 = n
    OBVIOUS
  <2>2. n + 1 \in 0 .. N => n + 1 \in 1 .. N /\ n \in 0 .. N
    OBVIOUS
  <2> QED BY <1>2, <2>1, <2>2
<1> HIDE DEF S
<1>3. \A n \in Nat : n \in S
  BY <1>1, <1>2, SetInduction
<1> QED BY <1>3 DEF S

\* What every turn of a loop keeps.
LEMMA StaysIn ==
  ASSUME NEW N \in Nat, NEW V, NEW f, f[0] \in V, \A n \in 1 .. N : f[n - 1] \in V => f[n] \in V
  PROVE  \A n \in 0 .. N : f[n] \in V
<1> DEFINE T == {n \in 0 .. N : f[n] \in V}
<1>1. 0 \in T
  OBVIOUS
<1>2. \A n \in 1 .. N : n - 1 \in T => n \in T
  OBVIOUS
<1> HIDE DEF T
<1>3. \A n \in 0 .. N : n \in T
  BY <1>1, <1>2, IntervalInduction
<1> QED BY <1>3 DEF T

LEMMA ProductGrows ==
  ASSUME NEW a \in Nat, NEW b \in Nat, NEW c \in Nat, a <= b
  PROVE  a * c \in Nat /\ b * c \in Nat /\ a * c <= b * c
OBVIOUS

LEMMA MinIsLeast ==
  ASSUME NEW S \in SUBSET Nat, S # {}
  PROVE  Min(S) \in S /\ \A y \in S : Min(S) <= y
<1>1. \E x \in S : \A y \in S : x <= y
  BY LeastExists
<1> QED BY <1>1 DEF Min

LEMMA MinIsUnique ==
  ASSUME NEW S \in SUBSET Nat, NEW x \in S, \A y \in S : x <= y
  PROVE  Min(S) = x
<1>1. Min(S) \in S /\ Min(S) <= x
  BY MinIsLeast
<1>2. x <= Min(S) /\ x \in Nat /\ Min(S) \in Nat
  BY <1>1
<1> QED BY <1>1, <1>2

LEMMA MaxIsGreatest ==
  ASSUME NEW N \in Nat, NEW S \in SUBSET (0 .. N), S # {}
  PROVE  Max(S) \in S /\ \A y \in S : Max(S) >= y
<1> DEFINE R == {N - y : y \in S}
<1>1. R \in SUBSET Nat /\ R # {}
  <2>1. \A y \in S : y \in 0 .. N
    OBVIOUS
  <2>2. \A r \in R : r \in Nat
    BY <2>1
  <2> QED BY <2>2
<1>2. PICK r \in R : \A y \in R : r <= y
  BY <1>1, LeastExists
<1>3. PICK x \in S : r = N - x
  BY <1>2
<1>4. \A y \in S : N - y \in R
  OBVIOUS
<1> HIDE DEF R
<1>5. \A y \in S : x >= y
  BY <1>2, <1>3, <1>4
<1> QED BY <1>3, <1>5 DEF Max

(***************************************************************************)
(* Recursion over an interval and over the sets of a fold.                 *)
(***************************************************************************)
\* f is what recursion from a by G makes.
Recursion(f, N, V, a, G) ==
  f \in [0 .. N -> V] /\ f[0] = a /\ \A k \in 1 .. N : f[k] = G[<<f[k - 1], k>>]

LEMMA RecursionExists ==
  ASSUME NEW N \in Nat, NEW V, NEW a \in V, NEW G \in [V \X (1 .. N) -> V]
  PROVE  \E f : Recursion(f, N, V, a, G)
<1> DEFINE Upto(f, n) == f[0] = a /\ \A k \in 1 .. N : k <= n => f[k] = G[<<f[k - 1], k>>]
           T == {n \in Nat : \E f \in [0 .. N -> V] : Upto(f, n)}
<1>1. 0 \in T
  <2>1. [k \in 0 .. N |-> a] \in [0 .. N -> V] /\ Upto([k \in 0 .. N |-> a], 0)
    OBVIOUS
  <2> QED BY <2>1
<1>2. ASSUME NEW n \in Nat, n \in T PROVE n + 1 \in T
  <2>1. PICK f \in [0 .. N -> V] : Upto(f, n)
    BY <1>2
  <2>2. CASE n + 1 \in 1 .. N
    <3> DEFINE g == [f EXCEPT ![n + 1] = G[<<f[n], n + 1>>]]
    <3>1. G[<<f[n], n + 1>>] \in V
      BY <2>2
    <3>2. g \in [0 .. N -> V]
      BY <3>1
    <3>3. \A k \in 0 .. N : k <= n => g[k] = f[k]
      OBVIOUS
    <3>4. g[n + 1] = G[<<g[n], n + 1>>]
      <4>1. g[n] = f[n] /\ n + 1 \in DOMAIN f
        BY <2>2, <3>3
      <4> QED BY <4>1
    <3> HIDE DEF g
    <3>5. ASSUME NEW k \in 1 .. N, k <= n PROVE g[k] = G[<<g[k - 1], k>>]
      <4>1. g[k] = f[k] /\ g[k - 1] = f[k - 1]
        BY <3>3, <3>5
      <4> QED BY <2>1, <3>5, <4>1
    <3>6. Upto(g, n + 1)
      BY <2>1, <3>3, <3>4, <3>5
    <3> QED BY <3>2, <3>6
  <2>3. CASE n + 1 \notin 1 .. N
    <3>1. Upto(f, n + 1)
      BY <2>1, <2>3
    <3> QED BY <3>1
  <2> QED BY <2>2, <2>3
<1> HIDE DEF T
<1>3. N \in T
  BY <1>1, <1>2, SetInduction
<1>4. PICK f \in [0 .. N -> V] : Upto(f, N)
  BY <1>3 DEF T
<1> QED BY <1>4 DEF Recursion

\* A loop over turns of D that stops, or goes on with the next turn.
IsLoop(f, D, V, stop, result, next) ==
  f \in [D -> V] /\ \A z \in D : f[z] = IF z \in stop THEN result[z] ELSE f[next[z]]

LEMMA LoopExists ==
  ASSUME NEW D, NEW V, NEW stop, NEW result \in [D -> V], NEW next,
         NEW K \in Nat, NEW rank \in [D -> 0 .. K],
         \A z \in D \ stop : next[z] \in D /\ rank[next[z]] < rank[z]
  PROVE  \E f : IsLoop(f, D, V, stop, result, next)
<1> DEFINE Turn(f, z) == IF z \in stop THEN result[z] ELSE f[next[z]]
           Below(f, n) == \A z \in D : rank[z] < n => f[z] = Turn(f, z)
           T == {n \in Nat : \E f \in [D -> V] : Below(f, n)}
<1>1. 0 \in T
  <2>1. \A z \in D : ~(rank[z] < 0)
    OBVIOUS
  <2> QED BY <2>1
<1>2. ASSUME NEW n \in Nat, n \in T PROVE n + 1 \in T
  <2>1. PICK f \in [D -> V] : Below(f, n)
    BY <1>2
  <2> DEFINE g == [z \in D |-> IF rank[z] = n THEN Turn(f, z) ELSE f[z]]
  <2>2. \A z \in D : Turn(f, z) \in V
    OBVIOUS
  <2>3. g \in [D -> V] /\ \A z \in D : g[z] = IF rank[z] = n THEN Turn(f, z) ELSE f[z]
    BY <2>2
  <2> HIDE DEF g
  <2>4. ASSUME NEW z \in D, rank[z] < n + 1 PROVE g[z] = Turn(g, z)
    <3>1. g[z] = Turn(f, z)
      <4>1. CASE rank[z] = n
        BY <2>3, <4>1
      <4>2. CASE rank[z] # n
        <5>1. rank[z] \in 0 .. K /\ rank[z] < n
          BY <2>4, <4>2
        <5> QED BY <2>1, <2>3, <4>2, <5>1
      <4> QED BY <4>1, <4>2
    <3>2. CASE z \in stop
      BY <3>1, <3>2
    <3>3. CASE z \notin stop
      <4>1. next[z] \in D /\ rank[next[z]] < rank[z] /\ rank[z] \in 0 .. K /\ rank[next[z]] \in 0 .. K
        BY <3>3
      <4>2. rank[next[z]] # n
        BY <2>4, <4>1
      <4>3. g[next[z]] = f[next[z]]
        BY <2>3, <4>1, <4>2
      <4> QED BY <3>1, <3>3, <4>3
    <3> QED BY <3>2, <3>3
  <2>5. Below(g, n + 1)
    BY <2>4
  <2> QED BY <2>3, <2>5
<1> HIDE DEF T
<1>3. K + 1 \in T
  BY <1>1, <1>2, SetInduction
<1>4. PICK f \in [D -> V] : Below(f, K + 1)
  BY <1>3 DEF T
<1>5. \A z \in D : rank[z] < K + 1
  OBVIOUS
<1> QED BY <1>4, <1>5 DEF IsLoop

\* And for a sum that goes the same way down: as much is added at each turn.
IsSum(f, D, stop, add, next) ==
  f \in [D -> Int] /\ \A z \in D : f[z] = IF z \in stop THEN 0 ELSE add[z] + f[next[z]]

LEMMA SumExists ==
  ASSUME NEW D, NEW stop, NEW add \in [D -> Int], NEW next,
         NEW K \in Nat, NEW rank \in [D -> 0 .. K],
         \A z \in D \ stop : next[z] \in D /\ rank[next[z]] < rank[z]
  PROVE  \E f : IsSum(f, D, stop, add, next)
<1> DEFINE Turn(f, z) == IF z \in stop THEN 0 ELSE add[z] + f[next[z]]
           Below(f, n) == \A z \in D : rank[z] < n => f[z] = Turn(f, z)
           T == {n \in Nat : \E f \in [D -> Int] : Below(f, n)}
<1>1. 0 \in T
  <2>1. \A z \in D : ~(rank[z] < 0)
    OBVIOUS
  <2>2. [z \in D |-> 0] \in [D -> Int]
    OBVIOUS
  <2> QED BY <2>1, <2>2
<1>2. ASSUME NEW n \in Nat, n \in T PROVE n + 1 \in T
  <2>1. PICK f \in [D -> Int] : Below(f, n)
    BY <1>2
  <2> DEFINE g == [z \in D |-> IF rank[z] = n THEN Turn(f, z) ELSE f[z]]
  <2>2. \A z \in D : Turn(f, z) \in Int
    <3> TAKE z \in D
    <3>1. z \notin stop => add[z] \in Int /\ f[next[z]] \in Int
      OBVIOUS
    <3> QED BY <3>1
  <2>3. g \in [D -> Int] /\ \A z \in D : g[z] = IF rank[z] = n THEN Turn(f, z) ELSE f[z]
    <3> HIDE DEF Turn
    <3> QED BY <2>2
  <2> HIDE DEF g
  <2>4. ASSUME NEW z \in D, rank[z] < n + 1 PROVE g[z] = Turn(g, z)
    <3>1. g[z] = Turn(f, z)
      <4>1. CASE rank[z] = n
        BY <2>3, <4>1
      <4>2. CASE rank[z] # n
        <5>1. rank[z] \in 0 .. K /\ rank[z] < n
          BY <2>4, <4>2
        <5> QED BY <2>1, <2>3, <4>2, <5>1
      <4> QED BY <4>1, <4>2
    <3>2. CASE z \in stop
      BY <3>1, <3>2
    <3>3. CASE z \notin stop
      <4>1. next[z] \in D /\ rank[next[z]] < rank[z] /\ rank[z] \in 0 .. K /\ rank[next[z]] \in 0 .. K
        BY <3>3
      <4>2. rank[next[z]] # n
        BY <2>4, <4>1
      <4>3. g[next[z]] = f[next[z]]
        BY <2>3, <4>1, <4>2
      <4> QED BY <3>1, <3>3, <4>3
    <3> QED BY <3>2, <3>3
  <2>5. Below(g, n + 1)
    BY <2>4
  <2> QED BY <2>3, <2>5
<1> HIDE DEF T
<1>3. K + 1 \in T
  BY <1>1, <1>2, SetInduction
<1>4. PICK f \in [D -> Int] : Below(f, K + 1)
  BY <1>3 DEF T
<1>5. \A z \in D : rank[z] < K + 1
  OBVIOUS
<1> QED BY <1>4, <1>5 DEF IsSum

(***************************************************************************)
(* Sets of numbers in their order.                                         *)
(***************************************************************************)
LEMMA AscendingExists ==
  ASSUME NEW N \in Nat, NEW S \in SUBSET (1 .. N)
  PROVE  \E s \in [1 .. Cardinality(S) -> S] : \A i, j \in DOMAIN s : i < j => s[i] < s[j]
<1> DEFINE Ordered(R, s) == \A i, j \in 1 .. Cardinality(R) : i < j => s[i] < s[j]
           T == {n \in Nat : \A R \in SUBSET (1 .. n) : \E s \in [1 .. Cardinality(R) -> R] : Ordered(R, s)}
<1>1. 0 \in T
  <2> SUFFICES ASSUME NEW R \in SUBSET (1 .. 0)
               PROVE  \E s \in [1 .. Cardinality(R) -> R] : Ordered(R, s)
    OBVIOUS
  <2>1. R = {}
    OBVIOUS
  <2>2. Cardinality(R) = 0
    BY <2>1, FS_EmptySet
  <2>3. [i \in 1 .. 0 |-> i] \in [1 .. Cardinality(R) -> R] /\ Ordered(R, [i \in 1 .. 0 |-> i])
    BY <2>2
  <2> QED BY <2>3
<1>2. ASSUME NEW n \in Nat, n \in T PROVE n + 1 \in T
  <2> SUFFICES ASSUME NEW R \in SUBSET (1 .. n + 1)
               PROVE  \E s \in [1 .. Cardinality(R) -> R] : Ordered(R, s)
    OBVIOUS
  <2>1. CASE n + 1 \notin R
    <3>1. R \in SUBSET (1 .. n)
      BY <2>1
    <3> QED BY <1>2, <3>1
  <2>2. CASE n + 1 \in R
    <3> DEFINE Q == R \ {n + 1}
               c == Cardinality(Q)
    <3>1. Q \in SUBSET (1 .. n)
      OBVIOUS
    <3>2. PICK s \in [1 .. c -> Q] : Ordered(Q, s)
      BY <1>2, <3>1
    <3>3. c \in Nat /\ Cardinality(R) = c + 1
      <4>1. IsFiniteSet(Q)
        <5>1. IsFiniteSet(1 .. n)
          BY FS_Interval
        <5> HIDE DEF Q
        <5> QED BY <3>1, <5>1, FS_Subset
      <4>2. R = Q \cup {n + 1} /\ n + 1 \notin Q
        BY <2>2
      <4> QED BY <4>1, <4>2, FS_AddElement, FS_CardinalityType
    <3>4. \A i \in 1 .. c : s[i] \in 1 .. n /\ s[i] \in R
      BY <3>1, <3>2
    <3>5. \A i, j \in 1 .. c : i < j => s[i] < s[j]
      BY <3>2
    <3> HIDE DEF Q, c
    <3> DEFINE t == [i \in 1 .. c + 1 |-> IF i = c + 1 THEN n + 1 ELSE s[i]]
    <3>6. t \in [1 .. c + 1 -> R]
      BY <2>2, <3>3, <3>4
    <3>7. \A i, j \in 1 .. c + 1 : i < j => t[i] < t[j]
      BY <3>3, <3>4, <3>5
    <3> HIDE DEF t
    <3>8. Ordered(R, t)
      BY <3>3, <3>7
    <3> QED BY <3>3, <3>6, <3>8
  <2> QED BY <2>1, <2>2
<1> HIDE DEF T
<1>3. N \in T
  BY <1>1, <1>2, SetInduction
<1>4. PICK s \in [1 .. Cardinality(S) -> S] : Ordered(S, s)
  BY <1>3 DEF T
<1>5. DOMAIN s = 1 .. Cardinality(S)
  OBVIOUS
<1> QED BY <1>4, <1>5

\* A set can be listed by a key that is different for each element.
LEMMA SortedExists ==
  ASSUME NEW N \in Nat, NEW S, NEW key \in [S -> 1 .. N], \A x, y \in S : key[x] = key[y] => x = y
  PROVE  /\ IsFiniteSet(S)
         /\ \E s : /\ s \in [1 .. Cardinality(S) -> S]
                   /\ \A i, j \in 1 .. Cardinality(S) : i < j => key[s[i]] < key[s[j]]
<1> DEFINE K == {key[x] : x \in S}
<1>1. K \in SUBSET (1 .. N)
  OBVIOUS
<1>2. IsFiniteSet(1 .. N)
  <2>1. 1 \in Int /\ N \in Int
    OBVIOUS
  <2> QED BY <2>1, FS_Interval
<1>3. IsFiniteSet(K)
  BY <1>1, <1>2, FS_Subset
<1>4. key \in Injection(S, K)
  BY DEF Injection, IsInjective
<1>5. key \in Surjection(S, K)
  BY DEF Surjection
<1> HIDE DEF K
<1>6. IsFiniteSet(S) /\ Cardinality(S) = Cardinality(K)
  BY <1>3, <1>4, <1>5, FS_Injection
<1>7. PICK t \in [1 .. Cardinality(K) -> K] : \A i, j \in DOMAIN t : i < j => t[i] < t[j]
  BY <1>1, AscendingExists
<1>8. \A k \in K : \E x \in S : key[x] = k
  BY DEF K
<1> DEFINE s == [i \in 1 .. Cardinality(S) |-> CHOOSE x \in S : key[x] = t[i]]
<1>9. \A i \in 1 .. Cardinality(S) : s[i] \in S /\ key[s[i]] = t[i]
  <2> TAKE i \in 1 .. Cardinality(S)
  <2>1. t[i] \in K
    BY <1>6, <1>7
  <2> QED BY <1>8, <2>1
<1>10. s \in [1 .. Cardinality(S) -> S]
  BY <1>9
<1> HIDE DEF s
<1>11. \A i, j \in 1 .. Cardinality(S) : i < j => key[s[i]] < key[s[j]]
  BY <1>6, <1>7, <1>9
<1> QED BY <1>6, <1>10, <1>11

\* A list of as many different elements as a set has is all of the set.
LEMMA EnumerationIsOnto ==
  ASSUME NEW S, IsFiniteSet(S), NEW s \in [1 .. Cardinality(S) -> S],
         \A i, j \in 1 .. Cardinality(S) : s[i] = s[j] => i = j
  PROVE  \A x \in S : \E i \in 1 .. Cardinality(S) : s[i] = x
<1>1. Cardinality(S) \in Nat
  BY FS_CardinalityType
<1>2. Cardinality(1 .. Cardinality(S)) = Cardinality(S)
  BY <1>1, FS_Interval
<1>3. s \in Injection(1 .. Cardinality(S), S)
  BY DEF Injection, IsInjective
<1>4. s \in Surjection(1 .. Cardinality(S), S)
  BY <1>2, <1>3, FS_Injection
<1> QED BY <1>4 DEF Surjection

(***************************************************************************)
(* Lists.                                                                  *)
(***************************************************************************)
LEMMA RemoveAtProperties ==
  ASSUME NEW S, NEW s \in Seq(S), NEW p \in DOMAIN s
  PROVE  /\ RemoveAt(s, p) \in Seq(S)
         /\ Len(RemoveAt(s, p)) = Len(s) - 1
         /\ \A i \in 1 .. Len(s) - 1 :
              RemoveAt(s, p)[i] = IF i < p THEN s[i] ELSE s[i + 1]
<1>1. Len(s) \in Nat /\ p \in 1 .. Len(s) /\ \A i \in 1 .. Len(s) : s[i] \in S
  BY LenProperties
<1> DEFINE head == SubSeq(s, 1, p - 1)
           tail == SubSeq(s, p + 1, Len(s))
<1>2. /\ head \in Seq(S)
      /\ Len(head) = p - 1
      /\ \A i \in 1 .. p - 1 : head[i] = s[i]
  <2>1. 1 \in Int /\ p - 1 \in Int /\ \A i \in 1 .. p - 1 : s[i] \in S
    BY <1>1
  <2>2. /\ head \in Seq(S)
        /\ Len(head) = IF 1 <= p - 1 THEN (p - 1) - 1 + 1 ELSE 0
        /\ \A i \in 1 .. (p - 1) - 1 + 1 : head[i] = s[1 + i - 1]
    BY <2>1, SubSeqProperties
  <2> HIDE DEF head
  <2>3. Len(head) = p - 1
    BY <1>1, <2>2
  <2>4. ASSUME NEW i \in 1 .. p - 1 PROVE head[i] = s[i]
    <3>1. i \in 1 .. (p - 1) - 1 + 1 /\ 1 + i - 1 = i
      BY <1>1
    <3>2. head[i] = s[1 + i - 1]
      BY <2>2, <3>1
    <3> QED BY <3>1, <3>2
  <2> QED BY <2>2, <2>3, <2>4
<1>3. /\ tail \in Seq(S)
      /\ Len(tail) = Len(s) - p
      /\ \A i \in 1 .. Len(s) - p : tail[i] = s[p + i]
  <2>1. p + 1 \in Int /\ Len(s) \in Int /\ \A i \in p + 1 .. Len(s) : s[i] \in S
    BY <1>1
  <2>2. /\ tail \in Seq(S)
        /\ Len(tail) = IF p + 1 <= Len(s) THEN Len(s) - (p + 1) + 1 ELSE 0
        /\ \A i \in 1 .. Len(s) - (p + 1) + 1 : tail[i] = s[p + 1 + i - 1]
    BY <2>1, SubSeqProperties
  <2> HIDE DEF tail
  <2> QED BY <1>1, <2>2
<1>4. RemoveAt(s, p) = head \o tail
  BY DEF RemoveAt
<1> HIDE DEF head, tail
<1>5. /\ head \o tail \in Seq(S)
      /\ Len(head \o tail) = Len(head) + Len(tail)
      /\ \A i \in 1 .. Len(head) + Len(tail) :
           (head \o tail)[i] = IF i <= Len(head) THEN head[i] ELSE tail[i - Len(head)]
  BY <1>2, <1>3, ConcatProperties
<1>6. \A i \in 1 .. Len(s) - 1 : (head \o tail)[i] = IF i < p THEN s[i] ELSE s[i + 1]
  <2> TAKE i \in 1 .. Len(s) - 1
  <2>1. i \in 1 .. Len(head) + Len(tail)
    BY <1>1, <1>2, <1>3
  <2>2. (head \o tail)[i] = IF i <= p - 1 THEN head[i] ELSE tail[i - (p - 1)]
    BY <1>2, <1>5, <2>1
  <2>3. CASE i < p
    BY <1>1, <1>2, <2>2, <2>3
  <2>4. CASE ~(i < p)
    <3>1. i - (p - 1) \in 1 .. Len(s) - p /\ ~(i <= p - 1) /\ p + (i - (p - 1)) = i + 1
      BY <1>1, <2>4
    <3> QED BY <1>3, <2>2, <2>4, <3>1
  <2> QED BY <2>3, <2>4
<1> QED BY <1>1, <1>2, <1>3, <1>4, <1>5, <1>6

\* An element is put between others.
LEMMA InsertAtProperties ==
  ASSUME NEW S, NEW s \in Seq(S), NEW p \in 1 .. Len(s) + 1, NEW e \in S
  PROVE  InsertAt(s, p, e) \in Seq(S)
<1>1. Len(s) \in Nat /\ \A i \in 1 .. Len(s) : s[i] \in S
  BY LenProperties
<1>2. 1 \in Int /\ p - 1 \in Int /\ p \in Int /\ Len(s) \in Int
      /\ (\A i \in 1 .. p - 1 : s[i] \in S) /\ \A i \in p .. Len(s) : s[i] \in S
  BY <1>1
<1>3. SubSeq(s, 1, p - 1) \in Seq(S) /\ SubSeq(s, p, Len(s)) \in Seq(S)
  BY <1>2, SubSeqProperties
<1>4. <<e>> \in Seq(S)
  OBVIOUS
<1>5. SubSeq(s, 1, p - 1) \o <<e>> \in Seq(S)
  BY <1>3, <1>4, ConcatProperties
<1> QED BY <1>3, <1>5, ConcatProperties DEF InsertAt

LEMMA ListOfMore ==
  ASSUME NEW S, NEW U, S \subseteq U, NEW s \in Seq(S)
  PROVE  s \in Seq(U)
<1>1. Len(s) \in Nat /\ s \in [1 .. Len(s) -> S]
  OBVIOUS
<1>2. s \in [1 .. Len(s) -> U]
  BY <1>1
<1> QED BY <1>1, <1>2
=============================================================================
