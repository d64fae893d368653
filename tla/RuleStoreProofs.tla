-------------------------- MODULE RuleStoreProofs ---------------------------
(***************************************************************************)
(* Proofs about RuleStore for files with any rules in any number: that the *)
(* indexes and the buckets find what a search of the file would, and what  *)
(* follows for prefixes, capture templates and the rule tester.            *)
(***************************************************************************)
EXTENDS RuleStore, ListLemmas

\* The rules that items become.
KeptRule ==
  {[id |-> it.id, trigger |-> it.trigger, caseSensitive |-> it.caseSensitive,
    capture |-> it.capture, activation |-> it.activation, extensions |-> it.extensions,
    languages |-> it.languages, globs |-> it.globs, enabled |-> it.enabled,
    groupEnabled |-> b] : it \in Item, b \in BOOLEAN}

\* What the checks of items leave: templates that compile and are not for
\* typing, and no two rules that conflict.
Sound(rs) ==
  \A i \in DOMAIN rs : rs[i].capture => Compiles(rs[i].trigger) /\ Immediate \notin rs[i].activation

Apart(rs) == \A i, j \in DOMAIN rs : i # j => ~Conflicting(rs[i], rs[j])

Checked(rs) == rs \in Seq(KeptRule) /\ Len(rs) <= MaxItems /\ Sound(rs) /\ Apart(rs)

\* No immediate trigger begins another literal trigger.
PairsAllowed(rs) ==
  \A i, j \in DOMAIN rs :
    ~rs[i].capture /\ ~rs[j].capture /\ StartsWith(rs[i], rs[j]) => Immediate \notin rs[i].activation

Literals(rs, cs) == {i \in DOMAIN rs : ~rs[i].capture /\ rs[i].caseSensitive = cs}
Templates(rs, key) == {i \in DOMAIN rs : rs[i].capture /\ LeadingByte(rs[i].trigger) = key}

\* s lists the numbers of S from the least to the greatest.
Lists(s, S) ==
  /\ s \in Seq(S)
  /\ \A x \in S : \E i \in DOMAIN s : s[i] = x
  /\ \A i, j \in DOMAIN s : i < j => s[i] < s[j]

\* The indexes and the buckets are those of the rules.
IndexedBy(rs, ex, fo, bu, fa) ==
  /\ \A k \in DOMAIN ex : ex[k] \in Literals(rs, TRUE) /\ rs[ex[k]].trigger = k
  /\ \A i \in Literals(rs, TRUE) : rs[i].trigger \in DOMAIN ex
  /\ \A k \in DOMAIN fo : fo[k] \in Literals(rs, FALSE) /\ Fold(rs[fo[k]].trigger) = k
  /\ \A i \in Literals(rs, FALSE) : Fold(rs[i].trigger) \in DOMAIN fo
  /\ \A c \in Letter : Lists(bu[c], Templates(rs, c))
  /\ Lists(fa, Templates(rs, Nothing))

Indexed == IndexedBy(rules, exact, folded, buckets, fallback)

StoreInv ==
  /\ phase \in {"ready", "reading"}
  /\ groups \in GroupList \cup {<<>>}
  /\ Checked(parsed)
  /\ Checked(rules)
  /\ PairsAllowed(rules)
  /\ Indexed

(***************************************************************************)
(* Triggers and rules.                                                     *)
(***************************************************************************)
Trigger == Seq(Letter \cup Marker)

Glob == Seq(Letter \cup {Star, One})

LEMMA KeptFields ==
  ASSUME NEW r \in KeptRule
  PROVE  /\ r.trigger \in Trigger /\ r.trigger # <<>>
         /\ r.caseSensitive \in BOOLEAN /\ r.capture \in BOOLEAN
         /\ r.enabled \in BOOLEAN /\ r.groupEnabled \in BOOLEAN
         /\ r.activation \subseteq Activation
         /\ r.globs \subseteq Glob
<1>1. PICK it \in Item, b \in BOOLEAN :
        /\ r.trigger = it.trigger /\ r.caseSensitive = it.caseSensitive
        /\ r.capture = it.capture /\ r.activation = it.activation
        /\ r.enabled = it.enabled /\ r.groupEnabled = b /\ r.globs = it.globs
  BY DEF KeptRule
<1>2. /\ it.trigger \in Seq(Letter \cup 0 .. 9) \ {<<>>}
      /\ it.activation \subseteq Activation
      /\ it.globs \subseteq Seq(Letter \cup {Star, One})
      /\ {it.enabled, it.sound, it.caseSensitive, it.capture} \subseteq BOOLEAN
  BY RuleStoreConstants
<1> QED BY <1>1, <1>2 DEF Trigger, Marker, Glob

LEMMA RuleOfKept ==
  ASSUME NEW it \in Item
  PROVE  RuleOf(it) \in KeptRule
<1>1. GroupEnabled(groups, it.group) \in BOOLEAN
  BY DEF GroupEnabled
<1> QED BY <1>1 DEF RuleOf, KeptRule

\* Folding changes letters one by one.
LEMMA FoldProperties ==
  ASSUME NEW s \in Trigger
  PROVE  /\ Fold(s) \in Trigger /\ Len(Fold(s)) = Len(s)
         /\ \A i \in 1 .. Len(s) : Fold(s)[i] = IF s[i] \in Letter THEN Lower[s[i]] ELSE s[i]
<1>1. Len(s) \in Nat /\ DOMAIN s = 1 .. Len(s) /\ \A i \in 1 .. Len(s) : s[i] \in Letter \cup Marker
  BY DEF Trigger
<1>2. Lower \in [Letter -> Letter]
  BY RuleStoreConstants
<1> DEFINE f == [i \in 1 .. Len(s) |-> IF s[i] \in Letter THEN Lower[s[i]] ELSE s[i]]
<1>3. Fold(s) = f
  BY <1>1 DEF Fold
<1>4. f \in [1 .. Len(s) -> Letter \cup Marker]
  BY <1>1, <1>2
<1>5. f \in Trigger /\ Len(f) = Len(s)
  BY <1>1, <1>4 DEF Trigger
<1> QED BY <1>3, <1>5

LEMMA ConflictIsMutual ==
  ASSUME NEW r, NEW q, Conflicting(r, q)
  PROVE  Conflicting(q, r)
BY DEF Conflicting

\* The conflict of rules with an item is that with the rule it becomes.
LEMMA FitsApart ==
  ASSUME StoreInv, NEW it \in Item, Fits(it), Len(parsed) < MaxItems
  PROVE  Checked(Append(parsed, RuleOf(it)))
<1> DEFINE r == RuleOf(it)
           n == Len(parsed)
           rs == Append(parsed, r)
<1>1. r \in KeptRule /\ parsed \in Seq(KeptRule) /\ n \in Nat /\ MaxItems \in Nat
  BY RuleOfKept, RuleStoreConstants DEF StoreInv, Checked
<1>2. /\ rs \in Seq(KeptRule) /\ Len(rs) = n + 1 /\ DOMAIN rs = 1 .. n + 1 /\ DOMAIN parsed = 1 .. n
      /\ rs[n + 1] = r /\ \A i \in 1 .. n : rs[i] = parsed[i]
  BY <1>1, AppendProperties
<1>3. /\ r.trigger = it.trigger /\ r.caseSensitive = it.caseSensitive
      /\ r.capture = it.capture /\ r.activation = it.activation
  BY DEF RuleOf
<1> HIDE DEF r, rs
<1>4. \A i \in 1 .. n : ~Conflicting(parsed[i], r) /\ ~Conflicting(r, parsed[i])
  <2>1. \A i \in 1 .. n : Conflicting(parsed[i], r) <=> Conflicting(parsed[i], it)
    BY <1>3 DEF Conflicting
  <2> QED BY <1>2, <2>1, ConflictIsMutual DEF Fits
<1>5. Apart(rs)
  <2>1. \A i, j \in 1 .. n : i # j => ~Conflicting(parsed[i], parsed[j])
    BY <1>2 DEF StoreInv, Checked, Apart
  <2>2. ASSUME NEW i \in 1 .. n + 1, NEW j \in 1 .. n + 1, i # j PROVE ~Conflicting(rs[i], rs[j])
    <3>1. CASE i = n + 1
      BY <1>1, <1>2, <1>4, <2>2, <3>1
    <3>2. CASE j = n + 1
      BY <1>1, <1>2, <1>4, <2>2, <3>2
    <3>3. CASE i \in 1 .. n /\ j \in 1 .. n
      BY <1>2, <2>1, <2>2, <3>3
    <3> QED BY <1>1, <3>1, <3>2, <3>3
  <2> QED BY <1>2, <2>2 DEF Apart
<1>6. Sound(rs)
  <2>1. \A i \in 1 .. n : parsed[i].capture =>
                            Compiles(parsed[i].trigger) /\ Immediate \notin parsed[i].activation
    BY <1>2 DEF StoreInv, Checked, Sound
  <2>2. r.capture => Compiles(r.trigger) /\ Immediate \notin r.activation
    BY <1>3 DEF Fits, Acceptable
  <2>3. ASSUME NEW i \in 1 .. n + 1, rs[i].capture
        PROVE  Compiles(rs[i].trigger) /\ Immediate \notin rs[i].activation
    BY <1>1, <1>2, <2>1, <2>2, <2>3
  <2> QED BY <1>2, <2>3 DEF Sound
<1>7. Checked(rs)
  BY <1>1, <1>2, <1>5, <1>6 DEF Checked
<1> QED BY <1>7 DEF rs, r

(***************************************************************************)
(* What Build makes.                                                       *)
(***************************************************************************)
LEMMA AscendingLists ==
  ASSUME NEW N \in Nat, NEW S \in SUBSET (1 .. N)
  PROVE  Lists(Ascending(S), S)
<1> DEFINE c == Cardinality(S)
           s == Ascending(S)
<1>1. IsFiniteSet(S) /\ c \in Nat
  <2>1. IsFiniteSet(1 .. N)
    BY FS_Interval
  <2> QED BY <2>1, FS_Subset, FS_CardinalityType
<1>2. s \in [1 .. c -> S] /\ \A i, j \in DOMAIN s : i < j => s[i] < s[j]
  BY AscendingExists DEF Ascending
<1> HIDE DEF s
<1>3. \A i \in 1 .. c : s[i] \in Nat
  <2>1. \A x \in S : x \in Nat
    OBVIOUS
  <2> HIDE DEF c
  <2> QED BY <1>2, <2>1
<1>4. \A i, j \in 1 .. c : s[i] = s[j] => i = j
  BY <1>1, <1>2, <1>3
<1>5. \A x \in S : \E i \in 1 .. c : s[i] = x
  BY <1>1, <1>2, <1>4, EnumerationIsOnto
<1>6. s \in Seq(S) /\ DOMAIN s = 1 .. c
  BY <1>1, <1>2
<1> QED BY <1>2, <1>5, <1>6 DEF Lists, s

\* The first position of each key.
LEMMA IndexOfProperties ==
  ASSUME NEW N \in Nat, NEW S \in SUBSET (1 .. N), NEW keys, DOMAIN keys = S
  PROVE  /\ \A k \in DOMAIN IndexOf(keys) : IndexOf(keys)[k] \in S /\ keys[IndexOf(keys)[k]] = k
         /\ \A i \in S : keys[i] \in DOMAIN IndexOf(keys)
<1>1. ASSUME NEW k \in DOMAIN IndexOf(keys)
      PROVE  IndexOf(keys)[k] \in S /\ keys[IndexOf(keys)[k]] = k
  <2> DEFINE at == {i \in S : keys[i] = k}
  <2>1. at \in SUBSET Nat
    OBVIOUS
  <2>2. at # {}
    BY <1>1 DEF IndexOf, Range
  <2>3. Min(at) \in at
    BY <2>1, <2>2, MinIsLeast
  <2>4. IndexOf(keys)[k] = Min(at)
    BY <1>1 DEF IndexOf
  <2> QED BY <2>3, <2>4
<1>2. \A i \in S : keys[i] \in DOMAIN IndexOf(keys)
  BY DEF IndexOf, Range
<1> QED BY <1>1, <1>2

LEMMA BuildIndexes ==
  ASSUME NEW rs, Checked(rs), Build(rs)
  PROVE  Indexed'
<1> DEFINE N == Len(rs)
           E == [i \in Literals(rs, TRUE) |-> rs[i].trigger]
           F == [i \in Literals(rs, FALSE) |-> Fold(rs[i].trigger)]
<1>1. N \in Nat /\ DOMAIN rs = 1 .. N
  BY DEF Checked
<1>2. /\ rules' = rs
      /\ exact' = IndexOf(E)
      /\ folded' = IndexOf(F)
      /\ buckets' = [c \in Letter |-> Ascending(Templates(rs, c))]
      /\ fallback' = Ascending(Templates(rs, Nothing))
  BY DEF Build, Literals, Templates
<1>3. Literals(rs, TRUE) \in SUBSET (1 .. N) /\ Literals(rs, FALSE) \in SUBSET (1 .. N)
  BY <1>1 DEF Literals
<1>4. \A key : Templates(rs, key) \in SUBSET (1 .. N)
  BY <1>1 DEF Templates
<1>5. /\ \A k \in DOMAIN exact' : exact'[k] \in Literals(rs, TRUE) /\ E[exact'[k]] = k
      /\ \A i \in Literals(rs, TRUE) : E[i] \in DOMAIN exact'
  <2>1. DOMAIN E = Literals(rs, TRUE)
    OBVIOUS
  <2> HIDE DEF E
  <2> QED BY <1>1, <1>2, <1>3, <2>1, IndexOfProperties
<1>6. /\ \A k \in DOMAIN folded' : folded'[k] \in Literals(rs, FALSE) /\ F[folded'[k]] = k
      /\ \A i \in Literals(rs, FALSE) : F[i] \in DOMAIN folded'
  <2>1. DOMAIN F = Literals(rs, FALSE)
    OBVIOUS
  <2> HIDE DEF F
  <2> QED BY <1>1, <1>2, <1>3, <2>1, IndexOfProperties
<1>7. \A key : Lists(Ascending(Templates(rs, key)), Templates(rs, key))
  BY <1>1, <1>4, AscendingLists
<1>8. /\ \A c \in Letter : Lists(buckets'[c], Templates(rs, c))
      /\ Lists(fallback', Templates(rs, Nothing))
  BY <1>2, <1>7
<1>9. rules' = rs
  BY <1>2
<1> QED BY <1>5, <1>6, <1>8, <1>9 DEF Indexed, IndexedBy

LEMMA NothingIndexed ==
  ASSUME NEW bu, \A c \in Letter : bu[c] = <<>>
  PROVE  IndexedBy(<<>>, <<>>, <<>>, bu, <<>>) /\ Checked(<<>>) /\ PairsAllowed(<<>>)
<1>1. DOMAIN <<>> = {} /\ <<>> \in Seq(KeptRule) /\ <<>> \in Seq({}) /\ Len(<<>>) = 0
  OBVIOUS
<1>2. \A key : Templates(<<>>, key) = {} /\ Literals(<<>>, key) = {}
  BY <1>1 DEF Templates, Literals
<1>3. Lists(<<>>, {})
  BY <1>1 DEF Lists
<1>4. IndexedBy(<<>>, <<>>, <<>>, bu, <<>>)
  BY <1>1, <1>2, <1>3 DEF IndexedBy
<1> QED BY <1>1, <1>4, RuleStoreConstants DEF Checked, Sound, Apart, PairsAllowed

(***************************************************************************)
(* The walk along the sorted triggers.                                     *)
(***************************************************************************)
\* The first characters of a list.
LEMMA PrefixProperties ==
  ASSUME NEW A, NEW t \in Seq(A), NEW n \in Nat, n <= Len(t)
  PROVE  /\ SubSeq(t, 1, n) \in Seq(A) /\ Len(SubSeq(t, 1, n)) = n
         /\ \A i \in 1 .. n : SubSeq(t, 1, n)[i] = t[i]
<1>1. Len(t) \in Nat /\ \A i \in 1 .. n : t[i] \in A
  OBVIOUS
<1> DEFINE p == SubSeq(t, 1, n)
<1>2. /\ p \in Seq(A)
      /\ Len(p) = IF 1 <= n THEN n - 1 + 1 ELSE 0
      /\ \A i \in 1 .. n - 1 + 1 : p[i] = t[1 + i - 1]
  BY <1>1, SubSeqProperties
<1> HIDE DEF p
<1> QED BY <1>2 DEF p

\* Lists of one length with equal elements are equal.
LEMMA SameList ==
  ASSUME NEW A, NEW s \in Seq(A), NEW t \in Seq(A), Len(s) = Len(t),
         \A i \in 1 .. Len(s) : s[i] = t[i]
  PROVE  s = t
BY SeqEqual

\* Two different texts have a head in common, and then one of them ends or
\* their characters differ.
LEMMA CommonHead ==
  ASSUME NEW s \in Trigger, NEW t \in Trigger
  PROVE  \E n \in 0 .. Len(s) :
           /\ n <= Len(t) /\ \A i \in 1 .. n : s[i] = t[i]
           /\ n = Len(s) \/ n = Len(t) \/ s[n + 1] # t[n + 1]
<1> DEFINE S == {n \in Nat : n >= Len(s) \/ n >= Len(t) \/ s[n + 1] # t[n + 1]}
<1>1. Len(s) \in Nat /\ Len(t) \in Nat
  BY DEF Trigger
<1>2. Len(s) \in S /\ Len(t) \in S
  BY <1>1
<1>3. PICK n \in S : \A m \in S : n <= m
  <2>1. S \in SUBSET Nat /\ S # {}
    BY <1>2
  <2> HIDE DEF S
  <2> QED BY <2>1, LeastExists
<1>4. n \in Nat /\ n <= Len(s) /\ n <= Len(t)
  BY <1>1, <1>2, <1>3
<1>5. \A i \in 1 .. n : s[i] = t[i]
  <2> SUFFICES ASSUME NEW i \in 1 .. n, s[i] # t[i] PROVE FALSE
    OBVIOUS
  <2>1. i - 1 \in Nat /\ (i - 1) + 1 = i /\ ~(n <= i - 1)
    BY <1>4
  <2>2. i - 1 \in S
    BY <2>1
  <2> QED BY <1>3, <2>1, <2>2
<1>6. n = Len(s) \/ n = Len(t) \/ s[n + 1] # t[n + 1]
  BY <1>1, <1>3, <1>4
<1> QED BY <1>1, <1>4, <1>5, <1>6

\* The characters of a trigger have codes, different ones different codes.
LEMMA CodesOfTriggers ==
  ASSUME NEW s \in Trigger
  PROVE  /\ Len(s) \in Nat /\ \A i \in 1 .. Len(s) : s[i] \in DOMAIN Code /\ Code[s[i]] \in Nat
         /\ \A c, d \in DOMAIN Code : Code[c] = Code[d] => c = d
<1>1. Len(s) \in Nat /\ \A i \in 1 .. Len(s) : s[i] \in Letter \cup 0 .. 9
  BY DEF Trigger, Marker
<1>2. Code \in [Letter \cup 0 .. 9 -> Nat] /\ \A c, d \in DOMAIN Code : Code[c] = Code[d] => c = d
  BY RuleStoreConstants
<1> QED BY <1>1, <1>2

\* The order of texts is a strict and a total one.
LEMMA BeforeIsStrict ==
  ASSUME NEW s \in Trigger
  PROVE  ~Before(s, s)
<1>1. Len(s) \in Nat /\ \A i \in 1 .. Len(s) : Code[s[i]] \in Nat
  BY CodesOfTriggers
<1> SUFFICES ASSUME NEW n \in 0 .. Len(s), n < Len(s), n = Len(s) \/ Code[s[n + 1]] < Code[s[n + 1]]
             PROVE  FALSE
  BY DEF Before
<1>2. n + 1 \in 1 .. Len(s)
  BY <1>1
<1>3. Code[s[n + 1]] \in Nat
  BY <1>1, <1>2
<1> QED BY <1>1, <1>3

LEMMA BeforeIsTotal ==
  ASSUME NEW s \in Trigger, NEW t \in Trigger, s # t
  PROVE  Before(s, t) \/ Before(t, s)
<1>1. /\ Len(s) \in Nat /\ \A i \in 1 .. Len(s) : s[i] \in DOMAIN Code /\ Code[s[i]] \in Nat
      /\ Len(t) \in Nat /\ \A i \in 1 .. Len(t) : t[i] \in DOMAIN Code /\ Code[t[i]] \in Nat
      /\ \A c, d \in DOMAIN Code : Code[c] = Code[d] => c = d
  BY CodesOfTriggers
<1>2. PICK n \in 0 .. Len(s) :
        /\ n <= Len(t) /\ \A i \in 1 .. n : s[i] = t[i]
        /\ n = Len(s) \/ n = Len(t) \/ s[n + 1] # t[n + 1]
  BY CommonHead
<1>3. n \in 0 .. Len(t) /\ \A i \in 1 .. n : t[i] = s[i]
  BY <1>1, <1>2
<1>4. CASE n < Len(s) /\ n < Len(t)
  <2>1. n + 1 \in 1 .. Len(s) /\ n + 1 \in 1 .. Len(t) /\ s[n + 1] # t[n + 1]
    BY <1>1, <1>2, <1>4
  <2>2. Code[s[n + 1]] < Code[t[n + 1]] \/ Code[t[n + 1]] < Code[s[n + 1]]
    BY <1>1, <2>1
  <2> QED BY <1>2, <1>3, <1>4, <2>2 DEF Before
<1>5. CASE n = Len(s) /\ n < Len(t)
  BY <1>2, <1>5 DEF Before
<1>6. CASE n = Len(t) /\ n < Len(s)
  BY <1>3, <1>6 DEF Before
<1>7. CASE n = Len(s) /\ n = Len(t)
  <2>1. s = t
    BY <1>2, <1>7, SameList DEF Trigger
  <2> QED BY <2>1
<1> QED BY <1>1, <1>2, <1>4, <1>5, <1>6, <1>7

LEMMA BeforeIsTransitive ==
  ASSUME NEW s \in Trigger, NEW t \in Trigger, NEW u \in Trigger, Before(s, t), Before(t, u)
  PROVE  Before(s, u)
<1>1. /\ Len(s) \in Nat /\ \A i \in 1 .. Len(s) : Code[s[i]] \in Nat
      /\ Len(t) \in Nat /\ \A i \in 1 .. Len(t) : Code[t[i]] \in Nat
      /\ Len(u) \in Nat /\ \A i \in 1 .. Len(u) : Code[u[i]] \in Nat
  BY CodesOfTriggers
<1>2. PICK n \in 0 .. Len(s) : /\ n < Len(t) /\ \A i \in 1 .. n : s[i] = t[i]
                               /\ n = Len(s) \/ Code[s[n + 1]] < Code[t[n + 1]]
  BY DEF Before
<1>3. PICK m \in 0 .. Len(t) : /\ m < Len(u) /\ \A i \in 1 .. m : t[i] = u[i]
                               /\ m = Len(t) \/ Code[t[m + 1]] < Code[u[m + 1]]
  BY DEF Before
<1>4. CASE n < m
  <2>1. n < Len(u) /\ n + 1 \in 1 .. m /\ \A i \in 1 .. n : i \in 1 .. m
    BY <1>1, <1>3, <1>4
  <2>2. t[n + 1] = u[n + 1] /\ \A i \in 1 .. n : s[i] = u[i]
    BY <1>2, <1>3, <2>1
  <2> QED BY <1>2, <2>1, <2>2 DEF Before
<1>5. CASE m < n
  <2>1. m \in 0 .. Len(s) /\ m # Len(t) /\ m + 1 \in 1 .. n /\ \A i \in 1 .. m : i \in 1 .. n
    BY <1>1, <1>2, <1>5
  <2>2. s[m + 1] = t[m + 1] /\ Code[t[m + 1]] < Code[u[m + 1]] /\ \A i \in 1 .. m : s[i] = u[i]
    BY <1>2, <1>3, <2>1
  <2> QED BY <1>3, <2>1, <2>2 DEF Before
<1>6. CASE n = m
  <2>1. Code[t[n + 1]] < Code[u[n + 1]] /\ n < Len(u) /\ \A i \in 1 .. n : s[i] = u[i]
    <3>1. n # Len(t)
      BY <1>1, <1>2
    <3> QED BY <1>2, <1>3, <1>6, <3>1
  <2>2. CASE n = Len(s)
    BY <2>1, <2>2 DEF Before
  <2>3. CASE n # Len(s)
    <3>1. n + 1 \in 1 .. Len(s) /\ n + 1 \in 1 .. Len(t) /\ n + 1 \in 1 .. Len(u)
      BY <1>1, <1>2, <2>1, <2>3
    <3>2. /\ Code[s[n + 1]] \in Nat /\ Code[t[n + 1]] \in Nat /\ Code[u[n + 1]] \in Nat
          /\ Code[s[n + 1]] < Code[t[n + 1]]
      BY <1>1, <1>2, <2>3, <3>1
    <3>3. Code[s[n + 1]] < Code[u[n + 1]]
      BY <2>1, <3>2
    <3> QED BY <2>1, <3>3 DEF Before
  <2> QED BY <2>2, <2>3
<1>7. n \in Nat /\ m \in Nat
  BY <1>1
<1> QED BY <1>4, <1>5, <1>6, <1>7

\* The text p is at the head of s.
Heads(p, s) == Len(p) <= Len(s) /\ \A i \in 1 .. Len(p) : s[i] = p[i]

\* Between a text and one that begins with it there are only such ones.
LEMMA BetweenBegins ==
  ASSUME NEW p \in Trigger, NEW x \in Trigger, NEW c \in Trigger, Heads(p, c),
         ~Before(x, p), ~Before(c, x)
  PROVE  Heads(p, x)
<1>1. /\ Len(p) \in Nat /\ \A i \in 1 .. Len(p) : p[i] \in DOMAIN Code /\ Code[p[i]] \in Nat
      /\ Len(x) \in Nat /\ \A i \in 1 .. Len(x) : x[i] \in DOMAIN Code /\ Code[x[i]] \in Nat
      /\ Len(c) \in Nat
      /\ \A a, b \in DOMAIN Code : Code[a] = Code[b] => a = b
  BY CodesOfTriggers
<1>2. PICK n \in 0 .. Len(p) :
        /\ n <= Len(x) /\ \A i \in 1 .. n : p[i] = x[i]
        /\ n = Len(p) \/ n = Len(x) \/ p[n + 1] # x[n + 1]
  BY CommonHead
<1>3. CASE n = Len(p)
  BY <1>1, <1>2, <1>3 DEF Heads
<1>4. CASE n < Len(p) /\ n = Len(x)
  <2>1. n \in 0 .. Len(x) /\ \A i \in 1 .. n : x[i] = p[i]
    BY <1>1, <1>2, <1>4
  <2> QED BY <1>4, <2>1 DEF Before
<1>5. CASE n < Len(p) /\ n < Len(x)
  <2>1. n + 1 \in 1 .. Len(p) /\ n + 1 \in 1 .. Len(x) /\ p[n + 1] # x[n + 1]
    BY <1>1, <1>2, <1>5
  <2>2. Code[p[n + 1]] # Code[x[n + 1]] /\ Code[p[n + 1]] \in Nat /\ Code[x[n + 1]] \in Nat
    BY <1>1, <2>1
  <2>3. CASE Code[x[n + 1]] < Code[p[n + 1]]
    <3>1. n \in 0 .. Len(x) /\ \A i \in 1 .. n : x[i] = p[i]
      BY <1>1, <1>2
    <3> QED BY <1>5, <2>3, <3>1 DEF Before
  <2>4. CASE Code[p[n + 1]] < Code[x[n + 1]]
    <3>1. n \in 0 .. Len(c) /\ c[n + 1] = p[n + 1] /\ \A i \in 1 .. n : i \in 1 .. Len(p)
      BY <1>1, <1>2, <1>5, <2>1 DEF Heads
    <3>2. \A i \in 1 .. n : c[i] = x[i]
      BY <1>2, <3>1 DEF Heads
    <3> QED BY <1>5, <2>4, <3>1, <3>2 DEF Before
  <2> QED BY <2>2, <2>3, <2>4
<1> QED BY <1>1, <1>2, <1>3, <1>4, <1>5

\* The numbers t of rules are in the order of the triggers without case.
InOrder(rs, t) ==
  \A k, l \in DOMAIN t :
    k < l => t[k] # t[l] /\ ~Before(FoldedTrigger(rs[t[l]]), FoldedTrigger(rs[t[k]]))

\* The numbers of rules can be put into that order.
LEMMA SortedByText ==
  ASSUME NEW rs \in Seq(KeptRule), NEW S \in SUBSET (DOMAIN rs)
  PROVE  /\ IsFiniteSet(S) /\ Cardinality(S) \in Nat
         /\ \E t \in [1 .. Cardinality(S) -> S] : InOrder(rs, t)
<1> DEFINE N == Len(rs)
           F == [i \in 1 .. N |-> FoldedTrigger(rs[i])]
           R == {z \in S \X S : Before(F[z[1]], F[z[2]]) \/ (F[z[1]] = F[z[2]] /\ z[1] < z[2])}
<1>1. N \in Nat /\ DOMAIN rs = 1 .. N /\ S \in SUBSET (1 .. N)
  OBVIOUS
<1>2. \A i \in 1 .. N : F[i] \in Trigger /\ F[i] = FoldedTrigger(rs[i])
  <2> TAKE i \in 1 .. N
  <2>1. rs[i] \in KeptRule
    BY <1>1
  <2> QED BY <2>1, KeptFields, FoldProperties DEF FoldedTrigger
<1> HIDE DEF F, N
<1>3. \A i, j \in S : <<i, j>> \in R <=> Before(F[i], F[j]) \/ (F[i] = F[j] /\ i < j)
  OBVIOUS
<1>4. \A i \in S : i \in Nat /\ F[i] \in Trigger
  BY <1>1, <1>2
<1> HIDE DEF R
<1>5. \A i \in S : <<i, i>> \notin R
  BY <1>3, <1>4, BeforeIsStrict
<1>6. \A i, j \in S : i # j => <<i, j>> \in R \/ <<j, i>> \in R
  <2> SUFFICES ASSUME NEW i \in S, NEW j \in S, i # j PROVE <<i, j>> \in R \/ <<j, i>> \in R
    OBVIOUS
  <2>1. CASE F[i] = F[j]
    BY <1>3, <1>4, <2>1
  <2>2. CASE F[i] # F[j]
    BY <1>3, <1>4, <2>2, BeforeIsTotal
  <2> QED BY <2>1, <2>2
<1>7. \A i, j, k \in S : <<i, j>> \in R /\ <<j, k>> \in R => <<i, k>> \in R
  <2> SUFFICES ASSUME NEW i \in S, NEW j \in S, NEW k \in S, <<i, j>> \in R, <<j, k>> \in R
               PROVE  <<i, k>> \in R
    OBVIOUS
  <2>1. Before(F[i], F[j]) \/ (F[i] = F[j] /\ i < j)
    BY <1>3
  <2>2. Before(F[j], F[k]) \/ (F[j] = F[k] /\ j < k)
    BY <1>3
  <2>3. CASE Before(F[i], F[j]) /\ Before(F[j], F[k])
    BY <1>3, <1>4, <2>3, BeforeIsTransitive
  <2>4. CASE F[i] = F[j] /\ i < j /\ F[j] = F[k] /\ j < k
    <3>1. i < k
      BY <1>4, <2>4
    <3> QED BY <1>3, <2>4, <3>1
  <2> QED BY <1>3, <2>1, <2>2, <2>3, <2>4
<1> DEFINE Down(i) == {j \in S : j = i \/ <<j, i>> \in R}
           C == Cardinality(S)
           key == [i \in S |-> Cardinality(Down(i))]
<1>8. IsFiniteSet(S) /\ C \in Nat
  <2>1. 1 \in Int /\ N \in Int
    BY <1>1
  <2>2. IsFiniteSet(1 .. N)
    BY <2>1, FS_Interval
  <2> QED BY <1>1, <2>2, FS_Subset, FS_CardinalityType
<1>9. \A i \in S : IsFiniteSet(Down(i)) /\ Cardinality(Down(i)) \in 1 .. C
  <2> TAKE i \in S
  <2>1. Down(i) \in SUBSET S /\ i \in Down(i)
    OBVIOUS
  <2> DEFINE D == Down(i)
  <2> HIDE DEF D
  <2>2. IsFiniteSet(D) /\ Cardinality(D) <= C
    BY <1>8, <2>1, FS_Subset DEF D
  <2>3. Cardinality(D) \in Nat /\ Cardinality(D) # 0
    BY <2>1, <2>2, FS_CardinalityType, FS_EmptySet DEF D
  <2> QED BY <1>8, <2>2, <2>3 DEF D
<1>10. ASSUME NEW i \in S, NEW j \in S, <<i, j>> \in R
      PROVE  Cardinality(Down(i)) < Cardinality(Down(j))
  <2>1. Down(i) \in SUBSET Down(j)
    BY <1>7, <1>10
  <2>2. j \in Down(j) /\ j \notin Down(i)
    <3>1. i # j
      BY <1>5, <1>10
    <3>2. <<j, i>> \notin R
      BY <1>5, <1>7, <1>10
    <3> QED BY <3>1, <3>2
  <2> DEFINE A == Down(i)
             B == Down(j)
  <2>3. IsFiniteSet(B) /\ Cardinality(B) \in Nat /\ Cardinality(A) \in Nat
    <3> HIDE DEF Down, C
    <3> QED BY <1>8, <1>9
  <2> HIDE DEF A, B
  <2>4. A \in SUBSET (B \ {j}) /\ j \in B
    BY <2>1, <2>2 DEF A, B
  <2>5. IsFiniteSet(B \ {j}) /\ Cardinality(B \ {j}) = Cardinality(B) - 1
    BY <2>3, <2>4, FS_RemoveElement
  <2>6. Cardinality(A) <= Cardinality(B \ {j})
    BY <2>4, <2>5, FS_Subset
  <2>7. Cardinality(A) < Cardinality(B)
    BY <2>3, <2>5, <2>6
  <2> QED BY <2>7 DEF A, B
<1>11. key \in [S -> 1 .. C]
  BY <1>9
<1>12. \A i \in S : key[i] = Cardinality(Down(i)) /\ key[i] \in Nat
  <2> HIDE DEF Down, C
  <2> QED BY <1>8, <1>9
<1> HIDE DEF key, Down, C
<1>13. ASSUME NEW i \in S, NEW j \in S, <<i, j>> \in R PROVE key[i] < key[j]
  <2>1. Cardinality(Down(i)) < Cardinality(Down(j))
    BY <1>10, <1>13
  <2> QED BY <1>12, <2>1
<1>14. \A i, j \in S : key[i] = key[j] => i = j
  <2> SUFFICES ASSUME NEW i \in S, NEW j \in S, i # j PROVE key[i] # key[j]
    OBVIOUS
  <2>1. <<i, j>> \in R \/ <<j, i>> \in R
    BY <1>6
  <2>2. key[i] < key[j] \/ key[j] < key[i]
    BY <1>13, <2>1
  <2> QED BY <1>12, <2>2
<1>15. PICK t : t \in [1 .. C -> S] /\ \A i, j \in 1 .. C : i < j => key[t[i]] < key[t[j]]
  BY <1>8, <1>11, <1>14, SortedExists DEF C
<1>16. ASSUME NEW k \in 1 .. C, NEW l \in 1 .. C, k < l PROVE <<t[k], t[l]>> \in R
  <2>1. t[k] \in S /\ t[l] \in S /\ key[t[k]] < key[t[l]]
    BY <1>15, <1>16
  <2> DEFINE a == t[k]
             b == t[l]
  <2>2. a \in S /\ b \in S /\ key[a] < key[b]
    BY <2>1
  <2> HIDE DEF a, b
  <2>3. a # b
    BY <1>12, <2>2
  <2>4. <<b, a>> \notin R
    <3>1. ~(key[b] < key[a])
      BY <1>12, <2>2
    <3> QED BY <1>13, <2>2, <3>1
  <2>5. <<a, b>> \in R
    BY <1>6, <2>2, <2>3, <2>4
  <2> QED BY <2>5 DEF a, b
<1>17. ASSUME NEW k \in 1 .. C, NEW l \in 1 .. C, k < l
      PROVE  t[k] # t[l] /\ ~Before(FoldedTrigger(rs[t[l]]), FoldedTrigger(rs[t[k]]))
  <2> DEFINE a == t[k]
             b == t[l]
  <2>1. a \in S /\ b \in S /\ <<a, b>> \in R
    BY <1>15, <1>16, <1>17
  <2> HIDE DEF a, b
  <2>2. a # b
    BY <1>5, <2>1
  <2>3. ~Before(F[b], F[a])
    <3> SUFFICES ASSUME Before(F[b], F[a]) PROVE FALSE
      OBVIOUS
    <3>1. <<b, a>> \in R
      BY <1>3, <2>1
    <3>2. <<a, a>> \in R
      BY <1>7, <2>1, <3>1
    <3> QED BY <1>5, <2>1, <3>2
  <2>4. F[a] = FoldedTrigger(rs[a]) /\ F[b] = FoldedTrigger(rs[b])
    BY <1>1, <1>2, <2>1
  <2> QED BY <2>2, <2>3, <2>4 DEF a, b
<1>18. t \in [1 .. C -> S] /\ DOMAIN t = 1 .. C
  BY <1>15
<1>19. InOrder(rs, t)
  BY <1>17, <1>18 DEF InOrder
<1> QED BY <1>8, <1>18, <1>19 DEF C

\* A list of different elements that is as long as the set has all of it.
LEMMA DifferentIsOnto ==
  ASSUME NEW S, IsFiniteSet(S), Cardinality(S) \in Nat, NEW s \in [1 .. Cardinality(S) -> S],
         \A k, l \in 1 .. Cardinality(S) : k < l => s[k] # s[l]
  PROVE  \A i \in S : \E k \in 1 .. Cardinality(S) : s[k] = i
<1>1. \A k, l \in 1 .. Cardinality(S) : s[k] = s[l] => k = l
  <2> SUFFICES ASSUME NEW k \in 1 .. Cardinality(S), NEW l \in 1 .. Cardinality(S), s[k] = s[l]
               PROVE  k = l
    OBVIOUS
  <2>1. ~(k < l) /\ ~(l < k)
    OBVIOUS
  <2> QED BY <2>1
<1> QED BY <1>1, EnumerationIsOnto

\* The literal triggers can be sorted.
LiteralRules(rs) == {i \in DOMAIN rs : ~rs[i].capture}

LEMMA PrefixOrderSorts ==
  ASSUME NEW rs \in Seq(KeptRule), NEW n, n = Cardinality(LiteralRules(rs))
  PROVE  /\ n \in Nat /\ PrefixOrder(rs) \in [1 .. n -> LiteralRules(rs)]
         /\ InOrder(rs, PrefixOrder(rs))
         /\ \A i \in LiteralRules(rs) : \E k \in 1 .. n : PrefixOrder(rs)[k] = i
<1>1. PrefixOrder(rs) = CHOOSE t \in [1 .. Cardinality(LiteralRules(rs)) -> LiteralRules(rs)] : InOrder(rs, t)
  BY DEF PrefixOrder, LiteralRules, InOrder
<1>2. LiteralRules(rs) \in SUBSET (DOMAIN rs)
  BY DEF LiteralRules
<1>3. /\ IsFiniteSet(LiteralRules(rs)) /\ Cardinality(LiteralRules(rs)) \in Nat
      /\ \E t \in [1 .. Cardinality(LiteralRules(rs)) -> LiteralRules(rs)] : InOrder(rs, t)
  BY <1>2, SortedByText
<1>4. /\ PrefixOrder(rs) \in [1 .. Cardinality(LiteralRules(rs)) -> LiteralRules(rs)]
      /\ InOrder(rs, PrefixOrder(rs))
  BY <1>1, <1>3
<1>5. \A k, l \in 1 .. Cardinality(LiteralRules(rs)) : k < l => PrefixOrder(rs)[k] # PrefixOrder(rs)[l]
  BY <1>4 DEF InOrder
<1>6. \A i \in LiteralRules(rs) : \E k \in 1 .. Cardinality(LiteralRules(rs)) : PrefixOrder(rs)[k] = i
  BY <1>3, <1>4, <1>5, DifferentIsOnto
<1> QED BY <1>3, <1>4, <1>6

\* A trigger that begins another is at its head without case, too.
LEMMA StartsFolded ==
  ASSUME NEW r \in KeptRule, NEW q \in KeptRule, StartsWith(r, q)
  PROVE  /\ FoldedTrigger(r) \in Trigger /\ FoldedTrigger(q) \in Trigger
         /\ Len(FoldedTrigger(r)) < Len(FoldedTrigger(q))
         /\ Heads(FoldedTrigger(r), FoldedTrigger(q))
<1> DEFINE p == r.trigger
           t == q.trigger
           m == Len(p)
           P == Compared(r, p)
           T == Compared(r, t)
<1>1. p \in Trigger /\ t \in Trigger /\ m < Len(t) /\ m \in Nat /\ Len(t) \in Nat
  BY KeptFields DEF StartsWith, Trigger
<1>2. /\ Fold(p) \in Trigger /\ Len(Fold(p)) = m
      /\ \A i \in 1 .. m : Fold(p)[i] = IF p[i] \in Letter THEN Lower[p[i]] ELSE p[i]
      /\ Fold(t) \in Trigger /\ Len(Fold(t)) = Len(t)
      /\ \A i \in 1 .. Len(t) : Fold(t)[i] = IF t[i] \in Letter THEN Lower[t[i]] ELSE t[i]
  BY <1>1, FoldProperties
<1>3. At(T, 0, P)
  BY DEF StartsWith
<1> HIDE DEF p, t
<1>4. P \in Trigger /\ Len(P) = m /\ T \in Trigger /\ Len(T) = Len(t)
  BY <1>1, <1>2 DEF Compared
<1> HIDE DEF m
<1>5. \A i \in 1 .. m : i \in 1 .. Len(t)
  BY <1>1
<1>6. \A i \in 1 .. m : T[i] = P[i]
  <2>1. SubSeq(T, 0 + 1, 0 + Len(P)) = P
    BY <1>3 DEF At
  <2>2. 0 + 1 = 1 /\ 0 + Len(P) = m
    BY <1>1, <1>4
  <2> HIDE DEF P, T
  <2>3. SubSeq(T, 1, m) = P
    BY <2>1, <2>2
  <2>4. \A i \in 1 .. m : SubSeq(T, 1, m)[i] = T[i]
    BY <1>1, <1>4, PrefixProperties DEF Trigger
  <2> QED BY <2>3, <2>4
<1>7. \A i \in 1 .. m : Fold(t)[i] = Fold(p)[i]
  <2> TAKE i \in 1 .. m
  <2>1. CASE r.caseSensitive
    <3>1. T[i] = t[i] /\ P[i] = p[i]
      BY <2>1 DEF Compared
    <3> QED BY <1>2, <1>5, <1>6, <3>1
  <2>2. CASE ~r.caseSensitive
    BY <1>6, <2>2 DEF Compared
  <2> QED BY <2>1, <2>2
<1>8. FoldedTrigger(r) = Fold(p) /\ FoldedTrigger(q) = Fold(t)
  BY DEF FoldedTrigger, p, t
<1> QED BY <1>1, <1>2, <1>7, <1>8 DEF Heads

\* At and Heads are the same for triggers.
LEMMA HeadIsAt ==
  ASSUME NEW p \in Trigger, NEW s \in Trigger, Heads(p, s)
  PROVE  At(s, 0, p)
<1> DEFINE m == Len(p)
           u == SubSeq(s, 1, m)
<1>1. m \in Nat /\ Len(s) \in Nat /\ m <= Len(s)
  BY DEF Trigger, Heads
<1>2. u \in Trigger /\ Len(u) = m /\ \A i \in 1 .. m : u[i] = s[i]
  BY <1>1, PrefixProperties DEF Trigger
<1>3. \A i \in 1 .. m : u[i] = p[i]
  BY <1>2 DEF Heads
<1> HIDE DEF u
<1>4. u = p
  BY <1>2, <1>3, SameList DEF Trigger
<1>5. 0 + m <= Len(s) /\ 0 + 1 = 1 /\ 0 + m = m
  BY <1>1
<1> QED BY <1>4, <1>5 DEF At, u

\* So the walk, which stops at the first trigger that does not begin with the
\* one it is for, meets every one that does.
LEMMA WalkMeetsAll ==
  ASSUME NEW rs, Checked(rs), PrefixesAllowed(rs)
  PROVE  PairsAllowed(rs)
<1> DEFINE literals == LiteralRules(rs)
           n == Cardinality(literals)
           s == PrefixOrder(rs)
           F(k) == FoldedTrigger(rs[s[k]])
<1>1. rs \in Seq(KeptRule)
  BY DEF Checked
<1>2. n \in Nat /\ s \in [1 .. n -> literals] /\ \A i \in literals : \E k \in 1 .. n : s[k] = i
  BY <1>1, PrefixOrderSorts
<1>3. \A k, l \in 1 .. n : k < l => ~Before(F(l), F(k))
  <2>1. InOrder(rs, s)
    BY <1>1, PrefixOrderSorts
  <2> QED BY <1>2, <2>1 DEF InOrder
<1> SUFFICES ASSUME NEW i \in DOMAIN rs, NEW j \in DOMAIN rs, ~rs[i].capture, ~rs[j].capture,
                    StartsWith(rs[i], rs[j])
             PROVE  Immediate \notin rs[i].activation
  BY DEF PairsAllowed
<1>4. i \in literals /\ j \in literals
  BY DEF LiteralRules
<1>5. \A k \in literals : rs[k] \in KeptRule /\ FoldedTrigger(rs[k]) \in Trigger
  <2> TAKE k \in literals
  <2>1. rs[k] \in KeptRule
    BY <1>1 DEF LiteralRules
  <2> QED BY <2>1, KeptFields, FoldProperties DEF FoldedTrigger
<1>6. \A k, l \in DOMAIN s :
        /\ k < l /\ \A m \in k + 1 .. l : At(F(m), 0, F(k))
        /\ StartsWith(rs[s[k]], rs[s[l]])
        => Immediate \notin rs[s[k]].activation
  BY DEF PrefixesAllowed
<1> HIDE DEF s, literals, n
<1>7. PICK k \in 1 .. n : s[k] = i
  BY <1>2, <1>4
<1>8. PICK l \in 1 .. n : s[l] = j
  BY <1>2, <1>4
<1>9. /\ F(k) \in Trigger /\ F(l) \in Trigger /\ Len(F(k)) < Len(F(l)) /\ Heads(F(k), F(l))
  BY <1>4, <1>5, <1>7, <1>8, StartsFolded
<1>10. Before(F(k), F(l))
  <2>1. Len(F(k)) \in 0 .. Len(F(k)) /\ \A x \in 1 .. Len(F(k)) : F(k)[x] = F(l)[x]
    BY <1>9 DEF Trigger, Heads
  <2> HIDE DEF F
  <2> QED BY <1>9, <2>1 DEF Before
<1>11. k < l
  <2>1. ~(l < k)
    BY <1>2, <1>10, <1>3
  <2>2. k # l
    <3>1. ~Before(F(k), F(k))
      BY <1>9, BeforeIsStrict
    <3> QED BY <1>10, <3>1
  <2> QED BY <1>2, <2>1, <2>2
<1>12. ASSUME NEW m \in k + 1 .. l PROVE At(F(m), 0, F(k))
  <2>1. m \in 1 .. n /\ k < m /\ (m < l \/ m = l)
    BY <1>2, <1>11
  <2>2. F(m) \in Trigger
    BY <1>2, <1>5, <2>1
  <2>3. ~Before(F(m), F(k))
    BY <1>2, <1>3, <2>1
  <2>4. ~Before(F(l), F(m))
    <3>1. CASE m < l
      BY <1>2, <1>3, <2>1, <3>1
    <3>2. CASE m = l
      BY <1>9, <3>2, BeforeIsStrict
    <3> QED BY <2>1, <3>1, <3>2
  <2> HIDE DEF F
  <2>5. Heads(F(k), F(m))
    BY <1>9, <2>2, <2>3, <2>4, BetweenBegins
  <2> QED BY <1>9, <2>2, <2>5, HeadIsAt
<1>13. k \in DOMAIN s /\ l \in DOMAIN s
  BY <1>2
<1>14. Immediate \notin rs[s[k]].activation
  <2> HIDE DEF F
  <2> QED BY <1>6, <1>7, <1>8, <1>11, <1>12, <1>13
<1> QED BY <1>7, <1>14

(***************************************************************************)
(* The invariant.                                                          *)
(***************************************************************************)
LEMMA StoreInit == Init => StoreInv
<1> SUFFICES ASSUME Init PROVE StoreInv
  OBVIOUS
<1>1. \A c \in Letter : buckets[c] = <<>>
  BY DEF Init
<1> QED BY <1>1, NothingIndexed DEF Init, StoreInv, Indexed

LEMMA StoreStep == StoreInv /\ [Next]_vars => StoreInv'
<1> SUFFICES ASSUME StoreInv, [Next]_vars PROVE StoreInv'
  OBVIOUS
<1>1. ASSUME UNCHANGED store
      PROVE  Checked(rules') /\ PairsAllowed(rules') /\ Indexed'
  BY <1>1 DEF StoreInv, Indexed, store
<1>2. ASSUME StopReading PROVE phase' = "ready" /\ groups' \in GroupList \cup {<<>>} /\ Checked(parsed')
  <2>1. \A c \in Letter : [x \in Letter |-> <<>>][c] = <<>>
    OBVIOUS
  <2> QED BY <1>2, <2>1, NothingIndexed DEF StopReading
<1>3. ASSUME NEW gs \in GroupList, BeginFile(gs) PROVE StoreInv'
  <2>1. \A c \in Letter : [x \in Letter |-> <<>>][c] = <<>>
    OBVIOUS
  <2>2. Checked(parsed')
    BY <1>3, <2>1, NothingIndexed DEF BeginFile
  <2> QED BY <1>1, <1>3, <2>2 DEF BeginFile, StoreInv
<1>4. ASSUME NEW it \in Item, ReadItem(it) PROVE StoreInv'
  <2>1. Checked(parsed')
    BY <1>4, FitsApart DEF ReadItem
  <2> QED BY <1>1, <1>4, <2>1 DEF ReadItem, StoreInv
<1>5. ASSUME NEW it \in Item, RefuseItem(it) PROVE StoreInv'
  BY <1>1, <1>2, <1>5 DEF RefuseItem, StoreInv
<1>6. CASE EndFile
  <2>1. Checked(parsed) /\ PairsAllowed(parsed) /\ Build(parsed)
    BY <1>6, WalkMeetsAll DEF EndFile, StoreInv
  <2>2. Indexed' /\ rules' = parsed
    BY <2>1, BuildIndexes DEF Build
  <2> QED BY <1>2, <1>6, <2>1, <2>2 DEF EndFile, StoreInv
<1>7. CASE RefuseFile
  BY <1>1, <1>2, <1>7 DEF RefuseFile, StoreInv
<1>8. CASE NewStore
  <2>1. \A c \in Letter : buckets'[c] = <<>>
    BY <1>8 DEF NewStore
  <2> QED BY <1>8, <2>1, NothingIndexed DEF NewStore, StoreInv, Indexed
<1>9. CASE UNCHANGED vars
  BY <1>1, <1>9 DEF vars, StoreInv
<1> QED BY <1>3, <1>4, <1>5, <1>6, <1>7, <1>8, <1>9 DEF Next

\* What is kept of a file has passed every check of its items, alone and against
\* each other, and the indexes and buckets are those of the rules, with every
\* literal rule and every template in the one its trigger asks for.
\* (loadFromText.)
THEOREM StoreInvariant == Spec => []StoreInv
BY StoreInit, StoreStep, PTL DEF Spec

\* The indexes and buckets of a store only ever have positions of rules that it
\* keeps, whatever was read or refused before.  (rules_ and the four containers
\* that loadFromText moves into place together.)
THEOREM StoreTyped == Spec => []TypeOK
<1>1. StoreInv => TypeOK
  <2> SUFFICES ASSUME StoreInv PROVE TypeOK
    OBVIOUS
  <2>1. \A key : Templates(rules, key) \subseteq DOMAIN rules /\ Literals(rules, key) \subseteq DOMAIN rules
    BY DEF Templates, Literals
  <2>2. \A s, S : Lists(s, S) => ToSet(s) \subseteq S
    BY DEF Lists, ToSet
  <2>3. \A c \in Letter : ToSet(buckets[c]) \subseteq Templates(rules, c)
    BY <2>2 DEF StoreInv, Indexed, IndexedBy
  <2>4. ToSet(fallback) \subseteq Templates(rules, Nothing)
    BY <2>2 DEF StoreInv, Indexed, IndexedBy
  <2>5. /\ \A i \in DOMAIN exact : exact[i] \in DOMAIN rules
        /\ \A i \in DOMAIN folded : folded[i] \in DOMAIN rules
    BY <2>1 DEF StoreInv, Indexed, IndexedBy
  <2> HIDE DEF StoreInv
  <2>6. /\ \A c \in Letter : ToSet(buckets[c]) \subseteq DOMAIN rules
        /\ ToSet(fallback) \subseteq DOMAIN rules
    BY <2>1, <2>3, <2>4
  <2> QED BY <2>5, <2>6 DEF StoreInv, Checked, TypeOK
<1> QED BY <1>1, StoreInvariant, PTL

(***************************************************************************)
(* Literal rules.                                                          *)
(***************************************************************************)
\* A text that can be looked up.
Lookable == Seq(Letter) \ {<<>>}

\* i is a literal rule for the text.
Means(i, text) ==
  /\ i \in DOMAIN rules /\ ~rules[i].capture
  /\ Compared(rules[i], rules[i].trigger) = Compared(rules[i], text)

\* No two rules are for one text: they would conflict.
LEMMA MeansOnce ==
  ASSUME StoreInv, NEW text, NEW i, NEW j, Means(i, text), Means(j, text)
  PROVE  i = j
<1>1. Apart(rules)
  BY DEF StoreInv, Checked
<1>2. /\ i \in DOMAIN rules /\ j \in DOMAIN rules
      /\ IF rules[i].caseSensitive THEN rules[i].trigger = text ELSE Fold(rules[i].trigger) = Fold(text)
      /\ IF rules[j].caseSensitive THEN rules[j].trigger = text ELSE Fold(rules[j].trigger) = Fold(text)
  BY DEF Means, Compared
<1>3. Conflicting(rules[i], rules[j])
  BY <1>2 DEF Conflicting
<1> QED BY <1>1, <1>2, <1>3 DEF Apart

LEMMA ExactFinds ==
  ASSUME StoreInv, NEW text, text \in DOMAIN exact
  PROVE  Means(exact[text], text)
<1>1. exact[text] \in Literals(rules, TRUE) /\ rules[exact[text]].trigger = text
  BY DEF StoreInv, Indexed, IndexedBy
<1> QED BY <1>1 DEF Means, Compared, Literals

LEMMA FoldedFinds ==
  ASSUME StoreInv, NEW text, Fold(text) \in DOMAIN folded
  PROVE  Means(folded[Fold(text)], text)
<1>1. folded[Fold(text)] \in Literals(rules, FALSE) /\ Fold(rules[folded[Fold(text)]].trigger) = Fold(text)
  BY DEF StoreInv, Indexed, IndexedBy
<1> QED BY <1>1 DEF Means, Compared, Literals

LEMMA MeansIndexed ==
  ASSUME StoreInv, NEW text, NEW i, Means(i, text)
  PROVE  \/ text \in DOMAIN exact /\ exact[text] = i
         \/ Fold(text) \in DOMAIN folded /\ folded[Fold(text)] = i
<1>1. i \in DOMAIN rules /\ rules[i] \in KeptRule /\ rules[i].caseSensitive \in BOOLEAN /\ ~rules[i].capture
  BY KeptFields DEF StoreInv, Checked, Means
<1>2. CASE rules[i].caseSensitive
  <2>1. i \in Literals(rules, TRUE) /\ rules[i].trigger = text
    BY <1>1, <1>2 DEF Literals, Means, Compared
  <2>2. text \in DOMAIN exact
    BY <2>1 DEF StoreInv, Indexed, IndexedBy
  <2> QED BY <2>2, ExactFinds, MeansOnce
<1>3. CASE ~rules[i].caseSensitive
  <2>1. i \in Literals(rules, FALSE) /\ Fold(rules[i].trigger) = Fold(text)
    BY <1>1, <1>3 DEF Literals, Means, Compared
  <2>2. Fold(text) \in DOMAIN folded
    BY <2>1 DEF StoreInv, Indexed, IndexedBy
  <2> QED BY <2>2, FoldedFinds, MeansOnce
<1> QED BY <1>2, <1>3

LEMMA IndexedIsSearch ==
  ASSUME StoreInv, NEW text, NEW how, NEW c
  PROVE  /\ SearchFinds(text, how, c) = {FindIndexed(text, how, c)} \ {NoRule}
         /\ \A i : i \in SearchFinds(text, how, c) <=> Means(i, text) /\ Eligible(rules[i], how, c)
<1> DEFINE found == FindIndexed(text, how, c)
           Good(i) == Means(i, text) /\ Eligible(rules[i], how, c)
<1>1. \A i : i \in SearchFinds(text, how, c) <=> Good(i)
  BY DEF SearchFinds, Means
<1>2. found # NoRule => Good(found)
  BY ExactFinds, FoldedFinds DEF FindIndexed
<1>3. ASSUME NEW i, Good(i) PROVE found = i
  <2>1. \/ text \in DOMAIN exact /\ exact[text] = i
        \/ Fold(text) \in DOMAIN folded /\ folded[Fold(text)] = i
    BY <1>3, MeansIndexed
  <2>2. text \in DOMAIN exact => exact[text] = i
    BY <1>3, ExactFinds, MeansOnce
  <2>3. Fold(text) \in DOMAIN folded => folded[Fold(text)] = i
    BY <1>3, FoldedFinds, MeansOnce
  <2> QED BY <1>3, <2>1, <2>2, <2>3 DEF FindIndexed
<1>4. ~Good(NoRule)
  <2>1. rules \in Seq(KeptRule)
    BY DEF StoreInv, Checked
  <2>2. NoRule \notin DOMAIN rules
    BY <2>1 DEF NoRule
  <2> QED BY <2>2 DEF Means
<1> HIDE DEF Good, found
<1>5. SearchFinds(text, how, c) = {found} \ {NoRule}
  BY <1>1, <1>2, <1>3, <1>4
<1> QED BY <1>1, <1>5 DEF found, Good

\* The two indexes find what a search of all literal rules would, of which there
\* never are two.  (findIndexed, with the conflict check of loadFromText.)
THEOREM IndexesFindTheRule == Spec => []FindIsSearch
<1>1. StoreInv => FindIsSearch
  BY IndexedIsSearch DEF FindIsSearch, ForQueries
<1> QED BY <1>1, StoreInvariant, PTL

(***************************************************************************)
(* Prefixes.                                                               *)
(***************************************************************************)
LEMMA FoldOfPrefix ==
  ASSUME NEW t \in Trigger, NEW n \in Nat, n <= Len(t)
  PROVE  Fold(SubSeq(t, 1, n)) = SubSeq(Fold(t), 1, n)
<1> DEFINE s == Fold(SubSeq(t, 1, n))
           u == SubSeq(Fold(t), 1, n)
<1>1. SubSeq(t, 1, n) \in Trigger /\ Len(SubSeq(t, 1, n)) = n /\ \A i \in 1 .. n : SubSeq(t, 1, n)[i] = t[i]
  BY PrefixProperties DEF Trigger
<1>2. Fold(t) \in Trigger /\ Len(Fold(t)) = Len(t)
  BY FoldProperties
<1>3. u \in Trigger /\ Len(u) = n /\ \A i \in 1 .. n : u[i] = Fold(t)[i]
  BY <1>2, PrefixProperties DEF Trigger
<1>4. s \in Trigger /\ Len(s) = n
  BY <1>1, FoldProperties
<1>5. \A i \in 1 .. n : s[i] = u[i]
  <2> TAKE i \in 1 .. n
  <2>1. i \in 1 .. Len(t)
    BY DEF Trigger
  <2>2. s[i] = IF t[i] \in Letter THEN Lower[t[i]] ELSE t[i]
    BY <1>1, FoldProperties
  <2>3. Fold(t)[i] = IF t[i] \in Letter THEN Lower[t[i]] ELSE t[i]
    BY <2>1, FoldProperties
  <2> QED BY <1>3, <2>2, <2>3
<1> HIDE DEF s, u
<1>6. s = u
  BY <1>3, <1>4, <1>5, SameList DEF Trigger
<1> QED BY <1>6 DEF s, u

LEMMA PrefixCaught ==
  ASSUME StoreInv, NEW text \in Seq(Letter), NEW n \in 1 .. Len(text) - 1, NEW c,
         NEW i, Means(i, text), NEW p, p = FindIndexed(SubSeq(text, 1, n), Immediate, c), p # NoRule
  PROVE  rules[p].caseSensitive /\ ~rules[i].caseSensitive
<1> SUFFICES ASSUME ~ (rules[p].caseSensitive /\ ~rules[i].caseSensitive) PROVE FALSE
  OBVIOUS
<1> DEFINE start == SubSeq(text, 1, n)
           P == rules[p].trigger
           I == rules[i].trigger
<1>1. text \in Trigger /\ n \in Nat /\ n < Len(text) /\ n >= 1
  BY DEF Trigger
<1>2. start \in Trigger /\ Len(start) = n
  BY <1>1, PrefixProperties DEF Trigger
<1>3. Means(p, start) /\ Eligible(rules[p], Immediate, c)
  BY IndexedIsSearch
<1>4. Immediate \in rules[p].activation
  BY <1>3, RuleStoreConstants DEF Eligible, ActivationMatches
<1>5. /\ p \in DOMAIN rules /\ i \in DOMAIN rules /\ ~rules[p].capture /\ ~rules[i].capture
      /\ P \in Trigger /\ I \in Trigger
  BY <1>3, KeptFields DEF StoreInv, Checked, Means
<1>6. /\ IF rules[p].caseSensitive THEN P = start ELSE Fold(P) = Fold(start)
      /\ IF rules[i].caseSensitive THEN I = text ELSE Fold(I) = Fold(text)
  BY <1>3 DEF Means, Compared
<1> HIDE DEF start, P, I
<1>7. Len(P) = n /\ Len(I) = Len(text)
  BY <1>1, <1>2, <1>5, <1>6, FoldProperties
<1>8. Compared(rules[p], P) = SubSeq(Compared(rules[p], I), 1, n)
  <2>1. CASE rules[p].caseSensitive
    <3>1. P = start /\ I = text
      BY <1>6, <2>1
    <3> QED BY <2>1, <3>1 DEF Compared, start
  <2>2. CASE ~rules[p].caseSensitive
    <3>1. Fold(P) = Fold(start) /\ Fold(I) = Fold(text)
      BY <1>6, <2>2
    <3>2. Fold(start) = SubSeq(Fold(text), 1, n)
      BY <1>1, FoldOfPrefix DEF start
    <3> QED BY <2>2, <3>1, <3>2 DEF Compared
  <2> QED BY <2>1, <2>2
<1>9. Len(Compared(rules[p], P)) = n /\ Len(Compared(rules[p], I)) = Len(text)
  BY <1>5, <1>7, FoldProperties DEF Compared
<1>10. At(Compared(rules[p], I), 0, Compared(rules[p], P))
  <2>1. 0 + n <= Len(text) /\ 0 + 1 = 1 /\ 0 + n = n
    BY <1>1
  <2> QED BY <1>8, <1>9, <2>1 DEF At
<1>11. StartsWith(rules[p], rules[i])
  BY <1>1, <1>7, <1>10 DEF StartsWith, P, I
<1> QED BY <1>4, <1>5, <1>11 DEF StoreInv, PairsAllowed

\* In an accepted file no rule that is immediate replaces the beginning of a
\* text that a literal rule is for, but for a difference of case.
\* (startsWithForRule and the two loops of loadFromText.)
THEOREM PrefixesNeverFire == Spec => []PrefixesAreCaught
<1>1. StoreInv => PrefixesAreCaught
  <2> SUFFICES ASSUME StoreInv, NEW q \in Queries, NEW i \in DOMAIN rules,
                      ~rules[i].capture, TriggerMatches(rules[i], q[1]),
                      NEW n \in 1 .. Len(q[1]) - 1,
                      FindIndexed(SubSeq(q[1], 1, n), Immediate, q[3]) # NoRule
               PROVE  /\ rules[FindIndexed(SubSeq(q[1], 1, n), Immediate, q[3])].caseSensitive
                      /\ ~rules[i].caseSensitive
    BY DEF PrefixesAreCaught, ForQueries
  <2>1. q[1] \in Seq(Letter)
    BY RuleStoreConstants DEF Queries
  <2>2. Means(i, q[1])
    BY DEF TriggerMatches, Means
  <2> QED BY <2>1, <2>2, PrefixCaught
<1> QED BY <1>1, StoreInvariant, PTL

(***************************************************************************)
(* The order of capture templates.                                         *)
(***************************************************************************)
\* The turns of the merge: after n of them b are of the bucket.
LEMMA TurnsExist ==
  ASSUME NEW bucket \in Seq(Nat), NEW rest \in Seq(Nat)
  PROVE  \E taken \in [0 .. Len(bucket) + Len(rest) -> Nat] :
           /\ taken[0] = 0
           /\ \A n \in 1 .. Len(bucket) + Len(rest) :
                LET b == taken[n - 1]
                    r == n - 1 - b
                IN taken[n] = IF b < Len(bucket) /\ (r >= Len(rest) \/ bucket[b + 1] < rest[r + 1])
                              THEN b + 1 ELSE b
           /\ Merged(bucket, rest) =
                [n \in 1 .. Len(bucket) + Len(rest) |->
                   IF taken[n - 1] < taken[n] THEN bucket[taken[n]] ELSE rest[n - taken[n]]]
<1> DEFINE N == Len(bucket) + Len(rest)
           Next1(b, n) == IF b < Len(bucket) /\ (n - 1 - b >= Len(rest) \/ bucket[b + 1] < rest[n - 1 - b + 1])
                          THEN b + 1 ELSE b
           G == [z \in Nat \X (1 .. N) |-> Next1(z[1], z[2])]
           Body(f) == [n \in 0 .. N |-> IF n = 0 THEN 0 ELSE Next1(f[n - 1], n)]
           turns == CHOOSE f : f = Body(f)
<1>1. N \in Nat
  OBVIOUS
<1>2. G \in [Nat \X (1 .. N) -> Nat]
  <2>1. \A b \in Nat : \A n : Next1(b, n) \in Nat
    OBVIOUS
  <2> HIDE DEF Next1
  <2> QED BY <2>1
<1>3. PICK f \in [0 .. N -> Nat] : f[0] = 0 /\ \A n \in 1 .. N : f[n] = G[<<f[n - 1], n>>]
  <2>1. 0 \in Nat
    OBVIOUS
  <2> HIDE DEF G, N
  <2>2. \E f : Recursion(f, N, Nat, 0, G)
    BY <1>1, <1>2, <2>1, RecursionExists
  <2> QED BY <2>2 DEF Recursion
<1>4. \A n \in 1 .. N : f[n] = Next1(f[n - 1], n)
  <2> TAKE n \in 1 .. N
  <2>1. f[n - 1] \in Nat
    <3> HIDE DEF N
    <3> QED BY <1>1
  <2>2. G[<<f[n - 1], n>>] = Next1(f[n - 1], n)
    <3> HIDE DEF Next1, N
    <3> QED BY <2>1
  <2> HIDE DEF G, Next1
  <2> QED BY <1>3, <2>2
<1> HIDE DEF G
<1>5. f = Body(f)
  <2> HIDE DEF Next1
  <2> QED BY <1>1, <1>3, <1>4
<1>6. turns = Body(turns)
  <2> HIDE DEF Body
  <2> QED BY <1>5
<1>7. Merged(bucket, rest) = [n \in 1 .. N |-> IF turns[n - 1] < turns[n] THEN bucket[turns[n]] ELSE rest[n - turns[n]]]
  BY DEF Merged
<1> HIDE DEF turns
<1>8. turns[0] = 0 /\ \A n \in 1 .. N : turns[n] = Next1(turns[n - 1], n)
  <2> HIDE DEF Next1
  <2>1. \A n \in 0 .. N : turns[n] = IF n = 0 THEN 0 ELSE Next1(turns[n - 1], n)
    BY <1>6
  <2> HIDE DEF N, Body
  <2> QED BY <1>1, <2>1
<1>9. turns \in [0 .. N -> Nat]
  <2> DEFINE T == {n \in Nat : n \in 0 .. N => turns[n] \in Nat}
  <2>1. 0 \in T
    BY <1>8
  <2>2. ASSUME NEW n \in Nat, n \in T PROVE n + 1 \in T
    <3> SUFFICES ASSUME n + 1 \in 0 .. N PROVE turns[n + 1] \in Nat
      OBVIOUS
    <3>1. turns[n] \in Nat /\ n + 1 \in 1 .. N /\ (n + 1) - 1 = n
      BY <1>1, <2>2
    <3>2. turns[n + 1] = Next1(turns[n], n + 1)
      <4> HIDE DEF Next1, N
      <4> QED BY <1>8, <3>1
    <3> QED BY <3>1, <3>2
  <2> HIDE DEF T
  <2>3. \A n \in Nat : n \in T
    BY <2>1, <2>2, SetInduction
  <2>4. \A n \in 0 .. N : turns[n] \in Nat
    BY <1>1, <2>3 DEF T
  <2> HIDE DEF Next1
  <2>5. turns = [n \in 0 .. N |-> turns[n]]
    BY <1>6
  <2> HIDE DEF Body, N
  <2> QED BY <2>4, <2>5
<1> QED BY <1>7, <1>8, <1>9

\* The merge of two lists in order is the list of both in order.
LEMMA MergedLists ==
  ASSUME NEW S \in SUBSET Nat, NEW R \in SUBSET Nat, S \cap R = {},
         NEW bucket, Lists(bucket, S), NEW rest, Lists(rest, R)
  PROVE  Lists(Merged(bucket, rest), S \cup R)
<1> DEFINE B == Len(bucket)
           C == Len(rest)
           N == B + C
           m == Merged(bucket, rest)
<1>1. /\ bucket \in Seq(S) /\ rest \in Seq(R)
      /\ bucket \in Seq(Nat) /\ rest \in Seq(Nat)
  BY ListOfMore DEF Lists
<1>a. /\ \A i \in 1 .. B : bucket[i] \in S /\ bucket[i] \in Nat
      /\ \A i, j \in 1 .. B : i < j => bucket[i] < bucket[j]
      /\ DOMAIN bucket = 1 .. B
  BY <1>1 DEF Lists
<1>c. /\ \A i \in 1 .. C : rest[i] \in R /\ rest[i] \in Nat
      /\ \A i, j \in 1 .. C : i < j => rest[i] < rest[j]
      /\ DOMAIN rest = 1 .. C
  BY <1>1 DEF Lists
<1>n. B \in Nat /\ C \in Nat /\ N \in Nat
  BY <1>1
<1>2. PICK t \in [0 .. N -> Nat] :
        /\ t[0] = 0
        /\ \A n \in 1 .. N :
             t[n] = IF /\ t[n - 1] < B
                       /\ n - 1 - t[n - 1] >= C \/ bucket[t[n - 1] + 1] < rest[n - 1 - t[n - 1] + 1]
                    THEN t[n - 1] + 1 ELSE t[n - 1]
        /\ m = [n \in 1 .. N |-> IF t[n - 1] < t[n] THEN bucket[t[n]] ELSE rest[n - t[n]]]
  <2> HIDE DEF m
  <2> QED BY <1>1, TurnsExist DEF m
<1> HIDE DEF m, B, C
<1>3. \A i \in 1 .. B, j \in 1 .. C : bucket[i] # rest[j]
  BY <1>a, <1>c
\* After n turns, b of the bucket and r of the rest are taken, and what comes
\* is greater than what was.
<1> DEFINE Taken(n) ==
             /\ t[n] \in 0 .. B /\ n - t[n] \in 0 .. C
             /\ \A i \in 1 .. n :
                  /\ m[i] \in Nat
                  /\ (\E j \in 1 .. t[n] : m[i] = bucket[j]) \/ (\E j \in 1 .. n - t[n] : m[i] = rest[j])
                  /\ t[n] < B => m[i] < bucket[t[n] + 1]
                  /\ n - t[n] < C => m[i] < rest[n - t[n] + 1]
             /\ \A i, j \in 1 .. n : i < j => m[i] < m[j]
             /\ \A j \in 1 .. t[n] : \E i \in 1 .. n : m[i] = bucket[j]
             /\ \A j \in 1 .. n - t[n] : \E i \in 1 .. n : m[i] = rest[j]
           T == {n \in Nat : n <= N => Taken(n)}
<1>4. 0 \in T
  BY <1>n, <1>2
<1>5. ASSUME NEW n \in Nat, n \in T PROVE n + 1 \in T
  <2> SUFFICES ASSUME n + 1 <= N PROVE Taken(n + 1)
    <3> HIDE DEF Taken
    <3> QED OBVIOUS
  <2>1. Taken(n)
    <3> HIDE DEF Taken
    <3> QED BY <1>n, <1>5
  <2>2. PICK b, r : b = t[n] /\ r = n - b /\ b \in 0 .. B /\ r \in 0 .. C
    BY <2>1
  <2>3. n + 1 \in 1 .. N /\ (n + 1) - 1 = n /\ n \in 0 .. N
    BY <1>n
  <2>4. b < B \/ r < C
    BY <1>n, <2>2
  <2> DEFINE useBucket == b < B /\ (r >= C \/ bucket[b + 1] < rest[r + 1])
  <2>5. t[n + 1] = IF useBucket THEN b + 1 ELSE b
    BY <1>2, <2>2, <2>3
  <2>6. m[n + 1] = IF b < t[n + 1] THEN bucket[t[n + 1]] ELSE rest[n + 1 - t[n + 1]]
    BY <1>2, <2>2, <2>3
  <2>7. /\ \A i \in 1 .. n :
              /\ m[i] \in Nat
              /\ (\E j \in 1 .. b : m[i] = bucket[j]) \/ (\E j \in 1 .. r : m[i] = rest[j])
              /\ b < B => m[i] < bucket[b + 1]
              /\ r < C => m[i] < rest[r + 1]
        /\ \A i, j \in 1 .. n : i < j => m[i] < m[j]
        /\ \A j \in 1 .. b : \E i \in 1 .. n : m[i] = bucket[j]
        /\ \A j \in 1 .. r : \E i \in 1 .. n : m[i] = rest[j]
    BY <2>1, <2>2
  <2> HIDE DEF Taken
  <2>8. PICK c, q : /\ c = t[n + 1] /\ q = n + 1 - c /\ c \in 0 .. B /\ q \in 0 .. C
                    /\ m[n + 1] \in Nat
                    /\ \/ c = b + 1 /\ q = r /\ m[n + 1] = bucket[c]
                       \/ c = b /\ q = r + 1 /\ m[n + 1] = rest[q]
                    /\ \A i \in 1 .. n : m[i] < m[n + 1]
                    /\ c < B => m[n + 1] < bucket[c + 1]
                    /\ q < C => m[n + 1] < rest[q + 1]
    <3>1. CASE useBucket
      <4>1. b < B /\ (r < C => bucket[b + 1] < rest[r + 1])
        BY <1>n, <2>2, <3>1
      <4>2. t[n + 1] = b + 1
        BY <2>5, <3>1
      <4> HIDE DEF useBucket
      <4>3. b + 1 \in 1 .. B /\ b < b + 1 /\ n + 1 - (b + 1) = r
        BY <1>n, <2>2, <4>1
      <4>4. m[n + 1] = bucket[b + 1]
        BY <2>6, <4>2, <4>3
      <4>5. ASSUME b + 1 < B PROVE bucket[b + 1] < bucket[b + 1 + 1]
        <5>1. b + 1 + 1 \in 1 .. B /\ b + 1 < b + 1 + 1
          BY <1>n, <2>2, <4>5
        <5> QED BY <1>a, <4>3, <5>1
      <4>6. \A i \in 1 .. n : m[i] < bucket[b + 1]
        BY <2>7, <4>1
      <4>7. m[n + 1] \in Nat
        BY <1>a, <4>3, <4>4
      <4>8. b + 1 \in 0 .. B
        BY <2>2, <4>3
      <4> QED BY <2>2, <4>1, <4>2, <4>3, <4>4, <4>5, <4>6, <4>7, <4>8
    <3>2. CASE ~useBucket
      <4>1. r < C /\ (b < B => ~ (bucket[b + 1] < rest[r + 1]))
        BY <1>n, <2>2, <2>4, <3>2
      <4>2. t[n + 1] = b
        BY <2>5, <3>2
      <4> HIDE DEF useBucket
      <4>3. r + 1 \in 1 .. C /\ ~ (b < b) /\ n + 1 - b = r + 1
        BY <1>n, <2>2, <4>1
      <4>4. m[n + 1] = rest[r + 1]
        BY <2>6, <4>2, <4>3
      <4>5. ASSUME r + 1 < C PROVE rest[r + 1] < rest[r + 1 + 1]
        <5>1. r + 1 + 1 \in 1 .. C /\ r + 1 < r + 1 + 1
          BY <1>n, <2>2, <4>5
        <5> QED BY <1>c, <4>3, <5>1
      <4>6. \A i \in 1 .. n : m[i] < rest[r + 1]
        BY <2>7, <4>1
      <4>7. m[n + 1] \in Nat
        BY <1>c, <4>3, <4>4
      <4>8. ASSUME b < B PROVE rest[r + 1] < bucket[b + 1]
        <5>1. b + 1 \in 1 .. B
          BY <1>n, <2>2, <4>8
        <5>2. bucket[b + 1] \in Nat /\ rest[r + 1] \in Nat /\ bucket[b + 1] # rest[r + 1]
          BY <1>a, <1>c, <1>3, <4>3, <5>1
        <5> QED BY <4>1, <4>8, <5>2
      <4>9. r + 1 \in 0 .. C
        BY <2>2, <4>3
      <4> QED BY <2>2, <4>1, <4>2, <4>3, <4>4, <4>5, <4>6, <4>7, <4>8, <4>9
    <3> QED BY <3>1, <3>2
  <2>9. \A i \in 1 .. n + 1 : m[i] \in Nat /\ (i # n + 1 => i \in 1 .. n)
    BY <2>7, <2>8
  <2>10. \A i \in 1 .. n + 1 :
           /\ (\E j \in 1 .. c : m[i] = bucket[j]) \/ (\E j \in 1 .. q : m[i] = rest[j])
           /\ c < B => m[i] < bucket[c + 1]
           /\ q < C => m[i] < rest[q + 1]
    <3> TAKE i \in 1 .. n + 1
    <3>1. CASE i = n + 1
      BY <2>2, <2>8, <3>1
    <3>2. CASE i \in 1 .. n
      <4>1. /\ c < B => bucket[c + 1] \in Nat
            /\ q < C => rest[q + 1] \in Nat
        <5>1. (c < B => c + 1 \in 1 .. B) /\ (q < C => q + 1 \in 1 .. C)
          <6>1. c \in 0 .. B /\ q \in 0 .. C
            BY <2>8
          <6>2. B \in Nat /\ C \in Nat
            BY <1>n
          <6> QED BY <6>1, <6>2
        <5> QED BY <1>a, <1>c, <5>1
      <4>2. m[i] < m[n + 1] /\ m[i] \in Nat /\ m[n + 1] \in Nat
        BY <2>7, <2>8, <3>2
      <4>3. (c < B => m[i] < bucket[c + 1]) /\ (q < C => m[i] < rest[q + 1])
        BY <2>8, <4>1, <4>2
      <4>4. (\E j \in 1 .. b : m[i] = bucket[j]) \/ (\E j \in 1 .. r : m[i] = rest[j])
        BY <2>7, <3>2
      <4>5. (\A j \in 1 .. b : j \in 1 .. c) /\ (\A j \in 1 .. r : j \in 1 .. q)
        <5>1. b \in Int /\ r \in Int /\ (c = b \/ c = b + 1) /\ (q = r \/ q = r + 1)
          BY <2>2, <2>8
        <5> QED BY <5>1
      <4> QED BY <4>3, <4>4, <4>5
    <3> QED BY <2>9, <3>1, <3>2
  <2>11. \A i, j \in 1 .. n + 1 : i < j => m[i] < m[j]
    <3> SUFFICES ASSUME NEW i \in 1 .. n + 1, NEW j \in 1 .. n + 1, i < j PROVE m[i] < m[j]
      OBVIOUS
    <3>1. i \in 1 .. n /\ (j = n + 1 \/ j \in 1 .. n)
      OBVIOUS
    <3> QED BY <2>7, <2>8, <3>1
  <2>12. \A i \in 1 .. n : i \in 1 .. n + 1
    OBVIOUS
  <2>13. /\ \A j \in 1 .. c : \E i \in 1 .. n + 1 : m[i] = bucket[j]
         /\ \A j \in 1 .. q : \E i \in 1 .. n + 1 : m[i] = rest[j]
    <3>1. \A j \in 1 .. c : j \in 1 .. b \/ (j = c /\ c = b + 1)
      BY <2>2, <2>8
    <3>2. \A j \in 1 .. q : j \in 1 .. r \/ (j = q /\ q = r + 1)
      BY <2>2, <2>8
    <3>3. n + 1 \in 1 .. n + 1 /\ c # c + 1 /\ q # q + 1
      BY <2>2, <2>8
    <3>4. /\ c = b + 1 => m[n + 1] = bucket[c]
          /\ q = r + 1 => m[n + 1] = rest[q]
      BY <2>2, <2>8
    <3> QED BY <2>7, <2>12, <3>1, <3>2, <3>3, <3>4
  <2>14. t[n + 1] = c /\ n + 1 - t[n + 1] = q /\ c \in 0 .. B /\ q \in 0 .. C
    BY <2>8
  <2> QED BY <2>9, <2>10, <2>11, <2>13, <2>14 DEF Taken
<1> HIDE DEF T
<1>6. Taken(N)
  <2>1. \A n \in Nat : n \in T
    BY <1>4, <1>5, SetInduction
  <2> HIDE DEF Taken
  <2> QED BY <1>n, <2>1 DEF T
<1>7. t[N] = B /\ N - t[N] = C
  BY <1>n, <1>6
<1>8. /\ \A i \in 1 .. N : m[i] \in S \cup R
      /\ \A i, j \in 1 .. N : i < j => m[i] < m[j]
  BY <1>a, <1>c, <1>6, <1>7
<1>9. \A x \in S \cup R : \E i \in 1 .. N : m[i] = x
  <2>1. \A x \in S : \E j \in 1 .. B : bucket[j] = x
    BY <1>a, <1>c DEF Lists
  <2>2. \A x \in R : \E j \in 1 .. C : rest[j] = x
    BY <1>a, <1>c DEF Lists
  <2>3. /\ \A j \in 1 .. B : \E i \in 1 .. N : m[i] = bucket[j]
        /\ \A j \in 1 .. C : \E i \in 1 .. N : m[i] = rest[j]
    BY <1>6, <1>7
  <2> QED BY <2>1, <2>2, <2>3
<1>10. m \in Seq(S \cup R) /\ DOMAIN m = 1 .. N
  BY <1>n, <1>2, <1>8
<1>11. Lists(m, S \cup R)
  BY <1>8, <1>9, <1>10 DEF Lists
<1> QED BY <1>11 DEF m

(***************************************************************************)
(* Where the markers of a template are.                                    *)
(***************************************************************************)
LEMMA MarkFacts ==
  ASSUME NEW t \in Trigger, Compiles(t), NEW n, n = Cardinality(Marks(t))
  PROVE  /\ n \in Nat /\ n >= 1
         /\ MarkAt(t, 0) = 0 /\ MarkAt(t, n + 1) = Len(t) + 1
         /\ \A k \in 1 .. n : MarkAt(t, k) \in Marks(t) /\ MarkAt(t, k) \in 1 .. Len(t)
         /\ \A k \in 0 .. n : MarkAt(t, k) \in Nat /\ MarkAt(t, k + 1) \in Nat
         /\ \A k \in 0 .. n : MarkAt(t, k) < MarkAt(t, k + 1)
         /\ \A k \in 1 .. n - 1 : MarkAt(t, k) + 1 < MarkAt(t, k + 1)
<1> DEFINE N == Len(t)
           M == Marks(t)
           a == Ascending(M)
<1>1. N \in Nat /\ DOMAIN t = 1 .. N
  BY DEF Trigger
<1>2. M \in SUBSET (1 .. N) /\ M # {}
  BY <1>1 DEF Marks, Compiles
<1>3. n \in Nat /\ n >= 1
  <2>1. IsFiniteSet(M)
    <3>1. IsFiniteSet(1 .. N)
      BY <1>1, FS_Interval
    <3> HIDE DEF M
    <3> QED BY <1>2, <3>1, FS_Subset
  <2> HIDE DEF M
  <2>2. Cardinality(M) \in Nat /\ Cardinality(M) # 0
    BY <1>2, <2>1, FS_CardinalityType, FS_EmptySet
  <2> QED BY <2>2 DEF M
<1>4. a \in [1 .. n -> M] /\ \A i, j \in 1 .. n : i < j => a[i] < a[j]
  <2>1. \E s \in [1 .. n -> M] : \A i, j \in DOMAIN s : i < j => s[i] < s[j]
    <3> HIDE DEF M
    <3>1. \E s \in [1 .. Cardinality(M) -> M] : \A i, j \in DOMAIN s : i < j => s[i] < s[j]
      BY <1>1, <1>2, AscendingExists
    <3> QED BY <3>1 DEF M
  <2>2. a \in [1 .. n -> M] /\ \A i, j \in DOMAIN a : i < j => a[i] < a[j]
    <3> HIDE DEF M
    <3> QED BY <2>1 DEF Ascending, M
  <2> HIDE DEF a, M
  <2> QED BY <2>2
<1>5. \A k \in 1 .. n : MarkAt(t, k) = a[k]
  BY <1>3 DEF MarkAt
<1>6. MarkAt(t, 0) = 0 /\ MarkAt(t, n + 1) = N + 1
  BY <1>3 DEF MarkAt
<1> HIDE DEF a
<1>7. \A k \in 1 .. n : MarkAt(t, k) \in M /\ MarkAt(t, k) \in 1 .. N
  BY <1>2, <1>4, <1>5
<1>8. \A k \in 1 .. n - 1 : MarkAt(t, k) < MarkAt(t, k + 1) /\ MarkAt(t, k) + 1 # MarkAt(t, k + 1)
  <2> TAKE k \in 1 .. n - 1
  <2>1. k \in 1 .. n /\ k + 1 \in 1 .. n /\ k < k + 1
    BY <1>3
  <2>2. MarkAt(t, k) < MarkAt(t, k + 1)
    BY <1>4, <1>5, <2>1
  <2>3. MarkAt(t, k) \in Marks(t) /\ MarkAt(t, k + 1) \in Marks(t)
    BY <1>7, <2>1
  <2> QED BY <2>2, <2>3 DEF Compiles
<1> HIDE DEF M, N
<1>9. ASSUME NEW k \in 0 .. n
      PROVE  MarkAt(t, k) \in Nat /\ MarkAt(t, k + 1) \in Nat /\ MarkAt(t, k) < MarkAt(t, k + 1)
  <2>1. k = 0 \/ k \in 1 .. n
    BY <1>3
  <2>2. k = n \/ (k + 1 \in 1 .. n /\ (k # 0 => k \in 1 .. n - 1))
    BY <1>3
  <2>3. 1 \in 1 .. n
    BY <1>3
  <2> QED BY <1>1, <1>3, <1>6, <1>7, <1>8, <2>1, <2>2, <2>3
<1>10. \A k \in 1 .. n - 1 : MarkAt(t, k) + 1 < MarkAt(t, k + 1)
  <2> TAKE k \in 1 .. n - 1
  <2>1. k \in 0 .. n
    BY <1>3
  <2> QED BY <1>8, <1>9, <2>1
<1> QED BY <1>3, <1>6, <1>7, <1>9, <1>10 DEF M, N

\* The literals between them: only the first and the last may be empty.
LEMMA LiteralFacts ==
  ASSUME NEW t \in Trigger, Compiles(t), NEW n, n = Cardinality(Marks(t))
  PROVE  /\ \A k \in 0 .. n : Literal(t, k) \in Trigger
         /\ \A k \in 1 .. n - 1 : Len(Literal(t, k)) > 0
         /\ t[1] \in Letter => Len(Literal(t, 0)) > 0 /\ Literal(t, 0)[1] = t[1]
<1>1. /\ n \in Nat /\ n >= 1
      /\ MarkAt(t, 0) = 0 /\ MarkAt(t, n + 1) = Len(t) + 1
      /\ \A k \in 1 .. n : MarkAt(t, k) \in Marks(t) /\ MarkAt(t, k) \in 1 .. Len(t)
      /\ \A k \in 0 .. n : MarkAt(t, k) \in Nat /\ MarkAt(t, k + 1) \in Nat
      /\ \A k \in 0 .. n : MarkAt(t, k) < MarkAt(t, k + 1)
      /\ \A k \in 1 .. n - 1 : MarkAt(t, k) + 1 < MarkAt(t, k + 1)
  BY MarkFacts
<1>2. Len(t) \in Nat /\ \A i \in 1 .. Len(t) : t[i] \in Letter \cup Marker
  BY DEF Trigger
<1>3. ASSUME NEW k \in 0 .. n
      PROVE  /\ Literal(t, k) \in Trigger
             /\ Len(Literal(t, k)) = MarkAt(t, k + 1) - MarkAt(t, k) - 1
             /\ Len(Literal(t, k)) > 0 => Literal(t, k)[1] = t[MarkAt(t, k) + 1]
  <2> DEFINE lo == MarkAt(t, k) + 1
             hi == MarkAt(t, k + 1) - 1
  <2>1. MarkAt(t, k) \in Nat /\ MarkAt(t, k + 1) \in Nat /\ MarkAt(t, k) < MarkAt(t, k + 1)
    BY <1>1
  <2>2. MarkAt(t, k + 1) <= Len(t) + 1
    <3>1. k = n \/ k + 1 \in 1 .. n
      BY <1>1
    <3> QED BY <1>1, <1>2, <3>1
  <2>3. lo \in Int /\ hi \in Int /\ lo >= 1 /\ hi <= Len(t) /\ lo <= hi + 1
    BY <1>2, <2>1, <2>2
  <2>4. \A i \in lo .. hi : t[i] \in Letter \cup Marker
    <3> HIDE DEF lo, hi
    <3> QED BY <1>2, <2>3
  <2> HIDE DEF lo, hi
  <2>5. /\ SubSeq(t, lo, hi) \in Seq(Letter \cup Marker)
        /\ Len(SubSeq(t, lo, hi)) = IF lo <= hi THEN hi - lo + 1 ELSE 0
        /\ \A i \in 1 .. hi - lo + 1 : SubSeq(t, lo, hi)[i] = t[lo + i - 1]
    BY <2>3, <2>4, SubSeqProperties
  <2>6. Len(SubSeq(t, lo, hi)) = hi - lo + 1
    BY <2>3, <2>5
  <2>7. Len(SubSeq(t, lo, hi)) > 0 => SubSeq(t, lo, hi)[1] = t[lo]
    <3> SUFFICES ASSUME Len(SubSeq(t, lo, hi)) > 0 PROVE SubSeq(t, lo, hi)[1] = t[lo]
      OBVIOUS
    <3>1. 1 \in 1 .. hi - lo + 1 /\ lo + 1 - 1 = lo
      BY <2>3, <2>6
    <3>2. SubSeq(t, lo, hi)[1] = t[lo + 1 - 1]
      BY <2>5, <3>1
    <3> QED BY <3>1, <3>2
  <2>8. Literal(t, k) = SubSeq(t, lo, hi)
    BY DEF Literal, lo, hi
  <2>9. hi - lo + 1 = MarkAt(t, k + 1) - MarkAt(t, k) - 1
    BY <2>1 DEF lo, hi
  <2> QED BY <2>5, <2>6, <2>7, <2>8, <2>9 DEF Trigger, lo
<1>4. \A k \in 1 .. n - 1 : Len(Literal(t, k)) > 0
  <2> TAKE k \in 1 .. n - 1
  <2>1. k \in 0 .. n
    BY <1>1
  <2>2. MarkAt(t, k) \in Nat /\ MarkAt(t, k + 1) \in Nat /\ MarkAt(t, k) + 1 < MarkAt(t, k + 1)
    BY <1>1, <2>1
  <2> QED BY <1>3, <2>1, <2>2
<1>5. ASSUME t[1] \in Letter PROVE Len(Literal(t, 0)) > 0 /\ Literal(t, 0)[1] = t[1]
  <2>1. 0 \in 0 .. n /\ 1 \in 1 .. n
    BY <1>1
  <2>2. MarkAt(t, 1) \in Nat /\ MarkAt(t, 1) > 0 /\ MarkAt(t, 1) \in Marks(t)
    BY <1>1, <1>2, <2>1
  <2>3. MarkAt(t, 1) # 1
    BY <1>5, <2>2, RuleStoreConstants DEF Marks, Marker
  <2>4. Len(Literal(t, 0)) = MarkAt(t, 1) - 0 - 1
    BY <1>1, <1>3, <2>1
  <2>5. Len(Literal(t, 0)) > 0
    BY <2>2, <2>3, <2>4
  <2> QED BY <1>1, <1>3, <2>1, <2>5
<1> QED BY <1>3, <1>4, <1>5

(***************************************************************************)
(* Matching a template.                                                    *)
(***************************************************************************)
Lit(r, k) == Compared(r, Literal(r.trigger, k))

\* Where the literal after a capture that begins at "from" may be.
Hits(r, s, k, from) ==
  IF Lit(r, k) = <<>> THEN {Len(s)} ELSE {p \in from .. Len(s) : At(s, p, Lit(r, k))}

NextEnd(r, s, k, from) ==
  IF from = -1 THEN -1
  ELSE IF Hits(r, s, k, from) = {} \/ from \in Hits(r, s, k, from) THEN -1
  ELSE Min(Hits(r, s, k, from)) + Len(Lit(r, k))

LEMMA EndsAre ==
  ASSUME NEW r, r.trigger \in Trigger, Compiles(r.trigger), NEW n, n = Cardinality(Marks(r.trigger)),
         NEW text, NEW s, s = Compared(r, text), s \in Trigger
  PROVE  /\ Ends(r, text) = [k \in 0 .. n |-> Ends(r, text)[k]]
         /\ Ends(r, text)[0] = IF At(s, 0, Lit(r, 0)) THEN Len(Lit(r, 0)) ELSE -1
         /\ \A k \in 1 .. n : Ends(r, text)[k] = NextEnd(r, s, k, Ends(r, text)[k - 1])
<1> DEFINE V == Nat \cup {-1}
           a == IF At(s, 0, Lit(r, 0)) THEN Len(Lit(r, 0)) ELSE -1
           G == [z \in V \X (1 .. n) |-> NextEnd(r, s, z[2], z[1])]
           Body(f) == [k \in 0 .. n |-> IF k = 0 THEN a ELSE NextEnd(r, s, k, f[k - 1])]
           e == Ends(r, text)
<1>1. n \in Nat /\ \A k \in 0 .. n : Literal(r.trigger, k) \in Trigger
  BY MarkFacts, LiteralFacts
<1>2. \A k \in 0 .. n : Lit(r, k) \in Trigger /\ Len(Lit(r, k)) \in Nat
  <2>1. \A k \in 0 .. n : Lit(r, k) \in Trigger
    BY <1>1, FoldProperties DEF Lit, Compared
  <2> QED BY <2>1 DEF Trigger
<1>3. a \in V
  BY <1>1, <1>2
<1>4. ASSUME NEW k \in 1 .. n, NEW from \in V PROVE NextEnd(r, s, k, from) \in V
  <2> DEFINE H == Hits(r, s, k, from)
  <2>1. CASE from = -1
    BY <2>1 DEF NextEnd
  <2>2. CASE from # -1 /\ H # {}
    <3>1. from \in Nat /\ Len(s) \in Nat
      BY <2>2 DEF Trigger
    <3>2. H \in SUBSET Nat
      BY <3>1 DEF Hits
    <3>3. Min(H) \in Nat
      <4> HIDE DEF H
      <4> QED BY <2>2, <3>2, MinIsLeast
    <3>4. Len(Lit(r, k)) \in Nat
      BY <1>1, <1>2
    <3>5. Min(H) + Len(Lit(r, k)) \in Nat
      BY <3>3, <3>4
    <3> QED BY <3>5 DEF NextEnd
  <2>3. CASE from # -1 /\ H = {}
    BY <2>3 DEF NextEnd
  <2> QED BY <2>1, <2>2, <2>3
<1>5. G \in [V \X (1 .. n) -> V]
  <2> HIDE DEF V
  <2> QED BY <1>4
<1>6. PICK f : Recursion(f, n, V, a, G)
  <2> HIDE DEF V, a, G
  <2> QED BY <1>1, <1>3, <1>5, RecursionExists
<1>7. f \in [0 .. n -> V] /\ f[0] = a /\ \A k \in 1 .. n : f[k] = NextEnd(r, s, k, f[k - 1])
  <2>1. f \in [0 .. n -> V] /\ f[0] = a /\ \A k \in 1 .. n : f[k] = G[<<f[k - 1], k>>]
    <3> HIDE DEF V, a, G
    <3> QED BY <1>6 DEF Recursion
  <2>2. \A k \in 1 .. n : f[k - 1] \in V
    <3> HIDE DEF V
    <3>1. \A k \in 1 .. n : k - 1 \in 0 .. n
      BY <1>1
    <3> QED BY <2>1, <3>1
  <2>3. \A k \in 1 .. n : G[<<f[k - 1], k>>] = NextEnd(r, s, k, f[k - 1])
    <3> HIDE DEF V
    <3> QED BY <2>2
  <2> HIDE DEF V, a, G
  <2> QED BY <2>1, <2>3
<1> HIDE DEF V, a, G
<1>8. f = Body(f)
  BY <1>1, <1>7
<1>9. e = CHOOSE g : g = Body(g)
  BY DEF Ends, NextEnd, Hits, Lit, a
<1> HIDE DEF e
<1>10. e = Body(e)
  <2> HIDE DEF Body
  <2> QED BY <1>8, <1>9
<1>11. \A k \in 0 .. n : e[k] = IF k = 0 THEN a ELSE NextEnd(r, s, k, e[k - 1])
  BY <1>10
<1>12. e = [k \in 0 .. n |-> e[k]]
  BY <1>10
<1>13. e[0] = a /\ \A k \in 1 .. n : e[k] = NextEnd(r, s, k, e[k - 1])
  <2> HIDE DEF Body
  <2> QED BY <1>1, <1>11
<1> QED BY <1>12, <1>13 DEF e, a

\* A text that has no end at a literal has none at those that follow.
LEMMA EndsReached ==
  ASSUME NEW r, r.trigger \in Trigger, Compiles(r.trigger), NEW n, n = Cardinality(Marks(r.trigger)),
         NEW text, NEW s, s = Compared(r, text), s \in Trigger, Ends(r, text)[n] # -1
  PROVE  \A k \in 0 .. n : Ends(r, text)[k] # -1
<1> DEFINE e == Ends(r, text)
           T == {j \in Nat : j <= n => e[n - j] # -1}
<1>1. n \in Nat /\ \A k \in 1 .. n : e[k] = NextEnd(r, s, k, e[k - 1])
  BY MarkFacts, EndsAre
<1> HIDE DEF e
<1>2. 0 \in T
  BY <1>1 DEF e
<1>3. ASSUME NEW j \in Nat, j \in T PROVE j + 1 \in T
  <2> SUFFICES ASSUME j + 1 <= n PROVE e[n - (j + 1)] # -1
    OBVIOUS
  <2>1. e[n - j] # -1 /\ n - j \in 1 .. n /\ (n - j) - 1 = n - (j + 1)
    BY <1>1, <1>3
  <2>2. e[n - j] = NextEnd(r, s, n - j, e[n - (j + 1)])
    BY <1>1, <2>1
  <2> QED BY <2>1, <2>2 DEF NextEnd
<1> HIDE DEF T
<1>4. \A j \in Nat : j \in T
  BY <1>2, <1>3, SetInduction
<1>5. ASSUME NEW k \in 0 .. n PROVE e[k] # -1
  <2>1. n - k \in Nat /\ n - k <= n /\ n - (n - k) = k
    BY <1>1
  <2> QED BY <1>4, <2>1 DEF T
<1> QED BY <1>5 DEF e

\* The loop of match finds the one way to cut the text up, if there is one.
LEMMA MatchIsExtraction ==
  ASSUME NEW r, r.trigger \in Trigger, Compiles(r.trigger), NEW text \in Seq(Letter)
  PROVE  Match(r, text) # NoMatch <=> Extractions(r, text) # {}
<1> DEFINE n == Cardinality(Marks(r.trigger))
           s == Compared(r, text)
           e == Ends(r, text)
<1>1. text \in Trigger /\ s \in Trigger /\ Len(s) = Len(text) /\ Len(s) \in Nat
  <2>1. text \in Trigger
    BY ListOfMore DEF Trigger
  <2> QED BY <2>1, FoldProperties DEF Compared, Trigger
<1>2. /\ n \in Nat /\ n >= 1
      /\ \A k \in 0 .. n : Lit(r, k) \in Trigger /\ Len(Lit(r, k)) \in Nat
      /\ \A k \in 1 .. n - 1 : Lit(r, k) # <<>>
  <2>1. /\ n \in Nat /\ n >= 1
        /\ \A k \in 0 .. n : Literal(r.trigger, k) \in Trigger
        /\ \A k \in 1 .. n - 1 : Len(Literal(r.trigger, k)) > 0
    BY MarkFacts, LiteralFacts
  <2>2. \A k \in 0 .. n : Lit(r, k) \in Trigger /\ Len(Lit(r, k)) = Len(Literal(r.trigger, k))
    BY <2>1, FoldProperties DEF Lit, Compared
  <2>3. \A k \in 0 .. n : Len(Lit(r, k)) \in Nat
    BY <2>2 DEF Trigger
  <2>4. \A k \in 1 .. n - 1 : k \in 0 .. n
    BY <2>1
  <2>5. \A k \in 1 .. n - 1 : Lit(r, k) # <<>>
    BY <2>1, <2>2, <2>4 DEF Trigger
  <2> QED BY <2>1, <2>2, <2>3, <2>5
<1>3. /\ e = [k \in 0 .. n |-> e[k]]
      /\ e[0] = IF At(s, 0, Lit(r, 0)) THEN Len(Lit(r, 0)) ELSE -1
      /\ \A k \in 1 .. n : e[k] = NextEnd(r, s, k, e[k - 1])
  BY <1>1, EndsAre
<1>4. Match(r, text) # NoMatch <=> e[n] = Len(text)
  <2>1. CASE e[n] = Len(text)
    <3> DEFINE D == {Number(r.trigger, k) : k \in 1 .. n}
    <3>1. Number(r.trigger, 1) \in D
      BY <1>2
    <3>2. DOMAIN Match(r, text) = D
      BY <2>1 DEF Match
    <3>3. DOMAIN NoMatch = {}
      BY DEF NoMatch
    <3> HIDE DEF D
    <3> QED BY <2>1, <3>1, <3>2, <3>3
  <2>2. CASE e[n] # Len(text)
    BY <2>2 DEF Match
  <2> QED BY <2>1, <2>2
<1>5. Extractions(r, text) =
        {cut \in [0 .. n -> 0 .. Len(text)] :
           /\ At(s, 0, Lit(r, 0)) /\ cut[0] = Len(Lit(r, 0))
           /\ cut[n] = Len(text)
           /\ \A k \in 1 .. n :
                /\ cut[k - 1] < cut[k] - Len(Lit(r, k))
                /\ At(s, cut[k] - Len(Lit(r, k)), Lit(r, k))
                /\ Lit(r, k) # <<>> =>
                     \A p \in cut[k - 1] .. cut[k] - Len(Lit(r, k)) - 1 : ~At(s, p, Lit(r, k))}
  BY DEF Extractions, Lit
<1>6. ASSUME e[n] = Len(text) PROVE e \in Extractions(r, text)
  <2>1. \A k \in 0 .. n : e[k] # -1
    <3>1. e[n] # -1
      BY <1>1, <1>6
    <3> QED BY <1>1, <3>1, EndsReached
  <2> HIDE DEF n, s, e
  <2>2. At(s, 0, Lit(r, 0)) /\ e[0] = Len(Lit(r, 0)) /\ e[0] \in 0 .. Len(s)
    <3>1. 0 \in 0 .. n
      BY <1>2
    <3>2. At(s, 0, Lit(r, 0)) /\ e[0] = Len(Lit(r, 0))
      BY <1>3, <2>1, <3>1
    <3> QED BY <1>1, <1>2, <3>1, <3>2 DEF At
  <2> DEFINE Good(k) ==
        /\ e[k] \in 0 .. Len(s)
        /\ e[k - 1] < e[k] - Len(Lit(r, k))
        /\ At(s, e[k] - Len(Lit(r, k)), Lit(r, k))
        /\ Lit(r, k) # <<>> => \A p \in e[k - 1] .. e[k] - Len(Lit(r, k)) - 1 : ~At(s, p, Lit(r, k))
  <2>3. ASSUME NEW k \in 1 .. n, e[k - 1] \in 0 .. Len(s) PROVE Good(k)
    <3> DEFINE H == Hits(r, s, k, e[k - 1])
               L == Len(Lit(r, k))
    <3>1. k \in 0 .. n /\ k - 1 \in 0 .. n /\ L \in Nat
      BY <1>2
    <3>2. e[k - 1] # -1 /\ e[k] # -1
      BY <2>1, <3>1
    <3>3. H # {} /\ e[k - 1] \notin H /\ e[k] = Min(H) + L
      BY <1>3, <3>2 DEF NextEnd
    <3>4. H \in SUBSET Nat
      BY <1>1, <2>3 DEF Hits
    <3>5. Min(H) \in H /\ \A p \in H : Min(H) <= p
      <4> HIDE DEF H
      <4> QED BY <3>3, <3>4, MinIsLeast
    <3>6. PICK p : p = Min(H) /\ p \in H /\ p \in Nat /\ e[k] = p + L /\ \A q \in H : p <= q
      BY <3>3, <3>4, <3>5
    <3>7. e[k] - L = p
      BY <3>1, <3>6
    <3>8. CASE Lit(r, k) = <<>>
      <4>1. L = 0 /\ H = {Len(s)}
        BY <3>8 DEF Hits
      <4>2. p = Len(s) /\ e[k] = Len(s)
        BY <1>1, <3>6, <4>1
      <4>3. e[k - 1] < p
        BY <1>1, <2>3, <3>3, <4>1, <4>2
      <4>4. At(s, p, <<>>)
        <5>1. SubSeq(s, Len(s) + 1, Len(s) + 0) = <<>>
          BY <1>1 DEF Trigger
        <5> QED BY <1>1, <4>2, <5>1 DEF At
      <4> HIDE DEF L, H
      <4> QED BY <1>1, <3>7, <3>8, <4>2, <4>3, <4>4 DEF L
    <3>9. CASE Lit(r, k) # <<>>
      <4>1. H = {q \in e[k - 1] .. Len(s) : At(s, q, Lit(r, k))}
        BY <3>9 DEF Hits
      <4>2. p \in e[k - 1] .. Len(s) /\ At(s, p, Lit(r, k)) /\ e[k - 1] # p
        BY <3>3, <3>6, <4>1
      <4>3. p + L <= Len(s)
        BY <4>2 DEF At
      <4>4. e[k - 1] < p
        BY <1>1, <2>3, <4>2
      <4>5. ASSUME NEW q \in e[k - 1] .. p - 1 PROVE ~At(s, q, Lit(r, k))
        <5>1. q \in e[k - 1] .. Len(s) /\ ~ (p <= q)
          BY <1>1, <2>3, <3>6, <4>2
        <5> QED BY <3>6, <4>1, <5>1
      <4>6. e[k] \in 0 .. Len(s)
        BY <1>1, <3>1, <3>6, <4>3
      <4> HIDE DEF L, H
      <4> QED BY <3>7, <4>2, <4>4, <4>5, <4>6 DEF L
    <3> QED BY <3>8, <3>9
  <2> HIDE DEF Good
  <2>4. \A k \in 0 .. n : e[k] \in 0 .. Len(s)
    <3> DEFINE T == {k \in Nat : k <= n => e[k] \in 0 .. Len(s)}
    <3>1. 0 \in T
      BY <2>2
    <3>2. ASSUME NEW k \in Nat, k \in T PROVE k + 1 \in T
      <4> SUFFICES ASSUME k + 1 <= n PROVE e[k + 1] \in 0 .. Len(s)
        OBVIOUS
      <4>1. k + 1 \in 1 .. n /\ (k + 1) - 1 = k /\ e[k] \in 0 .. Len(s)
        BY <1>2, <3>2
      <4>2. Good(k + 1)
        BY <2>3, <4>1
      <4> QED BY <4>2 DEF Good
    <3> HIDE DEF T
    <3>3. \A k \in Nat : k \in T
      BY <3>1, <3>2, SetInduction
    <3> QED BY <1>2, <3>3 DEF T
  <2>5. \A k \in 1 .. n : Good(k)
    <3>1. \A k \in 1 .. n : k - 1 \in 0 .. n
      BY <1>2
    <3> QED BY <2>3, <2>4, <3>1
  <2>6. e \in [0 .. n -> 0 .. Len(text)]
    BY <1>1, <1>3, <2>4
  <2> QED BY <1>5, <1>6, <2>2, <2>5, <2>6 DEF Good
<1>7. ASSUME NEW cut \in Extractions(r, text) PROVE e[n] = Len(text)
  <2> HIDE DEF n, s, e
  <2>1. /\ cut \in [0 .. n -> 0 .. Len(text)]
        /\ At(s, 0, Lit(r, 0)) /\ cut[0] = Len(Lit(r, 0))
        /\ cut[n] = Len(text)
    BY <1>5
  <2>2. \A k \in 1 .. n :
          /\ cut[k - 1] < cut[k] - Len(Lit(r, k))
          /\ At(s, cut[k] - Len(Lit(r, k)), Lit(r, k))
          /\ Lit(r, k) # <<>> =>
               \A p \in cut[k - 1] .. cut[k] - Len(Lit(r, k)) - 1 : ~At(s, p, Lit(r, k))
    BY <1>5
  <2> DEFINE T == {k \in Nat : k <= n => e[k] = cut[k]}
  <2>3. 0 \in T
    BY <1>3, <2>1
  <2>4. ASSUME NEW k1 \in Nat, k1 \in T PROVE k1 + 1 \in T
    <3> SUFFICES ASSUME k1 + 1 <= n PROVE e[k1 + 1] = cut[k1 + 1]
      OBVIOUS
    <3>1. PICK k \in 1 .. n : k = k1 + 1 /\ k - 1 = k1
      BY <1>2
    <3>2. e[k - 1] = cut[k - 1]
      BY <1>2, <2>4, <3>1
    <3> DEFINE H == Hits(r, s, k, cut[k - 1])
               L == Len(Lit(r, k))
               p == cut[k] - L
    <3>3. k \in 0 .. n /\ k - 1 \in 0 .. n /\ L \in Nat
      BY <1>2
    <3>4. cut[k - 1] \in 0 .. Len(s) /\ cut[k] \in 0 .. Len(s)
      BY <1>1, <2>1, <3>3
    <3>5. cut[k - 1] < p /\ At(s, p, Lit(r, k))
      BY <2>2
    <3>6. p \in Nat /\ p <= Len(s) /\ p + L = cut[k]
      BY <1>1, <3>3, <3>4, <3>5
    <3>7. H \in SUBSET Nat /\ p \in H /\ (\A q \in H : p <= q) /\ cut[k - 1] \notin H
      <4>1. CASE Lit(r, k) = <<>>
        <5>1. k = n
          BY <1>2, <4>1
        <5>2. L = 0 /\ H = {Len(s)}
          BY <4>1 DEF Hits
        <5>3. p = Len(s)
          BY <1>1, <2>1, <3>6, <5>1, <5>2
        <5> QED BY <1>1, <3>4, <3>5, <5>2, <5>3
      <4>2. CASE Lit(r, k) # <<>>
        <5>1. H = {q \in cut[k - 1] .. Len(s) : At(s, q, Lit(r, k))}
          BY <4>2 DEF Hits
        <5>2. \A q \in cut[k - 1] .. p - 1 : ~At(s, q, Lit(r, k))
          BY <2>2, <4>2
        <5> HIDE DEF H, p, L
        <5>3. \A q \in H : q \in Nat /\ q >= cut[k - 1] /\ q <= Len(s) /\ At(s, q, Lit(r, k))
          BY <1>1, <3>4, <5>1
        <5>4. \A q \in H : p <= q
          BY <3>4, <3>6, <5>2, <5>3
        <5>5. p \in H
          BY <1>1, <3>4, <3>5, <3>6, <5>1
        <5>6. cut[k - 1] \notin H
          BY <3>4, <3>5, <3>6, <5>4
        <5> QED BY <5>3, <5>4, <5>5, <5>6
      <4> QED BY <4>1, <4>2
    <3>8. Min(H) = p
      <4> HIDE DEF H, p
      <4> QED BY <3>7, MinIsUnique
    <3>9. cut[k - 1] # -1 /\ H # {}
      BY <3>4, <3>7
    <3>10. e[k] = NextEnd(r, s, k, cut[k - 1])
      BY <1>3, <3>2
    <3>11. e[k] = Min(H) + L
      BY <3>7, <3>9, <3>10 DEF NextEnd
    <3> HIDE DEF H, L, p
    <3>12. e[k] = cut[k]
      BY <3>6, <3>8, <3>11
    <3> QED BY <3>1, <3>12
  <2> HIDE DEF T
  <2>5. \A k \in Nat : k \in T
    BY <2>3, <2>4, SetInduction
  <2>6. n \in T /\ n <= n
    BY <1>2, <2>5
  <2>7. e[n] = cut[n]
    BY <2>6 DEF T
  <2> QED BY <2>1, <2>7
<1> QED BY <1>4, <1>6, <1>7

\* A template that matches is in the bucket of the text or in none.
LEMMA MatchBegins ==
  ASSUME NEW r, r.trigger \in Trigger, Compiles(r.trigger), NEW text \in Lookable,
         Match(r, text) # NoMatch
  PROVE  LeadingByte(r.trigger) \in {Lower[text[1]], Nothing}
<1> DEFINE t == r.trigger
           s == Compared(r, text)
           n == Cardinality(Marks(t))
<1> SUFFICES ASSUME t[1] \in Letter PROVE Lower[t[1]] = Lower[text[1]]
  BY DEF LeadingByte
<1>1. text \in Trigger /\ Len(text) \in Nat /\ Len(text) >= 1 /\ text[1] \in Letter
  <2>1. text \in Seq(Letter) /\ text # <<>>
    BY DEF Lookable
  <2>2. text \in Trigger
    BY <2>1, ListOfMore DEF Trigger
  <2> QED BY <2>1, <2>2
<1>2. s \in Trigger /\ s[1] = IF r.caseSensitive THEN text[1] ELSE Lower[text[1]]
  <2>1. 1 \in 1 .. Len(text)
    BY <1>1
  <2> QED BY <1>1, <2>1, FoldProperties DEF Compared
<1>3. Ends(r, text)[n] # -1 /\ 0 \in 0 .. n
  <2>1. Ends(r, text)[n] = Len(text)
    BY DEF Match
  <2> QED BY <1>1, <2>1, MarkFacts
<1>4. Ends(r, text)[0] # -1
  <2> HIDE DEF n
  <2> QED BY <1>2, <1>3, EndsReached DEF n
<1>5. At(s, 0, Lit(r, 0))
  BY <1>2, <1>4, EndsAre
<1>6. Literal(t, 0) \in Trigger /\ Len(Literal(t, 0)) > 0 /\ Literal(t, 0)[1] = t[1]
  <2> HIDE DEF n
  <2> QED BY <1>3, LiteralFacts DEF n
<1>7. /\ Lit(r, 0) \in Trigger /\ Len(Lit(r, 0)) \in Nat /\ Len(Lit(r, 0)) >= 1
      /\ Lit(r, 0)[1] = IF r.caseSensitive THEN t[1] ELSE Lower[t[1]]
  <2>1. Len(Literal(t, 0)) \in Nat /\ 1 \in 1 .. Len(Literal(t, 0))
    BY <1>6 DEF Trigger
  <2> HIDE DEF t
  <2> QED BY <1>6, <2>1, FoldProperties DEF Lit, Compared, t
<1>8. s[1] = Lit(r, 0)[1]
  <2> DEFINE L == Len(Lit(r, 0))
  <2>1. L \in Nat /\ L >= 1 /\ L <= Len(s) /\ SubSeq(s, 1, L) = Lit(r, 0)
    BY <1>5, <1>7 DEF At
  <2> HIDE DEF L, s
  <2>2. SubSeq(s, 1, L)[1] = s[1]
    BY <1>2, <2>1, PrefixProperties DEF Trigger
  <2> QED BY <2>1, <2>2
<1> QED BY <1>2, <1>7, <1>8

\* The templates that could be used.
Usable(text, how, c) ==
  {i \in DOMAIN rules : /\ rules[i].capture
                        /\ Eligible(rules[i], how, c)
                        /\ Match(rules[i], text) # NoMatch}

\* Asking the bucket and the rest in turn finds the first of them in the file.
LEMMA FirstUsable ==
  ASSUME StoreInv, NEW text \in Lookable, NEW how, NEW c
  PROVE  FindCapture(text, how, c) =
           IF Usable(text, how, c) = {} THEN NoRule ELSE Min(Usable(text, how, c))
<1> DEFINE key == Lower[text[1]]
           U == Usable(text, how, c)
           S == Templates(rules, key)
           R == Templates(rules, Nothing)
           asked == Merged(buckets[key], fallback)
           taking == {n \in DOMAIN asked : /\ Eligible(rules[asked[n]], how, c)
                                           /\ Match(rules[asked[n]], text) # NoMatch}
<1>1. key \in Letter /\ key # Nothing
  <2>1. text[1] \in Letter
    BY DEF Lookable
  <2> QED BY <2>1, RuleStoreConstants
<1>2. rules \in Seq(KeptRule) /\ DOMAIN rules = 1 .. Len(rules) /\ Len(rules) \in Nat
  BY DEF StoreInv, Checked
<1>3. S \in SUBSET Nat /\ R \in SUBSET Nat /\ S \cap R = {} /\ U \in SUBSET Nat
  BY <1>1, <1>2 DEF Templates, Usable
<1>4. Lists(asked, S \cup R)
  <2>1. Lists(buckets[key], S) /\ Lists(fallback, R)
    BY <1>1 DEF StoreInv, Indexed, IndexedBy
  <2> HIDE DEF S, R, key
  <2> QED BY <1>3, <2>1, MergedLists DEF asked
<1>5. U \subseteq S \cup R
  <2> SUFFICES ASSUME NEW i \in U PROVE i \in S \cup R
    OBVIOUS
  <2>1. /\ i \in DOMAIN rules /\ rules[i].capture /\ Match(rules[i], text) # NoMatch
        /\ rules[i] \in KeptRule
    BY <1>2 DEF Usable
  <2>2. Compiles(rules[i].trigger)
    BY <2>1 DEF StoreInv, Checked, Sound
  <2>3. LeadingByte(rules[i].trigger) \in {key, Nothing}
    BY <2>1, <2>2, KeptFields, MatchBegins
  <2> QED BY <2>1, <2>3 DEF Templates
<1>6. \A i \in S \cup R : i \in DOMAIN rules /\ rules[i].capture
  BY DEF Templates
<1>7. FindCapture(text, how, c) = IF taking = {} THEN NoRule ELSE asked[Min(taking)]
  BY DEF FindCapture
<1>8. /\ \A n \in DOMAIN asked : asked[n] \in S \cup R
      /\ \A x \in S \cup R : \E n \in DOMAIN asked : asked[n] = x
      /\ \A m, n \in DOMAIN asked : m < n => asked[m] < asked[n]
      /\ DOMAIN asked \in SUBSET Nat
  <2> HIDE DEF asked, S, R
  <2> QED BY <1>4 DEF Lists
<1> HIDE DEF asked, S, R, key
<1>9. \A n \in DOMAIN asked : n \in taking <=> asked[n] \in U
  BY <1>6, <1>8 DEF Usable
<1>10. \A i \in U : \E n \in taking : asked[n] = i
  BY <1>5, <1>8, <1>9
<1>11. taking \in SUBSET Nat /\ taking \subseteq DOMAIN asked
  BY <1>8
<1> HIDE DEF U, taking
<1>12. CASE U = {}
  <2>1. taking = {}
    BY <1>9, <1>11, <1>12
  <2> QED BY <1>7, <1>12, <2>1 DEF U
<1>13. CASE U # {}
  <2>1. taking # {}
    BY <1>10, <1>13
  <2>2. Min(taking) \in taking /\ \A n \in taking : Min(taking) <= n
    BY <1>11, <2>1, MinIsLeast
  <2>3. PICK k : k = Min(taking) /\ k \in taking /\ k \in Nat /\ asked[k] \in U /\ asked[k] \in Nat
    BY <1>3, <1>9, <1>11, <2>2
  <2>4. \A i \in U : asked[k] <= i
    <3> TAKE i \in U
    <3>1. PICK n \in taking : asked[n] = i
      BY <1>10
    <3>2. n \in Nat /\ k <= n /\ i \in Nat
      BY <1>3, <1>11, <2>2, <2>3
    <3>3. k = n \/ asked[k] < asked[n]
      BY <1>8, <1>11, <2>3, <3>2
    <3> QED BY <2>3, <3>1, <3>2, <3>3
  <2>5. Min(U) = asked[k]
    BY <1>3, <2>3, <2>4, MinIsUnique
  <2> QED BY <1>7, <1>13, <2>1, <2>3, <2>5 DEF U
<1> QED BY <1>12, <1>13

\* Of the templates by which a text can be cut up, the first in the file is used,
\* although they are kept in buckets and asked in turns.  (findCaptureTemplate and
\* CapturePattern::match.)
THEOREM FirstTemplateIsUsed == Spec => []CaptureIsFirst
<1>1. StoreInv => CaptureIsFirst
  <2> SUFFICES ASSUME StoreInv, NEW q \in Queries
               PROVE  LET all == {i \in DOMAIN rules :
                                    /\ rules[i].capture
                                    /\ Eligible(rules[i], q[2], q[3])
                                    /\ Extractions(rules[i], q[1]) # {}}
                      IN FindCapture(q[1], q[2], q[3]) = IF all = {} THEN NoRule ELSE Min(all)
    BY DEF CaptureIsFirst, ForQueries
  <2> DEFINE all == {i \in DOMAIN rules : /\ rules[i].capture
                                          /\ Eligible(rules[i], q[2], q[3])
                                          /\ Extractions(rules[i], q[1]) # {}}
  <2>1. q[1] \in Lookable
    BY RuleStoreConstants DEF Queries, Lookable
  <2>2. ASSUME NEW i \in DOMAIN rules, rules[i].capture
        PROVE  Match(rules[i], q[1]) # NoMatch <=> Extractions(rules[i], q[1]) # {}
    <3>1. rules[i] \in KeptRule /\ Compiles(rules[i].trigger)
      BY <2>2 DEF StoreInv, Checked, Sound
    <3>2. rules[i].trigger \in Trigger
      BY <3>1, KeptFields
    <3> QED BY <2>1, <3>1, <3>2, MatchIsExtraction DEF Lookable
  <2>3. all = Usable(q[1], q[2], q[3])
    BY <2>2 DEF Usable
  <2> HIDE DEF all
  <2>4. FindCapture(q[1], q[2], q[3]) = IF all = {} THEN NoRule ELSE Min(all)
    BY <2>1, <2>3, FirstUsable
  <2> QED BY <2>4 DEF all
<1> QED BY <1>1, StoreInvariant, PTL

(***************************************************************************)
(* The rule tester.                                                        *)
(***************************************************************************)
\* A rule that is not eligible has something against it.
LEMMA BlockersSay ==
  ASSUME NEW r, NEW how, NEW c
  PROVE  Blockers(r, how, c) = {} <=> Eligible(r, how, c)
BY DEF Blockers, Eligible, FiltersMatch

LEMMA DiagnosisIsLookup ==
  ASSUME StoreInv, NEW text \in Lookable, NEW how, NEW c
  PROVE  LET d == Diagnose(text, how, c)
         IN /\ d.matched = Lookup(text, how, c)
            /\ d.matched # NoRule <=> d.eligible > 0
            /\ d.blockers = {} <=> d.matched # NoRule
<1> DEFINE literal == FindIndexed(text, how, c)
           chosen == IF literal # NoRule THEN literal ELSE FindCapture(text, how, c)
           U == Usable(text, how, c)
           L == SearchFinds(text, how, c)
           matching == {i \in DOMAIN rules : TriggerMatches(rules[i], text)}
           blocked == {i \in matching : ~Eligible(rules[i], how, c)}
           first == {i \in blocked : \A j \in blocked : i <= j}
           reasons == IF matching = {} THEN {"trigger"}
                      ELSE UNION {Blockers(rules[i], how, c) : i \in {j \in first : chosen = NoRule}}
<1>1. Diagnose(text, how, c) =
        [matched |-> chosen, eligible |-> Cardinality(matching \ blocked), blockers |-> reasons]
  BY DEF Diagnose
<1>2. rules \in Seq(KeptRule) /\ DOMAIN rules = 1 .. Len(rules) /\ Len(rules) \in Nat /\ 0 \notin DOMAIN rules
  BY DEF StoreInv, Checked
<1>3. L = {literal} \ {NoRule}
  BY IndexedIsSearch
<1>4. FindCapture(text, how, c) = IF U = {} THEN NoRule ELSE Min(U)
  BY FirstUsable
<1>5. U # {} => Min(U) \in U /\ Min(U) # NoRule
  <2>1. U \in SUBSET Nat /\ 0 \notin U
    BY <1>2 DEF Usable
  <2> HIDE DEF U
  <2> QED BY <2>1, MinIsLeast DEF NoRule
<1>6. matching \ blocked = L \cup U
  <2>1. \A i \in DOMAIN rules : rules[i].capture \in BOOLEAN
    BY <1>2, KeptFields
  <2> QED BY <2>1 DEF TriggerMatches, SearchFinds, Usable
<1>7. chosen # NoRule <=> L \cup U # {}
  <2> HIDE DEF L, U, literal
  <2> QED BY <1>3, <1>4, <1>5 DEF chosen
<1>8. chosen = Lookup(text, how, c)
  <2>1. ASSUME how = Immediate PROVE U = {}
    <3>1. \A i \in DOMAIN rules : rules[i].capture => Immediate \notin rules[i].activation
      BY DEF StoreInv, Checked, Sound
    <3> QED BY <2>1, <3>1, RuleStoreConstants DEF Usable, Eligible, ActivationMatches
  <2>2. Lookup(text, how, c) = IF literal # NoRule \/ how = Immediate THEN literal ELSE FindCapture(text, how, c)
    BY DEF Lookup
  <2> HIDE DEF U, literal
  <2> QED BY <1>4, <2>1, <2>2
<1>9. IsFiniteSet(matching \ blocked) /\ Cardinality(matching \ blocked) \in Nat
  <2>1. IsFiniteSet(1 .. Len(rules)) /\ matching \ blocked \in SUBSET (1 .. Len(rules))
    BY <1>2, FS_Interval
  <2> HIDE DEF matching, blocked
  <2> QED BY <2>1, FS_Subset, FS_CardinalityType
<1>10. Cardinality(matching \ blocked) > 0 <=> matching \ blocked # {}
  <2> HIDE DEF matching, blocked
  <2> QED BY <1>9, FS_EmptySet
<1>11. reasons = {} <=> chosen # NoRule
  <2>1. ASSUME chosen # NoRule PROVE reasons = {}
    <3>1. matching # {}
      BY <1>6, <1>7, <2>1
    <3> HIDE DEF matching, first, chosen
    <3> QED BY <2>1, <3>1
  <2>2. ASSUME chosen = NoRule, matching # {} PROVE reasons # {}
    <3>1. blocked # {} /\ blocked \in SUBSET Nat
      BY <1>2, <1>6, <1>7, <2>2
    <3>2. PICK i \in blocked : \A j \in blocked : i <= j
      <4> HIDE DEF blocked
      <4> QED BY <3>1, LeastExists
    <3>3. i \in first /\ Blockers(rules[i], how, c) # {}
      BY <3>2, BlockersSay
    <3> HIDE DEF first, matching, chosen
    <3> QED BY <2>2, <3>3
  <2> HIDE DEF first, matching, chosen
  <2> QED BY <2>1, <2>2
<1> HIDE DEF chosen, matching, blocked, reasons, L, U
<1> QED BY <1>1, <1>6, <1>7, <1>8, <1>10, <1>11

\* What the rule tester shows is what the plugin does, and it gives a reason
\* exactly if nothing is found.  (diagnose against find, findManual and
\* findCaptureTemplate.)
THEOREM TesterAgrees == Spec => []DiagnosisAgrees
<1>1. StoreInv => DiagnosisAgrees
  <2> SUFFICES ASSUME StoreInv, NEW q \in Queries
               PROVE  LET d == Diagnose(q[1], q[2], q[3])
                      IN /\ d.matched = Lookup(q[1], q[2], q[3])
                         /\ d.matched # NoRule <=> d.eligible > 0
                         /\ d.blockers = {} <=> d.matched # NoRule
    BY DEF DiagnosisAgrees, ForQueries
  <2>1. q[1] \in Lookable
    BY RuleStoreConstants DEF Queries, Lookable
  <2> QED BY <2>1, DiagnosisIsLookup
<1> QED BY <1>1, StoreInvariant, PTL

(***************************************************************************)
(* Globs.                                                                  *)
(***************************************************************************)
\* How the k-th character of a glob takes a text from v to w.
Takes(g, s, k, v, w) == v <= w /\ (g[k] # Star => w = v + 1 /\ g[k] \in {One, s[w]})

\* The rest of the glob after p characters matches the rest of the text after v.
Path(g, s, p, v, cut) ==
  /\ cut \in [p .. Len(g) -> 0 .. Len(s)]
  /\ cut[p] = v /\ cut[Len(g)] = Len(s)
  /\ \A k \in p + 1 .. Len(g) : Takes(g, s, k, cut[k - 1], cut[k])

Rest(g, s, p, v) == \E cut : Path(g, s, p, v, cut)

LEMMA RestOfAll ==
  ASSUME NEW g \in Glob, NEW s \in Seq(Letter)
  PROVE  Cuts(g, s) # {} <=> Rest(g, s, 0, 0)
<1>1. Len(g) \in Nat /\ Len(s) \in Nat /\ 0 + 1 = 1
  BY DEF Glob
<1>2. ASSUME NEW cut PROVE cut \in Cuts(g, s) <=> Path(g, s, 0, 0, cut)
  BY <1>1 DEF Cuts, Path, Takes
<1> QED BY <1>2 DEF Rest

LEMMA RestAtEnd ==
  ASSUME NEW g \in Glob, NEW s \in Seq(Letter), NEW v \in 0 .. Len(s)
  PROVE  Rest(g, s, Len(g), v) <=> v = Len(s)
<1>1. Len(g) \in Nat /\ Len(s) \in Nat
  BY DEF Glob
<1>2. ASSUME v = Len(s) PROVE Rest(g, s, Len(g), v)
  <2> DEFINE cut == [k \in Len(g) .. Len(g) |-> v]
  <2>1. cut \in [Len(g) .. Len(g) -> 0 .. Len(s)] /\ cut[Len(g)] = v
    BY <1>1
  <2>2. Len(g) + 1 .. Len(g) = {}
    BY <1>1
  <2> HIDE DEF cut
  <2>3. Path(g, s, Len(g), v, cut)
    BY <1>2, <2>1, <2>2 DEF Path
  <2> QED BY <2>3 DEF Rest
<1>3. ASSUME Rest(g, s, Len(g), v) PROVE v = Len(s)
  BY <1>3 DEF Rest, Path
<1> QED BY <1>2, <1>3

\* One character of the glob after the other.
LEMMA RestOneMore ==
  ASSUME NEW g \in Glob, NEW s \in Seq(Letter), NEW p \in 0 .. Len(g) - 1, NEW v \in 0 .. Len(s)
  PROVE  Rest(g, s, p, v) <=> \E w \in 0 .. Len(s) : Takes(g, s, p + 1, v, w) /\ Rest(g, s, p + 1, w)
<1>1. Len(g) \in Nat /\ Len(s) \in Nat /\ p + 1 \in 1 .. Len(g) /\ p \in Nat
  BY DEF Glob
<1>2. ASSUME NEW cut, Path(g, s, p, v, cut)
      PROVE  \E w \in 0 .. Len(s) : Takes(g, s, p + 1, v, w) /\ Rest(g, s, p + 1, w)
  <2> DEFINE w == cut[p + 1]
             rest == [k \in p + 1 .. Len(g) |-> cut[k]]
  <2>1. cut \in [p .. Len(g) -> 0 .. Len(s)] /\ cut[p] = v /\ cut[Len(g)] = Len(s)
        /\ \A k \in p + 1 .. Len(g) : Takes(g, s, k, cut[k - 1], cut[k])
    BY <1>2 DEF Path
  <2>2. (p + 1) - 1 = p /\ p + 1 \in p + 1 .. Len(g) /\ p + 1 \in p .. Len(g)
    BY <1>1
  <2>3. w \in 0 .. Len(s) /\ Takes(g, s, p + 1, v, w)
    BY <2>1, <2>2
  <2>4. rest \in [p + 1 .. Len(g) -> 0 .. Len(s)] /\ \A k \in p + 1 .. Len(g) : rest[k] = cut[k]
    BY <1>1, <2>1
  <2>5. rest[p + 1] = w /\ rest[Len(g)] = Len(s)
    BY <1>1, <2>1, <2>4
  <2>6. ASSUME NEW k \in p + 1 + 1 .. Len(g) PROVE Takes(g, s, k, rest[k - 1], rest[k])
    <3>1. k - 1 \in p + 1 .. Len(g) /\ k \in p + 1 .. Len(g)
      BY <1>1
    <3> QED BY <2>1, <2>4, <3>1
  <2> HIDE DEF w, rest
  <2>7. Path(g, s, p + 1, w, rest)
    BY <2>4, <2>5, <2>6 DEF Path
  <2> QED BY <2>3, <2>7 DEF Rest
<1>3. ASSUME NEW w \in 0 .. Len(s), Takes(g, s, p + 1, v, w), NEW rest, Path(g, s, p + 1, w, rest)
      PROVE  Rest(g, s, p, v)
  <2> DEFINE cut == [k \in p .. Len(g) |-> IF k = p THEN v ELSE rest[k]]
  <2>1. rest \in [p + 1 .. Len(g) -> 0 .. Len(s)] /\ rest[p + 1] = w /\ rest[Len(g)] = Len(s)
        /\ \A k \in p + 1 + 1 .. Len(g) : Takes(g, s, k, rest[k - 1], rest[k])
    BY <1>3 DEF Path
  <2>2. \A k \in p .. Len(g) : k # p => k \in p + 1 .. Len(g)
    BY <1>1
  <2>3. cut \in [p .. Len(g) -> 0 .. Len(s)] /\ cut[p] = v
    BY <1>1, <2>1, <2>2
  <2>4. \A k \in p + 1 .. Len(g) : cut[k] = rest[k]
    BY <1>1
  <2> HIDE DEF cut
  <2>5. cut[Len(g)] = Len(s) /\ cut[p + 1] = w
    BY <1>1, <2>1, <2>4
  <2>6. ASSUME NEW k \in p + 1 .. Len(g) PROVE Takes(g, s, k, cut[k - 1], cut[k])
    <3>1. CASE k = p + 1
      <4>1. k - 1 = p
        BY <1>1, <3>1
      <4> QED BY <1>3, <2>3, <2>5, <3>1, <4>1
    <3>2. CASE k # p + 1
      <4>1. k \in p + 1 + 1 .. Len(g) /\ k - 1 \in p + 1 .. Len(g)
        BY <1>1, <3>2
      <4> QED BY <2>1, <2>4, <4>1
    <3> QED BY <3>1, <3>2
  <2>7. Path(g, s, p, v, cut)
    BY <2>3, <2>5, <2>6 DEF Path
  <2> QED BY <2>7 DEF Rest
<1> QED BY <1>2, <1>3 DEF Rest

\* A star takes any text, another character one.
LEMMA RestAfterStar ==
  ASSUME NEW g \in Glob, NEW s \in Seq(Letter), NEW p \in 0 .. Len(g) - 1, NEW v \in 0 .. Len(s),
         g[p + 1] = Star
  PROVE  Rest(g, s, p, v) <=> \E w \in v .. Len(s) : Rest(g, s, p + 1, w)
<1>1. Len(s) \in Nat
  OBVIOUS
<1>2. \A w \in 0 .. Len(s) : Takes(g, s, p + 1, v, w) <=> v <= w
  BY DEF Takes
<1>3. \A w : w \in v .. Len(s) <=> w \in 0 .. Len(s) /\ v <= w
  BY <1>1
<1> QED BY <1>2, <1>3, RestOneMore

LEMMA RestAfterLetter ==
  ASSUME NEW g \in Glob, NEW s \in Seq(Letter), NEW p \in 0 .. Len(g) - 1, NEW v \in 0 .. Len(s),
         g[p + 1] # Star
  PROVE  Rest(g, s, p, v) <=> v < Len(s) /\ g[p + 1] \in {One, s[v + 1]} /\ Rest(g, s, p + 1, v + 1)
<1>1. Len(s) \in Nat
  OBVIOUS
<1>2. \A w \in 0 .. Len(s) : Takes(g, s, p + 1, v, w) <=> w = v + 1 /\ g[p + 1] \in {One, s[v + 1]}
  BY DEF Takes
<1>3. v + 1 \in 0 .. Len(s) <=> v < Len(s)
  BY <1>1
<1> QED BY <1>2, <1>3, RestOneMore

\* Without stars, as many characters of the glob as of the text are taken.
LEMMA RestWithoutStars ==
  ASSUME NEW g \in Glob, NEW s \in Seq(Letter), NEW q \in 0 .. Len(g), NEW n \in 0 .. Len(g) - q,
         \A i \in q + 1 .. q + n : g[i] # Star,
         NEW w \in 0 .. Len(s), Rest(g, s, q, w)
  PROVE  w + n <= Len(s) /\ Rest(g, s, q + n, w + n)
<1>1. Len(g) \in Nat /\ Len(s) \in Nat
  BY DEF Glob
<1> DEFINE T == {m \in 0 .. n : w + m <= Len(s) /\ Rest(g, s, q + m, w + m)}
<1>2. n \in Nat
  BY <1>1
<1>3. 0 \in T
  <2>1. q + 0 = q /\ w + 0 = w /\ 0 \in 0 .. n
    BY <1>1
  <2> QED BY <2>1
<1>4. ASSUME NEW m \in 1 .. n, m - 1 \in T PROVE m \in T
  <2> DEFINE p == q + (m - 1)
             v == w + (m - 1)
  <2>1. p \in 0 .. Len(g) - 1 /\ p + 1 = q + m /\ v + 1 = w + m /\ p + 1 \in q + 1 .. q + n
    BY <1>1
  <2>2. v \in 0 .. Len(s) /\ Rest(g, s, p, v)
    BY <1>1, <1>4
  <2>3. g[p + 1] # Star
    BY <2>1
  <2> HIDE DEF p, v
  <2>4. v < Len(s) /\ Rest(g, s, p + 1, v + 1)
    BY <2>1, <2>2, <2>3, RestAfterLetter
  <2>5. w + m <= Len(s) /\ Rest(g, s, q + m, w + m)
    BY <1>1, <2>1, <2>2, <2>4
  <2> QED BY <2>5
<1> HIDE DEF T
<1>5. \A m \in 0 .. n : m \in T
  BY <1>2, <1>3, <1>4, IntervalInduction
<1>6. n \in T
  BY <1>2, <1>5
<1> QED BY <1>6 DEF T

\* At the end of the text only stars may be left.
LEMMA RestOfNothing ==
  ASSUME NEW g \in Glob, NEW s \in Seq(Letter), NEW p \in 0 .. Len(g)
  PROVE  Rest(g, s, p, Len(s)) <=> \A i \in p + 1 .. Len(g) : g[i] = Star
<1>1. Len(g) \in Nat /\ Len(s) \in Nat
  BY DEF Glob
<1> DEFINE T == {n \in 0 .. Len(g) : Rest(g, s, Len(g) - n, Len(s))
                                     <=> \A i \in Len(g) - n + 1 .. Len(g) : g[i] = Star}
<1>2. 0 \in T
  <2>1. Len(g) - 0 = Len(g) /\ Len(g) - 0 + 1 .. Len(g) = {} /\ Len(s) \in 0 .. Len(s)
    BY <1>1
  <2> QED BY <1>1, <2>1, RestAtEnd
<1>3. ASSUME NEW n \in 1 .. Len(g), n - 1 \in T PROVE n \in T
  <2> DEFINE q == Len(g) - n
  <2>1. q \in 0 .. Len(g) - 1 /\ Len(g) - (n - 1) = q + 1 /\ Len(s) \in 0 .. Len(s) /\ n \in 0 .. Len(g)
    BY <1>1
  <2>2. Rest(g, s, q + 1, Len(s)) <=> \A i \in q + 1 + 1 .. Len(g) : g[i] = Star
    BY <1>3, <2>1
  <2>3. \A i : i \in q + 1 .. Len(g) <=> i = q + 1 \/ i \in q + 1 + 1 .. Len(g)
    BY <2>1, <1>1
  <2> HIDE DEF q
  <2>4. CASE g[q + 1] = Star
    <3>1. \A w \in Len(s) .. Len(s) : w = Len(s)
      BY <1>1
    <3>2. Len(s) \in Len(s) .. Len(s)
      BY <1>1
    <3>3. Rest(g, s, q, Len(s)) <=> Rest(g, s, q + 1, Len(s))
      BY <2>1, <2>4, <3>1, <3>2, RestAfterStar
    <3>4. Rest(g, s, q, Len(s)) <=> \A i \in q + 1 .. Len(g) : g[i] = Star
      BY <2>2, <2>3, <2>4, <3>3
    <3> QED BY <2>1, <3>4 DEF q
  <2>5. CASE g[q + 1] # Star
    <3>1. ~Rest(g, s, q, Len(s))
      <4>1. ~(Len(s) < Len(s))
        BY <1>1
      <4> QED BY <2>1, <2>5, <4>1, RestAfterLetter
    <3>2. ~ \A i \in q + 1 .. Len(g) : g[i] = Star
      BY <2>3, <2>5
    <3> QED BY <2>1, <3>1, <3>2 DEF q
  <2> QED BY <2>4, <2>5
<1> HIDE DEF T
<1>4. \A n \in 0 .. Len(g) : n \in T
  BY <1>1, <1>2, <1>3, IntervalInduction
<1>5. Len(g) - p \in 0 .. Len(g) /\ Len(g) - (Len(g) - p) = p
  BY <1>1
<1>6. Len(g) - p \in T
  BY <1>4, <1>5
<1> QED BY <1>5, <1>6 DEF T

\* The loop of globMatches.
Turns(g, s) ==
  {z \in (0 .. Len(g)) \X (0 .. Len(s)) \X (-1 .. Len(g)) \X (0 .. Len(s)) : z[3] < z[1] /\ z[4] <= z[2]}

TakesNext(g, s, z) == z[1] < Len(g) /\ g[z[1] + 1] \in {One, s[z[2] + 1]}
StarNext(g, z) == z[1] < Len(g) /\ g[z[1] + 1] = Star

NextTurn(g, s, z) ==
  IF TakesNext(g, s, z) THEN <<z[1] + 1, z[2] + 1, z[3], z[4]>>
  ELSE IF StarNext(g, z) THEN <<z[1] + 1, z[2], z[1], z[2]>>
  ELSE <<z[3] + 1, z[4] + 1, z[3], z[4] + 1>>

Stopped(g, s, z) == z[2] = Len(s) \/ (~TakesNext(g, s, z) /\ ~StarNext(g, z) /\ z[3] = -1)

Outcome(g, s, z) == z[2] = Len(s) /\ \A i \in z[1] + 1 .. Len(g) : g[i] = Star

\* f has for every turn whether the loop ends with a match.
GlobLoop(f, g, s) ==
  IsLoop(f, Turns(g, s), BOOLEAN, {z \in Turns(g, s) : Stopped(g, s, z)},
         [z \in Turns(g, s) |-> Outcome(g, s, z)], [z \in Turns(g, s) |-> NextTurn(g, s, z)])

\* Every turn either takes a character of the glob or moves the star's text on.
TurnsLeft(g, s, z) == (Len(s) - z[4]) * (Len(g) + 1) + (Len(g) - z[1])

LEMMA TurnFields ==
  ASSUME NEW g \in Glob, NEW s \in Seq(Letter), NEW z \in Turns(g, s)
  PROVE  /\ z = <<z[1], z[2], z[3], z[4]>>
         /\ z[1] \in 0 .. Len(g) /\ z[2] \in 0 .. Len(s) /\ z[3] \in -1 .. Len(g) /\ z[4] \in 0 .. Len(s)
         /\ z[3] < z[1] /\ z[4] <= z[2]
BY DEF Turns

LEMMA TurnMade ==
  ASSUME NEW g \in Glob, NEW s \in Seq(Letter),
         NEW p \in 0 .. Len(g), NEW v \in 0 .. Len(s), NEW star \in -1 .. Len(g), NEW retry \in 0 .. Len(s),
         star < p, retry <= v
  PROVE  <<p, v, star, retry>> \in Turns(g, s)
BY DEF Turns

LEMMA TurnsGoOn ==
  ASSUME NEW g \in Glob, NEW s \in Seq(Letter), NEW z \in Turns(g, s), ~Stopped(g, s, z)
  PROVE  /\ NextTurn(g, s, z) \in Turns(g, s)
         /\ TurnsLeft(g, s, NextTurn(g, s, z)) < TurnsLeft(g, s, z)
<1> DEFINE p == z[1]
           v == z[2]
           star == z[3]
           retry == z[4]
           P == Len(g)
           V == Len(s)
           next == NextTurn(g, s, z)
<1>1. /\ P \in Nat /\ V \in Nat
      /\ p \in 0 .. P /\ v \in 0 .. V /\ star \in -1 .. P /\ retry \in 0 .. V
      /\ star < p /\ retry <= v /\ v < V
  BY TurnFields DEF Stopped, Glob
<1>2. CASE TakesNext(g, s, z)
  <2>1. next = <<p + 1, v + 1, star, retry>>
    BY <1>2 DEF NextTurn
  <2>2. p + 1 \in 0 .. P /\ v + 1 \in 0 .. V /\ star < p + 1 /\ retry <= v + 1
    BY <1>1, <1>2 DEF TakesNext
  <2>3. next \in Turns(g, s)
    BY <1>1, <2>1, <2>2, TurnMade
  <2>4. TurnsLeft(g, s, next) = (V - retry) * (P + 1) + (P - (p + 1))
    BY <2>1 DEF TurnsLeft
  <2>5. (V - retry) * (P + 1) \in Nat
    BY <1>1, ProductGrows
  <2>6. (V - retry) * (P + 1) + (P - (p + 1)) < (V - retry) * (P + 1) + (P - p)
    BY <1>1, <2>5
  <2> QED BY <2>3, <2>4, <2>6 DEF TurnsLeft
<1>3. CASE ~TakesNext(g, s, z) /\ StarNext(g, z)
  <2>1. next = <<p + 1, v, p, v>>
    BY <1>3 DEF NextTurn
  <2>2. p + 1 \in 0 .. P /\ p \in -1 .. P /\ p < p + 1 /\ v <= v
    BY <1>1, <1>3 DEF StarNext
  <2>3. next \in Turns(g, s)
    BY <1>1, <2>1, <2>2, TurnMade
  <2>4. TurnsLeft(g, s, next) = (V - v) * (P + 1) + (P - (p + 1))
    BY <2>1 DEF TurnsLeft
  <2>5. (V - v) * (P + 1) \in Nat /\ (V - retry) * (P + 1) \in Nat /\ (V - v) * (P + 1) <= (V - retry) * (P + 1)
    <3>1. V - v \in Nat /\ V - retry \in Nat /\ P + 1 \in Nat /\ V - v <= V - retry
      BY <1>1
    <3> QED BY <3>1, ProductGrows
  <2>6. (V - v) * (P + 1) + (P - (p + 1)) < (V - retry) * (P + 1) + (P - p)
    BY <1>1, <2>5
  <2> QED BY <2>3, <2>4, <2>6 DEF TurnsLeft
<1>4. CASE ~TakesNext(g, s, z) /\ ~StarNext(g, z)
  <2>1. next = <<star + 1, retry + 1, star, retry + 1>> /\ star # -1
    BY <1>4 DEF NextTurn, Stopped
  <2>2. star + 1 \in 0 .. P /\ retry + 1 \in 0 .. V /\ star < star + 1 /\ retry + 1 <= retry + 1
    BY <1>1
  <2>3. next \in Turns(g, s)
    BY <1>1, <2>1, <2>2, TurnMade
  <2>4. TurnsLeft(g, s, next) = (V - (retry + 1)) * (P + 1) + (P - (star + 1))
    BY <2>1 DEF TurnsLeft
  <2>5. (V - retry) * (P + 1) = (V - (retry + 1)) * (P + 1) + (P + 1)
    BY <1>1
  <2>6. (V - (retry + 1)) * (P + 1) \in Nat
    <3>1. V - (retry + 1) \in Nat /\ P + 1 \in Nat
      BY <1>1
    <3> QED BY <3>1, ProductGrows
  <2>7. star \in Nat /\ P - (star + 1) < P + 1 /\ P - p >= 0
    BY <1>1, <2>1
  <2>8. TurnsLeft(g, s, next) < TurnsLeft(g, s, z)
    <3>1. TurnsLeft(g, s, z) = (V - retry) * (P + 1) + (P - p)
      BY DEF TurnsLeft
    <3> DEFINE m == (V - (retry + 1)) * (P + 1)
               k == (V - retry) * (P + 1)
    <3>2. m \in Nat /\ k = m + (P + 1)
      BY <2>5, <2>6
    <3> HIDE DEF m, k
    <3>3. m + (P - (star + 1)) < k + (P - p)
      BY <1>1, <2>7, <3>2
    <3> QED BY <2>4, <3>1, <3>3 DEF m, k
  <2> QED BY <2>3, <2>8
<1> QED BY <1>2, <1>3, <1>4

LEMMA TurnsAreLeft ==
  ASSUME NEW g \in Glob, NEW s \in Seq(Letter), NEW z \in Turns(g, s)
  PROVE  TurnsLeft(g, s, z) \in Nat /\ TurnsLeft(g, s, z) <= Len(s) * (Len(g) + 1) + Len(g)
<1> DEFINE m == (Len(s) - z[4]) * (Len(g) + 1)
           k == Len(s) * (Len(g) + 1)
           d == Len(g) - z[1]
<1>1. Len(g) \in Nat /\ Len(s) \in Nat /\ z[4] \in 0 .. Len(s) /\ z[1] \in 0 .. Len(g)
  BY TurnFields DEF Glob
<1>2. m \in Nat /\ k \in Nat /\ m <= k
  <2>1. Len(s) - z[4] \in Nat /\ Len(g) + 1 \in Nat /\ Len(s) - z[4] <= Len(s)
    BY <1>1
  <2> QED BY <1>1, <2>1, ProductGrows
<1>3. d \in 0 .. Len(g)
  BY <1>1
<1> HIDE DEF m, k, d
<1>4. m + d \in Nat /\ m + d <= k + Len(g)
  BY <1>1, <1>2, <1>3
<1> QED BY <1>4 DEF m, k, d, TurnsLeft

LEMMA GlobLoopExists ==
  ASSUME NEW g \in Glob, NEW s \in Seq(Letter)
  PROVE  \E f : GlobLoop(f, g, s) /\ GlobMatches(g, s) = f[<<0, 0, -1, 0>>]
<1> DEFINE D == Turns(g, s)
           K == Len(s) * (Len(g) + 1) + Len(g)
           stop == {z \in D : Stopped(g, s, z)}
           result == [z \in D |-> Outcome(g, s, z)]
           next == [z \in D |-> NextTurn(g, s, z)]
           rank == [z \in D |-> TurnsLeft(g, s, z)]
           Body(f) == [z \in D |->
             IF z[2] = Len(s) THEN \A i \in z[1] + 1 .. Len(g) : g[i] = Star
             ELSE IF TakesNext(g, s, z) THEN f[<<z[1] + 1, z[2] + 1, z[3], z[4]>>]
             ELSE IF StarNext(g, z) THEN f[<<z[1] + 1, z[2], z[1], z[2]>>]
             ELSE z[3] # -1 /\ f[<<z[3] + 1, z[4] + 1, z[3], z[4] + 1>>]]
           loop == CHOOSE f : f = Body(f)
<1>1. Len(g) \in Nat /\ Len(s) \in Nat
  BY DEF Glob
<1>2. K \in Nat
  <2>1. Len(s) * (Len(g) + 1) \in Nat
    BY <1>1, ProductGrows
  <2> QED BY <1>1, <2>1
<1>3. \A z \in D : TurnsLeft(g, s, z) \in 0 .. K
  <2> SUFFICES ASSUME NEW z \in D PROVE TurnsLeft(g, s, z) \in 0 .. K
    OBVIOUS
  <2>1. TurnsLeft(g, s, z) \in Nat /\ TurnsLeft(g, s, z) <= K
    BY TurnsAreLeft
  <2> HIDE DEF K
  <2> QED BY <1>2, <2>1
<1>4. result \in [D -> BOOLEAN]
  BY DEF Outcome
<1>5. rank \in [D -> 0 .. K]
  BY <1>3
<1>6. \A z \in D \ stop : next[z] \in D /\ rank[next[z]] < rank[z]
  BY TurnsGoOn
<1>7. PICK f : GlobLoop(f, g, s)
  <2> HIDE DEF D, K, stop, result, next, rank
  <2>1. \E f : IsLoop(f, D, BOOLEAN, stop, result, next)
    BY <1>2, <1>4, <1>5, <1>6, LoopExists
  <2> QED BY <2>1 DEF GlobLoop, D, stop, result, next
<1>8. f \in [D -> BOOLEAN] /\ \A z \in D : f[z] = IF Stopped(g, s, z) THEN Outcome(g, s, z) ELSE f[NextTurn(g, s, z)]
  BY <1>7 DEF GlobLoop, IsLoop
<1>9. \A z \in D : f[z] = Body(f)[z]
  <2> SUFFICES ASSUME NEW z \in D PROVE f[z] = Body(f)[z]
    OBVIOUS
  <2>1. ~Stopped(g, s, z) => f[NextTurn(g, s, z)] \in BOOLEAN
    BY <1>8, TurnsGoOn
  <2>2. f[z] = IF Stopped(g, s, z) THEN Outcome(g, s, z) ELSE f[NextTurn(g, s, z)]
    BY <1>8
  <2> HIDE DEF D
  <2> QED BY <2>1, <2>2 DEF Stopped, Outcome, NextTurn
<1>10. f = Body(f)
  <2> HIDE DEF D
  <2> QED BY <1>8, <1>9
<1>11. loop = Body(loop)
  <2> HIDE DEF Body
  <2> QED BY <1>10
<1>12. GlobMatches(g, s) = loop[<<0, 0, -1, 0>>]
  BY DEF GlobMatches, Turns, TakesNext, StarNext
<1>13. \A z \in D : loop[z] = f[z]
  <2> DEFINE Wrong == {z \in D : loop[z] # f[z]}
             R == {rank[z] : z \in Wrong}
  <2> SUFFICES ASSUME Wrong # {} PROVE FALSE
    OBVIOUS
  <2>1. R \in SUBSET Nat /\ R # {}
    <3>1. \A z \in D : rank[z] \in 0 .. K
      BY <1>5
    <3>2. \A r \in 0 .. K : r \in Nat
      BY <1>2
    <3> HIDE DEF D, K, loop, rank
    <3> QED BY <3>1, <3>2
  <2>2. PICK r \in R : \A q \in R : r <= q
    BY <2>1, LeastExists
  <2>3. PICK z \in Wrong : r = rank[z]
    BY <2>2
  <2>4. z \in D /\ loop[z] # f[z]
    BY <2>3
  <2>5. \A y \in Wrong : rank[z] <= rank[y]
    BY <2>2, <2>3
  <2>6. loop[z] = Body(loop)[z] /\ f[z] = Body(f)[z]
    <3> HIDE DEF Body, loop
    <3> QED BY <1>10, <1>11
  <2>7. ASSUME ~Stopped(g, s, z) PROVE loop[NextTurn(g, s, z)] = f[NextTurn(g, s, z)]
    <3> DEFINE y == NextTurn(g, s, z)
    <3>1. y \in D /\ next[z] = y /\ z \notin stop
      BY <2>4, <2>7, TurnsGoOn
    <3>2. rank[y] < rank[z] /\ rank[y] \in 0 .. K /\ rank[z] \in 0 .. K
      <4> HIDE DEF D, K, y, rank, next, stop
      <4> QED BY <1>5, <1>6, <2>4, <3>1
    <3>3. ~(rank[z] <= rank[y])
      <4> HIDE DEF K, rank
      <4> QED BY <1>2, <3>2
    <3>4. y \notin Wrong
      <4> HIDE DEF Wrong, rank
      <4> QED BY <2>5, <3>3
    <3> QED BY <3>1, <3>4
  <2>8. Body(loop)[z] = Body(f)[z]
    <3> HIDE DEF D, loop
    <3> QED BY <2>4, <2>7 DEF Stopped, NextTurn
  <2> QED BY <2>4, <2>6, <2>8
<1>14. <<0, 0, -1, 0>> \in D
  BY <1>1, TurnMade
<1> HIDE DEF D, loop
<1> QED BY <1>7, <1>12, <1>13, <1>14

\* The loop, with what the star may still take, finds a match if there is one.
\* Since the last star every character of the glob has taken one of the text.
SinceStar(g, z) ==
  z[3] # -1 => /\ g[z[3] + 1] = Star
               /\ z[1] - (z[3] + 1) = z[2] - z[4]
               /\ \A i \in z[3] + 2 .. z[1] : g[i] # Star

CanMatch(g, s, z) ==
  \/ Rest(g, s, z[1], z[2])
  \/ z[3] # -1 /\ \E w \in z[4] + 1 .. Len(s) : Rest(g, s, z[3] + 1, w)

LEMMA SinceStarKept ==
  ASSUME NEW g \in Glob, NEW s \in Seq(Letter), NEW z \in Turns(g, s), ~Stopped(g, s, z), SinceStar(g, z)
  PROVE  SinceStar(g, NextTurn(g, s, z))
<1> DEFINE p == z[1]
           v == z[2]
           star == z[3]
           retry == z[4]
           y == NextTurn(g, s, z)
<1>1. /\ Len(g) \in Nat /\ Len(s) \in Nat
      /\ p \in 0 .. Len(g) /\ v \in 0 .. Len(s) /\ star \in -1 .. Len(g) /\ retry \in 0 .. Len(s)
      /\ star < p /\ retry <= v /\ v < Len(s)
  BY TurnFields DEF Stopped, Glob
<1>2. CASE TakesNext(g, s, z)
  <2>1. y[1] = p + 1 /\ y[2] = v + 1 /\ y[3] = star /\ y[4] = retry
    BY <1>2 DEF NextTurn
  <2>2. g[p + 1] # Star
    <3>1. s[v + 1] \in Letter /\ Star \notin Letter /\ Star # One
      BY <1>1, RuleStoreConstants
    <3> QED BY <1>2, <3>1 DEF TakesNext
  <2>3. ASSUME star # -1
        PROVE  /\ g[star + 1] = Star
               /\ p + 1 - (star + 1) = v + 1 - retry
               /\ \A i \in star + 2 .. p + 1 : g[i] # Star
    <3>1. g[star + 1] = Star /\ p - (star + 1) = v - retry /\ \A i \in star + 2 .. p : g[i] # Star
      BY <2>3 DEF SinceStar
    <3> HIDE DEF p, v, star, retry
    <3>2. p + 1 - (star + 1) = v + 1 - retry
      BY <1>1, <3>1
    <3>3. \A i : i \in star + 2 .. p + 1 => i \in star + 2 .. p \/ i = p + 1
      BY <1>1
    <3> QED BY <2>2, <3>1, <3>2, <3>3
  <2> HIDE DEF y, p, v, star, retry
  <2>9. SinceStar(g, y)
    BY <1>1, <2>1, <2>3 DEF SinceStar
  <2> QED BY <2>9 DEF y
<1>3. CASE ~TakesNext(g, s, z) /\ StarNext(g, z)
  <2>1. y[1] = p + 1 /\ y[2] = v /\ y[3] = p /\ y[4] = v
    BY <1>3 DEF NextTurn
  <2>2. p + 1 - (p + 1) = v - v /\ p + 2 .. p + 1 = {} /\ g[p + 1] = Star
    BY <1>1, <1>3 DEF StarNext
  <2> HIDE DEF y, p, v
  <2>9. SinceStar(g, y)
    BY <1>1, <2>1, <2>2 DEF SinceStar
  <2> QED BY <2>9 DEF y
<1>4. CASE ~TakesNext(g, s, z) /\ ~StarNext(g, z)
  <2>1. y[1] = star + 1 /\ y[2] = retry + 1 /\ y[3] = star /\ y[4] = retry + 1 /\ star # -1
    BY <1>4 DEF NextTurn, Stopped
  <2>2. star + 1 - (star + 1) = retry + 1 - (retry + 1) /\ star + 2 .. star + 1 = {}
    BY <1>1
  <2>3. g[star + 1] = Star
    BY <2>1 DEF SinceStar
  <2> HIDE DEF y, star, retry
  <2>9. SinceStar(g, y)
    BY <1>1, <2>1, <2>2, <2>3 DEF SinceStar
  <2> QED BY <2>9 DEF y
<1> QED BY <1>2, <1>3, <1>4

\* What the last star could take more leads past the place that is reached.
LEMMA StarReaches ==
  ASSUME NEW g \in Glob, NEW s \in Seq(Letter), NEW z \in Turns(g, s), SinceStar(g, z), z[3] # -1,
         NEW w \in z[4] + 1 .. Len(s), Rest(g, s, z[3] + 1, w)
  PROVE  \E u \in z[2] + 1 .. Len(s) : Rest(g, s, z[1], u)
<1> DEFINE p == z[1]
           v == z[2]
           q == z[3] + 1
           retry == z[4]
           n == p - q
<1>1. /\ Len(g) \in Nat /\ Len(s) \in Nat
      /\ p \in 0 .. Len(g) /\ v \in 0 .. Len(s) /\ q \in 0 .. Len(g) /\ retry \in 0 .. Len(s) /\ q <= p
    BY TurnFields DEF Glob
<1>2. n \in 0 .. Len(g) - q /\ q + n = p /\ w \in 0 .. Len(s) /\ retry + 1 <= w
  BY <1>1
<1>3. n = v - retry /\ \A i \in q + 1 .. q + n : g[i] # Star
  <2>1. q + 1 = z[3] + 2 /\ q + n = z[1]
    <3>1. z[3] \in Int
      BY TurnFields
    <3> QED BY <1>1, <3>1
  <2> QED BY <2>1 DEF SinceStar
<1> HIDE DEF n
<1>4. w + n <= Len(s) /\ Rest(g, s, q + n, w + n)
  <2> HIDE DEF q
  <2>1. q \in 0 .. Len(g) /\ n \in 0 .. Len(g) - q /\ w \in 0 .. Len(s)
    BY <1>1, <1>2
  <2>2. Rest(g, s, q, w)
    BY DEF q
  <2> QED BY <1>3, <2>1, <2>2, RestWithoutStars
<1>5. w + n \in v + 1 .. Len(s)
  <2>1. n = v - retry /\ w + n <= Len(s)
    BY <1>3, <1>4
  <2> HIDE DEF p, v, q, retry
  <2>2. v \in Int /\ retry \in Int /\ w \in Int /\ Len(s) \in Int /\ retry + 1 <= w
    BY <1>1, <1>2
  <2> QED BY <2>1, <2>2
<1> QED BY <1>2, <1>4, <1>5

LEMMA OutcomeIsRight ==
  ASSUME NEW g \in Glob, NEW s \in Seq(Letter), NEW z \in Turns(g, s), SinceStar(g, z), Stopped(g, s, z)
  PROVE  Outcome(g, s, z) <=> CanMatch(g, s, z)
<1>1. /\ Len(g) \in Nat /\ Len(s) \in Nat
      /\ z[1] \in 0 .. Len(g) /\ z[2] \in 0 .. Len(s)
  BY TurnFields DEF Glob
<1>2. CASE z[2] = Len(s)
  <2>1. z[2] + 1 .. Len(s) = {}
    BY <1>1, <1>2
  <2>2. CanMatch(g, s, z) <=> Rest(g, s, z[1], Len(s))
    BY <1>2, <2>1, StarReaches DEF CanMatch
  <2> QED BY <1>1, <1>2, <2>2, RestOfNothing DEF Outcome
<1>3. CASE z[2] # Len(s)
  <2>1. ~TakesNext(g, s, z) /\ ~StarNext(g, z) /\ z[3] = -1
    BY <1>3 DEF Stopped
  <2>2. ~Rest(g, s, z[1], z[2])
    <3>1. CASE z[1] = Len(g)
      BY <1>1, <1>3, <3>1, RestAtEnd
    <3>2. CASE z[1] # Len(g)
      <4>1. z[1] \in 0 .. Len(g) - 1 /\ g[z[1] + 1] # Star /\ g[z[1] + 1] \notin {One, s[z[2] + 1]}
        BY <1>1, <2>1, <3>2 DEF TakesNext, StarNext
      <4> QED BY <1>1, <4>1, RestAfterLetter
    <3> QED BY <3>1, <3>2
  <2> QED BY <1>3, <2>1, <2>2 DEF Outcome, CanMatch
<1> QED BY <1>2, <1>3

LEMMA TurnIsRight ==
  ASSUME NEW g \in Glob, NEW s \in Seq(Letter), NEW z \in Turns(g, s), SinceStar(g, z), ~Stopped(g, s, z)
  PROVE  CanMatch(g, s, z) <=> CanMatch(g, s, NextTurn(g, s, z))
<1> DEFINE p == z[1]
           v == z[2]
           star == z[3]
           retry == z[4]
<1>1. /\ Len(g) \in Nat /\ Len(s) \in Nat
      /\ p \in 0 .. Len(g) /\ v \in 0 .. Len(s) /\ star \in -1 .. Len(g) /\ retry \in 0 .. Len(s)
      /\ star < p /\ retry <= v /\ v < Len(s)
  BY TurnFields DEF Stopped, Glob
<1>2. CASE TakesNext(g, s, z)
  <2>1. NextTurn(g, s, z) = <<p + 1, v + 1, star, retry>>
    BY <1>2 DEF NextTurn
  <2>2. g[p + 1] # Star /\ g[p + 1] \in {One, s[v + 1]} /\ p \in 0 .. Len(g) - 1
    <3>1. s[v + 1] \in Letter /\ Star \notin Letter /\ Star # One
      BY <1>1, RuleStoreConstants
    <3>2. p < Len(g) /\ g[p + 1] \in {One, s[v + 1]}
      BY <1>2 DEF TakesNext
    <3> QED BY <1>1, <3>1, <3>2
  <2>3. Rest(g, s, p, v) <=> Rest(g, s, p + 1, v + 1)
    BY <1>1, <2>2, RestAfterLetter
  <2> QED BY <2>1, <2>3 DEF CanMatch
<1>3. CASE ~TakesNext(g, s, z) /\ StarNext(g, z)
  <2>1. NextTurn(g, s, z) = <<p + 1, v, p, v>>
    BY <1>3 DEF NextTurn
  <2>2. g[p + 1] = Star /\ p \in 0 .. Len(g) - 1 /\ p # -1
    BY <1>1, <1>3 DEF StarNext
  <2>3. \A u \in 0 .. Len(s) : Rest(g, s, p, u) <=> \E w \in u .. Len(s) : Rest(g, s, p + 1, w)
    BY <2>2, RestAfterStar
  <2>4. \A u : u \in v .. Len(s) <=> u = v \/ u \in v + 1 .. Len(s)
    BY <1>1
  <2>5. CanMatch(g, s, NextTurn(g, s, z)) <=> Rest(g, s, p, v)
    <3>1. CanMatch(g, s, NextTurn(g, s, z))
          <=> (Rest(g, s, p + 1, v) \/ \E w \in v + 1 .. Len(s) : Rest(g, s, p + 1, w))
      BY <2>1, <2>2 DEF CanMatch
    <3>2. Rest(g, s, p, v) <=> \E w \in v .. Len(s) : Rest(g, s, p + 1, w)
      BY <1>1, <2>3
    <3> QED BY <2>4, <3>1, <3>2
  <2>6. ASSUME star # -1, NEW w \in retry + 1 .. Len(s), Rest(g, s, star + 1, w) PROVE Rest(g, s, p, v)
    <3>1. PICK u \in v + 1 .. Len(s) : Rest(g, s, p, u)
      BY <2>6, StarReaches
    <3>2. u \in 0 .. Len(s) /\ v <= u
      BY <1>1
    <3>3. PICK x \in u .. Len(s) : Rest(g, s, p + 1, x)
      BY <2>3, <3>1, <3>2
    <3>4. x \in v .. Len(s)
      BY <1>1, <3>2
    <3> QED BY <1>1, <2>3, <3>3, <3>4
  <2> QED BY <2>5, <2>6 DEF CanMatch
<1>4. CASE ~TakesNext(g, s, z) /\ ~StarNext(g, z)
  <2>1. NextTurn(g, s, z) = <<star + 1, retry + 1, star, retry + 1>> /\ star # -1
    BY <1>4 DEF NextTurn, Stopped
  <2>2. ~Rest(g, s, p, v)
    <3>1. CASE p = Len(g)
      BY <1>1, <3>1, RestAtEnd
    <3>2. CASE p # Len(g)
      <4>1. p \in 0 .. Len(g) - 1 /\ g[p + 1] # Star /\ g[p + 1] \notin {One, s[v + 1]}
        BY <1>1, <1>4, <3>2 DEF TakesNext, StarNext
      <4> QED BY <1>1, <4>1, RestAfterLetter
    <3> QED BY <3>1, <3>2
  <2>3. \A w : w \in retry + 1 .. Len(s) <=> w = retry + 1 \/ w \in retry + 1 + 1 .. Len(s)
    BY <1>1
  <2>4. CanMatch(g, s, z) <=> \E w \in retry + 1 .. Len(s) : Rest(g, s, star + 1, w)
    BY <2>1, <2>2 DEF CanMatch
  <2>5. CanMatch(g, s, NextTurn(g, s, z))
        <=> (Rest(g, s, star + 1, retry + 1) \/ \E w \in retry + 1 + 1 .. Len(s) : Rest(g, s, star + 1, w))
    BY <2>1 DEF CanMatch
  <2> QED BY <2>3, <2>4, <2>5
<1> QED BY <1>2, <1>3, <1>4

LEMMA GlobLoopIsRight ==
  ASSUME NEW g \in Glob, NEW s \in Seq(Letter), NEW f, GlobLoop(f, g, s),
         NEW z \in Turns(g, s), SinceStar(g, z)
  PROVE  f[z] <=> CanMatch(g, s, z)
<1> DEFINE D == {y \in Turns(g, s) : SinceStar(g, y)}
           Wrong == {y \in D : f[y] # CanMatch(g, s, y)}
           R == {TurnsLeft(g, s, y) : y \in Wrong}
<1>1. \A y \in Turns(g, s) : /\ f[y] \in BOOLEAN
                             /\ Stopped(g, s, y) => f[y] = Outcome(g, s, y)
                             /\ ~Stopped(g, s, y) => f[y] = f[NextTurn(g, s, y)]
  BY DEF GlobLoop, IsLoop
<1>2. \A y \in Turns(g, s) : CanMatch(g, s, y) \in BOOLEAN /\ Outcome(g, s, y) \in BOOLEAN
  BY DEF CanMatch, Outcome
<1>3. Wrong = {}
  <2> SUFFICES ASSUME Wrong # {} PROVE FALSE
    OBVIOUS
  <2>1. R \in SUBSET Nat /\ R # {}
    <3>1. \A y \in Turns(g, s) : TurnsLeft(g, s, y) \in Nat
      BY TurnsAreLeft
    <3> QED BY <3>1
  <2>2. PICK r \in R : \A q \in R : r <= q
    BY <2>1, LeastExists
  <2>3. PICK y \in Wrong : r = TurnsLeft(g, s, y)
    BY <2>2
  <2>4. y \in Turns(g, s) /\ SinceStar(g, y) /\ f[y] # CanMatch(g, s, y)
    BY <2>3
  <2>5. CASE Stopped(g, s, y)
    <3>1. f[y] = Outcome(g, s, y)
      BY <1>1, <2>4, <2>5
    <3>2. Outcome(g, s, y) <=> CanMatch(g, s, y)
      BY <2>4, <2>5, OutcomeIsRight
    <3> QED BY <1>2, <2>4, <3>1, <3>2
  <2>6. CASE ~Stopped(g, s, y)
    <3> DEFINE x == NextTurn(g, s, y)
    <3>1. x \in Turns(g, s) /\ TurnsLeft(g, s, x) < TurnsLeft(g, s, y)
      BY <2>4, <2>6, TurnsGoOn
    <3>2. SinceStar(g, x)
      BY <2>4, <2>6, SinceStarKept
    <3>3. CanMatch(g, s, y) <=> CanMatch(g, s, x)
      BY <2>4, <2>6, TurnIsRight
    <3>4. f[y] = f[x]
      BY <1>1, <2>4, <2>6
    <3>5. TurnsLeft(g, s, x) \in Nat /\ TurnsLeft(g, s, y) \in Nat
      BY <2>4, <3>1, TurnsAreLeft
    <3> HIDE DEF x
    <3>6. x \in Wrong
      BY <1>2, <2>4, <3>1, <3>2, <3>3, <3>4
    <3>7. TurnsLeft(g, s, y) <= TurnsLeft(g, s, x)
      BY <2>2, <2>3, <3>6
    <3> QED BY <3>1, <3>5, <3>7
  <2> QED BY <2>5, <2>6
<1> QED BY <1>1, <1>2, <1>3

\* Backtracking to the last star alone finds a match if there is one.
LEMMA GlobIsRight ==
  ASSUME NEW g \in Glob, NEW s \in Seq(Letter)
  PROVE  GlobMatches(g, s) <=> Cuts(g, s) # {}
<1> DEFINE z == <<0, 0, -1, 0>>
<1>1. PICK f : GlobLoop(f, g, s) /\ GlobMatches(g, s) = f[z]
  BY GlobLoopExists
<1>2. z \in Turns(g, s)
  <2>1. Len(g) \in Nat /\ Len(s) \in Nat
    BY DEF Glob
  <2> QED BY <2>1, TurnMade
<1>3. SinceStar(g, z) /\ (CanMatch(g, s, z) <=> Rest(g, s, 0, 0))
  BY DEF SinceStar, CanMatch
<1> HIDE DEF z
<1>4. f[z] <=> CanMatch(g, s, z)
  BY <1>1, <1>2, <1>3, GlobLoopIsRight
<1> QED BY <1>1, <1>3, <1>4, RestOfAll

LEMMA FoldedPath ==
  ASSUME NEW s \in Seq(Letter)
  PROVE  Fold(s) \in Seq(Letter)
<1>1. Lower \in [Letter -> Letter]
  BY RuleStoreConstants
<1> QED BY <1>1 DEF Fold

\* A glob with any number of stars matches exactly the paths that its stars can be
\* filled in for, although globMatches only ever goes back to the last of them.
THEOREM GlobsMatchTexts == Spec => []GlobsAreRight
<1>1. StoreInv => GlobsAreRight
  <2> SUFFICES ASSUME StoreInv, NEW i \in DOMAIN rules, NEW g \in rules[i].globs, NEW c \in Context
               PROVE  GlobMatches(g, Fold(c.path)) <=> Cuts(g, Fold(c.path)) # {}
    BY DEF GlobsAreRight
  <2>1. rules[i] \in KeptRule
    BY DEF StoreInv, Checked
  <2>2. g \in Glob
    BY <2>1, KeptFields
  <2>3. Fold(c.path) \in Seq(Letter)
    BY RuleStoreConstants, FoldedPath
  <2> QED BY <2>2, <2>3, GlobIsRight
<1> QED BY <1>1, StoreInvariant, PTL
=============================================================================
