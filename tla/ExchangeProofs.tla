--------------------------- MODULE ExchangeProofs ---------------------------
(***************************************************************************)
(* Proofs about Exchange, for texts of any length over any alphabet: that  *)
(* the parser's loop, with its flags, finds the rows of the grammar or an  *)
(* error where there are none; that an import adds the rows of the text,   *)
(* and nothing else; and that rules which are exported come back.          *)
(*                                                                         *)
(* The grammar looks at all of a text, the parser at a character.  Between *)
(* the two is the relation Reads, what the parser knows of the text before *)
(* index: first come lemmas on how each part of the grammar grows with a   *)
(* character, then Reads grows with each branch of the loop.  An error is  *)
(* one whatever follows (Spoiled).                                         *)
(*                                                                         *)
(* The rows that an import has looked at are the rules that it has taken   *)
(* (Taken).  An export is read with the same lemmas, a symbol, a field, a  *)
(* line and a rule at a time; then each of its rows gives back its rule    *)
(* (Regained).                                                             *)
(***************************************************************************)
EXTENDS Exchange, ListLemmas

\* Induction on lists: what the empty list is in, and with a list each one that
\* is longer by one.
LEMMA AppendInduction ==
  ASSUME NEW S, NEW T, <<>> \in T, \A s \in Seq(S), e \in S : s \in T => Append(s, e) \in T
  PROVE  \A s \in Seq(S) : s \in T
<1> DEFINE L == {n \in Nat : \A s \in Seq(S) : Len(s) = n => s \in T}
<1>1. 0 \in L
  <2>1. \A s \in Seq(S) : Len(s) = 0 => s = <<>>
    BY EmptySeq
  <2> QED BY <2>1
<1>2. ASSUME NEW n \in Nat, n \in L PROVE n + 1 \in L
  <2> SUFFICES ASSUME NEW s \in Seq(S), Len(s) = n + 1 PROVE s \in T
    OBVIOUS
  <2>1. s # <<>>
    BY EmptySeq
  <2>2. PICK r \in Seq(S), e \in S : s = Append(r, e)
    BY <2>1, SequenceEmptyOrAppend
  <2>3. Len(r) = n
    <3>1. Len(Append(r, e)) = Len(r) + 1 /\ Len(r) \in Nat
      BY AppendProperties, LenProperties
    <3> QED BY <2>2, <3>1
  <2> QED BY <1>2, <2>2, <2>3
<1> HIDE DEF L
<1>3. \A n \in Nat : n \in L
  BY <1>1, <1>2, SetInduction
<1>4. \A s \in Seq(S) : Len(s) \in Nat /\ Len(s) \in L
  BY <1>3, LenProperties
<1> QED BY <1>4 DEF L

\* The lists that are put behind one another, up to the k-th.
LEMMA FlattenExists ==
  ASSUME NEW S, NEW ss \in Seq(Seq(S)), ss # <<>>
  PROVE  \E f \in [1 .. Len(ss) -> Seq(S)] :
           /\ f[1] = ss[1] /\ \A i \in 2 .. Len(ss) : f[i] = f[i - 1] \o ss[i]
           /\ FlattenSeq(ss) = f[Len(ss)]
<1> DEFINE N == Len(ss)
           More(t, i) == t \o ss[i]
           G == [z \in Seq(S) \X (1 .. N) |-> More(z[1], z[2])]
           Recur(f) == [i \in 1 .. N |-> IF i = 1 THEN ss[i] ELSE f[i - 1] \o ss[i]]
           flat == CHOOSE f : f = Recur(f)
<1>1. N \in Nat \ {0} /\ \A i \in 1 .. N : ss[i] \in Seq(S)
  BY EmptySeq, LenProperties
<1>2. \A t \in Seq(S), i \in 1 .. N : More(t, i) \in Seq(S)
  BY <1>1, ConcatProperties
<1>3. G \in [Seq(S) \X (1 .. N) -> Seq(S)]
  <2> HIDE DEF More, N
  <2> QED BY <1>2
<1>4. PICK f \in [0 .. N -> Seq(S)] : f[0] = <<>> /\ \A i \in 1 .. N : f[i] = G[<<f[i - 1], i>>]
  <2>1. <<>> \in Seq(S)
    OBVIOUS
  <2> HIDE DEF G, N
  <2>2. \E f : Recursion(f, N, Seq(S), <<>>, G)
    BY <1>1, <1>3, <2>1, RecursionExists
  <2> QED BY <2>2 DEF Recursion
<1>5. \A i \in 1 .. N : f[i - 1] \in Seq(S) /\ f[i] = f[i - 1] \o ss[i]
  <2> TAKE i \in 1 .. N
  <2>1. f[i - 1] \in Seq(S)
    <3> HIDE DEF N
    <3> QED BY <1>1
  <2>2. G[<<f[i - 1], i>>] = f[i - 1] \o ss[i]
    <3> HIDE DEF N
    <3> QED BY <2>1
  <2> HIDE DEF G
  <2> QED BY <1>4, <2>1, <2>2
<1> HIDE DEF G
<1>6. f[1] = ss[1]
  <2>1. 1 \in 1 .. N /\ 1 - 1 = 0 /\ ss[1] \in Seq(S)
    BY <1>1
  <2> HIDE DEF N
  <2>2. f[1] = f[1 - 1] \o ss[1]
    BY <1>5, <2>1
  <2>3. f[1] = <<>> \o ss[1]
    BY <1>4, <2>1, <2>2
  <2> QED BY <2>1, <2>3, ConcatEmptySeq
<1> DEFINE g == [i \in 1 .. N |-> f[i]]
<1>7. g = Recur(g)
  <2>1. \A i \in 1 .. N : g[i] = IF i = 1 THEN ss[i] ELSE g[i - 1] \o ss[i]
    <3> TAKE i \in 1 .. N
    <3>1. CASE i = 1
      BY <1>6, <3>1
    <3>2. CASE i # 1
      <4>1. i - 1 \in 1 .. N
        BY <1>1, <3>2
      <4> HIDE DEF N
      <4> QED BY <1>5, <3>2, <4>1
    <3> QED BY <3>1, <3>2
  <2> HIDE DEF N
  <2> QED BY <2>1
<1> HIDE DEF g
<1>8. flat = Recur(flat)
  <2> HIDE DEF Recur
  <2> QED BY <1>7
<1>9. FlattenSeq(ss) = flat[N]
  BY <1>1 DEF FlattenSeq
<1> HIDE DEF flat
<1>10. flat[1] = ss[1] /\ \A i \in 2 .. N : flat[i] = flat[i - 1] \o ss[i]
  <2>1. 1 \in 1 .. N /\ \A i \in 2 .. N : i \in 1 .. N /\ i # 1
    BY <1>1
  <2> HIDE DEF N
  <2> QED BY <1>8, <2>1
<1>11. flat \in [1 .. N -> Seq(S)]
  <2> DEFINE T == {n \in 0 .. N : n = 0 \/ flat[n] \in Seq(S)}
  <2>1. 0 \in T
    BY <1>1
  <2>2. ASSUME NEW n \in 1 .. N, n - 1 \in T PROVE n \in T
    <3>1. CASE n = 1
      BY <1>1, <1>10, <3>1
    <3>2. CASE n # 1
      <4>1. n - 1 # 0 /\ n \in 2 .. N /\ flat[n - 1] \in Seq(S)
        BY <1>1, <2>2, <3>2
      <4>2. flat[n - 1] \o ss[n] \in Seq(S)
        BY <1>1, <4>1, ConcatProperties
      <4>3. flat[n] \in Seq(S)
        BY <1>10, <4>1, <4>2
      <4> QED BY <1>1, <4>3
    <3> QED BY <3>1, <3>2
  <2> HIDE DEF T
  <2>3. \A n \in 0 .. N : n \in T
    BY <1>1, <2>1, <2>2, IntervalInduction
  <2>4. \A n \in 1 .. N : flat[n] \in Seq(S)
    BY <1>1, <2>3 DEF T
  <2>5. flat = [i \in 1 .. N |-> flat[i]]
    <3> HIDE DEF N
    <3> QED BY <1>8
  <2> HIDE DEF N
  <2> QED BY <2>4, <2>5
<1> QED BY <1>9, <1>10, <1>11

\* Nothing behind nothing.
LEMMA FlattenEmpty == FlattenSeq(<<>>) = <<>>
BY DEF FlattenSeq

\* A list more is put behind the others.
LEMMA FlattenAppend ==
  ASSUME NEW S, NEW ss \in Seq(Seq(S)), NEW s \in Seq(S)
  PROVE  FlattenSeq(Append(ss, s)) = FlattenSeq(ss) \o s
<1> DEFINE tt == Append(ss, s)
           N == Len(ss)
<1>1. /\ tt \in Seq(Seq(S)) /\ tt # <<>> /\ Len(tt) = N + 1 /\ N \in Nat
      /\ \A i \in 1 .. N : tt[i] = ss[i]
      /\ tt[N + 1] = s
  BY AppendProperties, LenProperties
<1> HIDE DEF tt
<1>2. PICK g \in [1 .. N + 1 -> Seq(S)] :
        /\ g[1] = tt[1] /\ \A i \in 2 .. N + 1 : g[i] = g[i - 1] \o tt[i]
        /\ FlattenSeq(tt) = g[N + 1]
  <2>1. \E g \in [1 .. Len(tt) -> Seq(S)] :
          /\ g[1] = tt[1] /\ \A i \in 2 .. Len(tt) : g[i] = g[i - 1] \o tt[i]
          /\ FlattenSeq(tt) = g[Len(tt)]
    BY <1>1, FlattenExists
  <2> HIDE DEF N
  <2> QED BY <1>1, <2>1
<1>3. CASE ss = <<>>
  <2>1. N = 0 /\ FlattenSeq(tt) = s
    BY <1>1, <1>2, <1>3
  <2> QED BY <1>3, <2>1, FlattenEmpty, ConcatEmptySeq DEF tt
<1>4. CASE ss # <<>>
  <2>1. PICK f \in [1 .. N -> Seq(S)] :
          /\ f[1] = ss[1] /\ \A i \in 2 .. N : f[i] = f[i - 1] \o ss[i]
          /\ FlattenSeq(ss) = f[N]
    BY <1>4, FlattenExists
  <2>2. N \in 1 .. N
    BY <1>1, <1>4, EmptySeq
  <2> DEFINE T == {n \in 0 .. N : n = 0 \/ f[n] = g[n]}
  <2> HIDE DEF N
  <2>3. 0 \in T
    BY <1>1
  <2>4. ASSUME NEW n \in 1 .. N, n - 1 \in T PROVE n \in T
    <3>1. CASE n = 1
      BY <1>1, <1>2, <2>1, <2>2, <3>1
    <3>2. CASE n # 1
      <4>1. n - 1 # 0 /\ n \in 2 .. N /\ n \in 2 .. N + 1 /\ f[n - 1] = g[n - 1]
        BY <1>1, <2>4, <3>2
      <4>2. f[n] = g[n]
        BY <1>1, <1>2, <2>1, <4>1
      <4> QED BY <1>1, <4>2
    <3> QED BY <3>1, <3>2
  <2> HIDE DEF T
  <2>5. \A n \in 0 .. N : n \in T
    BY <1>1, <2>3, <2>4, IntervalInduction
  <2>6. f[N] = g[N]
    <3>1. N \in 0 .. N /\ N # 0
      BY <1>1, <2>2
    <3>2. N \in T
      BY <2>5, <3>1
    <3> QED BY <3>1, <3>2 DEF T
  <2>7. N + 1 \in 2 .. N + 1 /\ (N + 1) - 1 = N
    BY <1>1, <2>2
  <2>8. FlattenSeq(tt) = g[N] \o s
    BY <1>1, <1>2, <2>7
  <2> QED BY <2>1, <2>6, <2>8 DEF tt
<1> QED BY <1>3, <1>4

\* Texts behind one another are a text.
LEMMA FlattenType ==
  ASSUME NEW S, NEW ss \in Seq(Seq(S))
  PROVE  FlattenSeq(ss) \in Seq(S)
<1>1. CASE ss = <<>>
  <2>1. FlattenSeq(ss) = <<>>
    BY <1>1, FlattenEmpty
  <2> QED BY <2>1, EmptySeq
<1>2. CASE ss # <<>>
  <2>1. Len(ss) \in Nat \ {0}
    BY <1>2, EmptySeq
  <2>2. \E f \in [1 .. Len(ss) -> Seq(S)] : FlattenSeq(ss) = f[Len(ss)]
    BY <1>2, FlattenExists
  <2>3. Len(ss) \in 1 .. Len(ss)
    BY <2>1
  <2> QED BY <2>2, <2>3
<1> QED BY <1>1, <1>2

(***************************************************************************)
(* Only and Pieces.                                                        *)
(***************************************************************************)
\* f is what Only comes to, element by element.
KeepsOnly(f, s, kept) ==
  /\ f[0] = <<>>
  /\ \A n \in 1 .. Len(s) : f[n] = IF n \in kept THEN Append(f[n - 1], s[n]) ELSE f[n - 1]
  /\ Only(s, kept) = f[Len(s)]

\* The elements that are kept, up to the k-th, are a list.
LEMMA OnlyExists ==
  ASSUME NEW S, NEW s \in Seq(S), NEW kept
  PROVE  \E f \in [0 .. Len(s) -> Seq(S)] : KeepsOnly(f, s, kept)
<1> DEFINE N == Len(s)
           More(t, n) == IF n \in kept THEN Append(t, s[n]) ELSE t
           G == [z \in Seq(S) \X (1 .. N) |-> More(z[1], z[2])]
           Recur(f) == [n \in 0 .. N |-> IF n = 0 THEN <<>> ELSE More(f[n - 1], n)]
           upto == CHOOSE f : f = Recur(f)
<1>1. N \in Nat /\ \A n \in 1 .. N : s[n] \in S
  BY LenProperties
<1>2. \A t \in Seq(S), n \in 1 .. N : More(t, n) \in Seq(S)
  BY <1>1, AppendProperties
<1>3. G \in [Seq(S) \X (1 .. N) -> Seq(S)]
  <2> HIDE DEF More, N
  <2> QED BY <1>2
<1>4. PICK f \in [0 .. N -> Seq(S)] : f[0] = <<>> /\ \A n \in 1 .. N : f[n] = G[<<f[n - 1], n>>]
  <2>1. <<>> \in Seq(S)
    OBVIOUS
  <2> HIDE DEF G, N
  <2>2. \E f : Recursion(f, N, Seq(S), <<>>, G)
    BY <1>1, <1>3, <2>1, RecursionExists
  <2> QED BY <2>2 DEF Recursion
<1>5. \A n \in 1 .. N : f[n] = More(f[n - 1], n)
  <2> TAKE n \in 1 .. N
  <2>1. f[n - 1] \in Seq(S)
    <3> HIDE DEF N
    <3> QED BY <1>1
  <2>2. G[<<f[n - 1], n>>] = More(f[n - 1], n)
    <3> HIDE DEF More, N
    <3> QED BY <2>1
  <2> HIDE DEF G, More
  <2> QED BY <1>4, <2>2
<1> HIDE DEF G
<1>6. f = Recur(f)
  <2>1. \A n \in 0 .. N : n = 0 \/ n \in 1 .. N
    BY <1>1
  <2> HIDE DEF More, N
  <2> QED BY <1>4, <1>5, <2>1
<1>7. upto = Recur(upto)
  <2> HIDE DEF Recur
  <2> QED BY <1>6
<1>8. Only(s, kept) = upto[N]
  BY DEF Only
<1> HIDE DEF upto
<1>9. upto[0] = <<>> /\ \A n \in 1 .. N : upto[n] = More(upto[n - 1], n)
  <2>1. 0 \in 0 .. N /\ \A n \in 1 .. N : n \in 0 .. N /\ n # 0
    BY <1>1
  <2> HIDE DEF More, N
  <2> QED BY <1>7, <2>1
<1>10. \A n \in 0 .. N : upto[n] \in Seq(S)
  <2>1. upto[0] \in Seq(S)
    BY <1>9
  <2>2. \A n \in 1 .. N : upto[n - 1] \in Seq(S) => upto[n] \in Seq(S)
    <3> HIDE DEF More, N
    <3> QED BY <1>2, <1>9
  <2> HIDE DEF N
  <2> QED BY <1>1, <2>1, <2>2, StaysIn
<1>11. upto \in [0 .. N -> Seq(S)]
  <2>1. upto = [n \in 0 .. N |-> upto[n]]
    <3> HIDE DEF More, N
    <3> QED BY <1>7
  <2> HIDE DEF N
  <2> QED BY <1>10, <2>1
<1> QED BY <1>8, <1>9, <1>11 DEF KeepsOnly

\* What is kept of a list is a list of the same things.
LEMMA OnlyType ==
  ASSUME NEW S, NEW s \in Seq(S), NEW kept
  PROVE  Only(s, kept) \in Seq(S)
<1>1. \E f \in [0 .. Len(s) -> Seq(S)] : Only(s, kept) = f[Len(s)]
  BY OnlyExists DEF KeepsOnly
<1>2. Len(s) \in 0 .. Len(s)
  BY LenProperties
<1> QED BY <1>1, <1>2

\* Of nothing, nothing is kept.
LEMMA OnlyEmpty == \A kept : Only(<<>>, kept) = <<>>
<1> SUFFICES ASSUME NEW s \in Seq({}), s = <<>>, NEW kept PROVE Only(s, kept) = <<>>
  BY EmptySeq
<1>1. \E f \in [0 .. Len(s) -> Seq({})] : KeepsOnly(f, s, kept)
  BY OnlyExists
<1>2. Len(s) = 0
  OBVIOUS
<1> QED BY <1>1, <1>2 DEF KeepsOnly

\* Whether the last one is kept, too, and of the others those that were.
LEMMA OnlyAppend ==
  ASSUME NEW S, NEW s \in Seq(S), NEW e \in S, NEW kept, NEW now,
         \A n \in 1 .. Len(s) : n \in kept <=> n \in now
  PROVE  Only(Append(s, e), now) =
           IF Len(s) + 1 \in now THEN Append(Only(s, kept), e) ELSE Only(s, kept)
<1> DEFINE t == Append(s, e)
           N == Len(s)
<1>1. t \in Seq(S) /\ Len(t) = N + 1 /\ N \in Nat /\ (\A i \in 1 .. N : t[i] = s[i]) /\ t[N + 1] = e
  BY AppendProperties, LenProperties
<1>2. PICK f \in [0 .. N -> Seq(S)] :
        /\ f[0] = <<>>
        /\ \A n \in 1 .. N : f[n] = IF n \in kept THEN Append(f[n - 1], s[n]) ELSE f[n - 1]
        /\ Only(s, kept) = f[N]
  BY OnlyExists DEF KeepsOnly
<1> HIDE DEF t
<1>3. PICK g \in [0 .. N + 1 -> Seq(S)] :
        /\ g[0] = <<>>
        /\ \A n \in 1 .. N + 1 : g[n] = IF n \in now THEN Append(g[n - 1], t[n]) ELSE g[n - 1]
        /\ Only(t, now) = g[N + 1]
  <2>1. \E g \in [0 .. Len(t) -> Seq(S)] : KeepsOnly(g, t, now)
    BY <1>1, OnlyExists
  <2> HIDE DEF N
  <2> QED BY <1>1, <2>1 DEF KeepsOnly
<1> DEFINE T == {n \in 0 .. N : f[n] = g[n]}
<1>4. \A n \in 0 .. N : n \in T
  <2>1. 0 \in T
    BY <1>1, <1>2, <1>3
  <2>2. ASSUME NEW n \in 1 .. N, n - 1 \in T PROVE n \in T
    <3>1. n \in 0 .. N /\ n \in 1 .. N + 1 /\ f[n - 1] = g[n - 1]
      BY <1>1, <2>2
    <3> QED BY <1>1, <1>2, <1>3, <3>1
  <2> HIDE DEF T, N
  <2> QED BY <1>1, <2>1, <2>2, IntervalInduction
<1>5. f[N] = g[N]
  BY <1>1, <1>4
<1>6. N + 1 \in 1 .. N + 1 /\ (N + 1) - 1 = N
  BY <1>1
<1> HIDE DEF N
<1>7. g[N + 1] = IF N + 1 \in now THEN Append(g[N], e) ELSE g[N]
  BY <1>1, <1>3, <1>6
<1> QED BY <1>2, <1>3, <1>5, <1>7 DEF t, N

\* What is kept is what is kept of it at positions in s.
LEMMA OnlySame ==
  ASSUME NEW S, NEW s \in Seq(S), NEW kept, NEW now,
         \A n \in 1 .. Len(s) : n \in kept <=> n \in now
  PROVE  Only(s, now) = Only(s, kept)
<1>1. CASE s = <<>>
  BY <1>1, OnlyEmpty
<1>2. CASE s # <<>>
  <2>1. PICK r \in Seq(S), e \in S : s = Append(r, e)
    BY <1>2, SequenceEmptyOrAppend
  <2>2. Len(s) = Len(r) + 1 /\ Len(r) \in Nat
    BY <2>1, AppendProperties, LenProperties
  <2>3. \A n \in 1 .. Len(r) : (n \in kept <=> n \in now) /\ (n \in kept <=> n \in kept)
    BY <2>2
  <2>4. Only(s, now) = IF Len(r) + 1 \in now THEN Append(Only(r, kept), e) ELSE Only(r, kept)
    BY <2>1, <2>3, OnlyAppend
  <2>5. Only(s, kept) = IF Len(r) + 1 \in kept THEN Append(Only(r, kept), e) ELSE Only(r, kept)
    BY <2>1, <2>3, OnlyAppend
  <2>6. Len(r) + 1 \in 1 .. Len(s)
    BY <2>2
  <2> QED BY <2>4, <2>5, <2>6
<1> QED BY <1>1, <1>2

\* The last list is longer by an element.
Longer(ss, e) == [ss EXCEPT ![Len(ss)] = Append(ss[Len(ss)], e)]

\* The lists stay lists.
LEMMA LongerType ==
  ASSUME NEW S, NEW ss \in Seq(Seq(S)), ss # <<>>, NEW e \in S
  PROVE  Longer(ss, e) \in Seq(Seq(S)) \ {<<>>}
<1>1. Len(ss) \in Nat \ {0} /\ Len(ss) \in 1 .. Len(ss)
  BY EmptySeq
<1>2. ss[Len(ss)] \in Seq(S)
  BY <1>1, ElementOfSeq
<1>3. Append(ss[Len(ss)], e) \in Seq(S)
  BY <1>2, AppendProperties
<1>4. Longer(ss, e) \in Seq(Seq(S)) /\ Len(Longer(ss, e)) = Len(ss)
  BY <1>1, <1>3, ExceptSeq DEF Longer
<1> QED BY <1>1, <1>4, EmptySeq

\* The last list is the one behind those that are done.
LEMMA LongerLast ==
  ASSUME NEW S, NEW done \in Seq(Seq(S)), NEW last \in Seq(S), NEW e \in S
  PROVE  Longer(Append(done, last), e) = Append(done, Append(last, e))
<1> DEFINE ss == Append(done, last)
           new == Longer(ss, e)
           t == Append(done, Append(last, e))
<1>1. /\ ss \in Seq(Seq(S)) /\ Len(ss) = Len(done) + 1 /\ Len(done) \in Nat
      /\ ss[Len(done) + 1] = last /\ \A i \in 1 .. Len(done) : ss[i] = done[i]
  BY AppendProperties, LenProperties
<1>2. Append(last, e) \in Seq(S)
  BY AppendProperties
<1>3. /\ t \in Seq(Seq(S)) /\ Len(t) = Len(done) + 1
      /\ (\A i \in 1 .. Len(done) : t[i] = done[i]) /\ t[Len(done) + 1] = Append(last, e)
  BY <1>2, AppendProperties
<1> HIDE DEF ss, t
<1>4. /\ new \in Seq(Seq(S)) /\ Len(new) = Len(ss)
      /\ \A j \in 1 .. Len(ss) : new[j] = IF j = Len(ss) THEN Append(last, e) ELSE ss[j]
  <2>1. Len(ss) \in 1 .. Len(ss) /\ ss[Len(ss)] = last
    BY <1>1
  <2> QED BY <1>1, <1>2, <2>1, ExceptSeq DEF Longer
<1> HIDE DEF new
<1>5. \A i \in 1 .. Len(new) : new[i] = t[i]
  <2> TAKE i \in 1 .. Len(new)
  <2>1. CASE i = Len(ss)
    BY <1>1, <1>3, <1>4, <2>1
  <2>2. CASE i # Len(ss)
    <3>1. i \in 1 .. Len(done) /\ i \in 1 .. Len(ss)
      BY <1>1, <1>4, <2>2
    <3> QED BY <1>1, <1>3, <1>4, <2>2, <3>1
  <2> QED BY <2>1, <2>2
<1>6. new = t
  BY <1>1, <1>3, <1>4, <1>5, SeqEqual
<1> QED BY <1>6 DEF new, t, ss

\* f is what Pieces comes to, element by element.
CutsUp(f, s, cuts) ==
  /\ f[0] = <<<<>>>>
  /\ \A n \in 1 .. Len(s) :
       f[n] = IF n \in cuts THEN Append(f[n - 1], <<>>) ELSE Longer(f[n - 1], s[n])
  /\ Pieces(s, cuts) = f[Len(s)]

\* The pieces, up to the k-th element, are lists, at least one.
LEMMA PiecesExist ==
  ASSUME NEW S, NEW s \in Seq(S), NEW cuts
  PROVE  \E f \in [0 .. Len(s) -> Seq(Seq(S)) \ {<<>>}] : CutsUp(f, s, cuts)
<1> DEFINE N == Len(s)
           V == Seq(Seq(S)) \ {<<>>}
           More(t, n) == IF n \in cuts THEN Append(t, <<>>)
                         ELSE [t EXCEPT ![Len(t)] = Append(t[Len(t)], s[n])]
           G == [z \in V \X (1 .. N) |-> More(z[1], z[2])]
           Recur(f) == [n \in 0 .. N |-> IF n = 0 THEN <<<<>>>> ELSE More(f[n - 1], n)]
           upto == CHOOSE f : f = Recur(f)
<1>1. N \in Nat /\ \A n \in 1 .. N : s[n] \in S
  BY LenProperties
<1>2. \A t \in V, n \in 1 .. N : More(t, n) \in V
  <2> TAKE t \in V, n \in 1 .. N
  <2>1. <<>> \in Seq(S)
    OBVIOUS
  <2>2. Append(t, <<>>) \in V
    BY <2>1, AppendProperties, SMTT(30)
  <2>3. [t EXCEPT ![Len(t)] = Append(t[Len(t)], s[n])] \in V
    BY <1>1, LongerType DEF Longer
  <2> QED BY <2>2, <2>3
<1>0. <<<<>>>> \in V
  OBVIOUS
<1> HIDE DEF V
<1>3. G \in [V \X (1 .. N) -> V]
  <2> HIDE DEF More, N
  <2> QED BY <1>2
<1>4. PICK f \in [0 .. N -> V] : f[0] = <<<<>>>> /\ \A n \in 1 .. N : f[n] = G[<<f[n - 1], n>>]
  <2> HIDE DEF G, N
  <2>2. \E f : Recursion(f, N, V, <<<<>>>>, G)
    BY <1>0, <1>1, <1>3, RecursionExists
  <2> QED BY <2>2 DEF Recursion
<1>5. \A n \in 1 .. N : f[n] = More(f[n - 1], n)
  <2> TAKE n \in 1 .. N
  <2>1. f[n - 1] \in V
    <3> HIDE DEF N
    <3> QED BY <1>1
  <2>2. G[<<f[n - 1], n>>] = More(f[n - 1], n)
    <3> HIDE DEF More, N
    <3> QED BY <2>1
  <2> HIDE DEF G, More
  <2> QED BY <1>4, <2>2
<1> HIDE DEF G
<1>6. f = Recur(f)
  <2>1. \A n \in 0 .. N : n = 0 \/ n \in 1 .. N
    BY <1>1
  <2> HIDE DEF More, N
  <2> QED BY <1>4, <1>5, <2>1
<1>7. upto = Recur(upto)
  <2> HIDE DEF Recur
  <2> QED BY <1>6
<1>8. Pieces(s, cuts) = upto[N]
  BY DEF Pieces
<1> HIDE DEF upto
<1>9. upto[0] = <<<<>>>> /\ \A n \in 1 .. N : upto[n] = More(upto[n - 1], n)
  <2>1. 0 \in 0 .. N /\ \A n \in 1 .. N : n \in 0 .. N /\ n # 0
    BY <1>1
  <2> HIDE DEF More, N
  <2> QED BY <1>7, <2>1
<1>10. \A n \in 0 .. N : upto[n] \in V
  <2>1. upto[0] \in V
    BY <1>0, <1>9
  <2>2. \A n \in 1 .. N : upto[n - 1] \in V => upto[n] \in V
    <3> HIDE DEF More, N
    <3> QED BY <1>2, <1>9
  <2> HIDE DEF N
  <2> QED BY <1>1, <2>1, <2>2, StaysIn
<1>11. upto \in [0 .. N -> V]
  <2>1. upto = [n \in 0 .. N |-> upto[n]]
    <3> HIDE DEF More, N
    <3> QED BY <1>7
  <2> HIDE DEF N
  <2> QED BY <1>10, <2>1
<1> QED BY <1>8, <1>9, <1>11 DEF V, CutsUp, Longer

\* The pieces of a list are lists, at least one.
LEMMA PiecesType ==
  ASSUME NEW S, NEW s \in Seq(S), NEW cuts
  PROVE  Pieces(s, cuts) \in Seq(Seq(S)) \ {<<>>}
<1>1. \E f \in [0 .. Len(s) -> Seq(Seq(S)) \ {<<>>}] : Pieces(s, cuts) = f[Len(s)]
  <2>1. \E f \in [0 .. Len(s) -> Seq(Seq(S)) \ {<<>>}] : CutsUp(f, s, cuts)
    BY PiecesExist
  <2> QED BY <2>1 DEF CutsUp
<1>2. Len(s) \in 0 .. Len(s)
  BY LenProperties
<1> QED BY <1>1, <1>2

\* Nothing is one piece, an empty one.
LEMMA PiecesEmpty == \A cuts : Pieces(<<>>, cuts) = <<<<>>>>
<1> SUFFICES ASSUME NEW s \in Seq({}), s = <<>>, NEW cuts PROVE Pieces(s, cuts) = <<<<>>>>
  BY EmptySeq
<1>1. \E f \in [0 .. Len(s) -> Seq(Seq({})) \ {<<>>}] : CutsUp(f, s, cuts)
  BY PiecesExist
<1>2. Len(s) = 0
  OBVIOUS
<1> QED BY <1>1, <1>2 DEF CutsUp

\* The last one begins a piece, or ends the last.
LEMMA PiecesAppend ==
  ASSUME NEW S, NEW s \in Seq(S), NEW e \in S, NEW cuts, NEW now,
         \A n \in 1 .. Len(s) : n \in cuts <=> n \in now
  PROVE  Pieces(Append(s, e), now) =
           IF Len(s) + 1 \in now THEN Append(Pieces(s, cuts), <<>>) ELSE Longer(Pieces(s, cuts), e)
<1> DEFINE t == Append(s, e)
           N == Len(s)
           V == Seq(Seq(S)) \ {<<>>}
<1>1. t \in Seq(S) /\ Len(t) = N + 1 /\ N \in Nat /\ (\A i \in 1 .. N : t[i] = s[i]) /\ t[N + 1] = e
  BY AppendProperties, LenProperties
<1>2. PICK f \in [0 .. N -> V] :
        /\ f[0] = <<<<>>>>
        /\ \A n \in 1 .. N : f[n] = IF n \in cuts THEN Append(f[n - 1], <<>>) ELSE Longer(f[n - 1], s[n])
        /\ Pieces(s, cuts) = f[N]
  <2>1. \E f \in [0 .. Len(s) -> V] : CutsUp(f, s, cuts)
    BY PiecesExist
  <2> HIDE DEF V
  <2> QED BY <2>1 DEF CutsUp
<1> HIDE DEF t
<1>3. PICK g \in [0 .. N + 1 -> V] :
        /\ g[0] = <<<<>>>>
        /\ \A n \in 1 .. N + 1 : g[n] = IF n \in now THEN Append(g[n - 1], <<>>) ELSE Longer(g[n - 1], t[n])
        /\ Pieces(t, now) = g[N + 1]
  <2>1. \E g \in [0 .. Len(t) -> V] : CutsUp(g, t, now)
    BY <1>1, PiecesExist
  <2> HIDE DEF N, V
  <2> QED BY <1>1, <2>1 DEF CutsUp
<1> DEFINE T == {n \in 0 .. N : f[n] = g[n]}
<1>4. \A n \in 0 .. N : n \in T
  <2>1. 0 \in T
    <3>1. 0 \in 0 .. N
      BY <1>1
    <3> HIDE DEF N, V
    <3> QED BY <1>2, <1>3, <3>1
  <2> HIDE DEF V
  <2>2. ASSUME NEW n \in 1 .. N, n - 1 \in T PROVE n \in T
    <3>1. n \in 0 .. N /\ n \in 1 .. N + 1 /\ f[n - 1] = g[n - 1] /\ (n \in cuts <=> n \in now)
      BY <1>1, <2>2
    <3>2. f[n] = IF n \in cuts THEN Append(f[n - 1], <<>>) ELSE Longer(f[n - 1], s[n])
      BY <1>2
    <3>3. g[n] = IF n \in now THEN Append(g[n - 1], <<>>) ELSE Longer(g[n - 1], t[n])
      BY <1>3, <3>1
    <3>4. t[n] = s[n]
      BY <1>1
    <3> QED BY <3>1, <3>2, <3>3, <3>4
  <2> HIDE DEF T, N
  <2> QED BY <1>1, <2>1, <2>2, IntervalInduction
<1>5. f[N] = g[N]
  BY <1>1, <1>4
<1>6. N + 1 \in 1 .. N + 1 /\ (N + 1) - 1 = N
  BY <1>1
<1>7. g[N + 1] = IF N + 1 \in now THEN Append(g[N], <<>>) ELSE Longer(g[N], e)
  <2> HIDE DEF N, V
  <2> QED BY <1>1, <1>3, <1>6
<1> HIDE DEF N, V
<1> QED BY <1>2, <1>3, <1>5, <1>7 DEF t, N

(***************************************************************************)
(* Quotes.                                                                 *)
(***************************************************************************)
\* There is a quote more with each.
LEMMA QuotesStep ==
  ASSUME NEW s, NEW i \in Nat \ {0}
  PROVE  /\ Quotes(s, 1) = 0
         /\ Quotes(s, i) \in Nat
         /\ Quotes(s, i + 1) = IF s[i] = Quote THEN Quotes(s, i) + 1 ELSE Quotes(s, i)
<1> DEFINE Q(n) == {j \in 1 .. n - 1 : s[j] = Quote}
<1>1. \A n \in Nat \ {0} : IsFiniteSet(Q(n)) /\ Cardinality(Q(n)) \in Nat
  <2> TAKE n \in Nat \ {0}
  <2>1. IsFiniteSet(1 .. n - 1)
    BY FS_Interval
  <2>2. Q(n) \subseteq 1 .. n - 1
    OBVIOUS
  <2> HIDE DEF Q
  <2> QED BY <2>1, <2>2, FS_Subset, FS_CardinalityType
<1>2. Q(1) = {}
  OBVIOUS
<1>3. CASE s[i] = Quote
  <2>1. Q(i + 1) = Q(i) \cup {i} /\ i \notin Q(i)
    BY <1>3
  <2> HIDE DEF Q
  <2>2. Cardinality(Q(i + 1)) = Cardinality(Q(i)) + 1
    BY <1>1, <2>1, FS_AddElement
  <2> QED BY <1>1, <1>2, <1>3, <2>2, FS_EmptySet DEF Quotes, Q
<1>4. CASE s[i] # Quote
  <2>1. Q(i + 1) = Q(i)
    <3>1. \A j \in 1 .. (i + 1) - 1 : j = i \/ j \in 1 .. i - 1
      OBVIOUS
    <3>2. \A j \in 1 .. i - 1 : j \in 1 .. (i + 1) - 1
      OBVIOUS
    <3> QED BY <1>4, <3>1, <3>2
  <2> HIDE DEF Q
  <2> QED BY <1>1, <1>2, <1>4, <2>1, FS_EmptySet DEF Quotes, Q
<1> QED BY <1>3, <1>4

\* A quote leads into quotes or out of them.
LEMMA InsideStep ==
  ASSUME NEW s, NEW i \in Nat \ {0}
  PROVE  /\ ~Inside(s, 1)
         /\ Inside(s, i + 1) <=> IF s[i] = Quote THEN ~Inside(s, i) ELSE Inside(s, i)
<1>1. ~Inside(s, 1)
  BY QuotesStep DEF Inside
<1>2. Inside(s, i + 1) <=> IF s[i] = Quote THEN ~Inside(s, i) ELSE Inside(s, i)
  <2> DEFINE a == Quotes(s, i)
             b == Quotes(s, i + 1)
  <2>1. a \in Nat /\ b = IF s[i] = Quote THEN a + 1 ELSE a
    BY QuotesStep
  <2> HIDE DEF a, b
  <2>2. (a + 1) % 2 = 1 <=> ~(a % 2 = 1)
    BY <2>1
  <2>3. b % 2 = 1 <=> IF s[i] = Quote THEN ~(a % 2 = 1) ELSE a % 2 = 1
    BY <2>1, <2>2
  <2> QED BY <2>3 DEF a, b, Inside
<1> QED BY <1>1, <1>2

\* Nothing that comes later matters.
LEMMA InsideSame ==
  ASSUME NEW s, NEW t, NEW n \in Nat, \A j \in 1 .. n : s[j] = t[j]
  PROVE  \A i \in 1 .. n + 1 : Inside(s, i) <=> Inside(t, i)
<1> TAKE i \in 1 .. n + 1
<1>1. \A j \in 1 .. i - 1 : j \in 1 .. n
  OBVIOUS
<1>2. {j \in 1 .. i - 1 : s[j] = Quote} = {j \in 1 .. i - 1 : t[j] = Quote}
  BY <1>1
<1> QED BY <1>2 DEF Inside, Quotes

\* A quote is open at the end.
Odd(s) == Inside(s, Len(s) + 1)

\* Nothing opens no quote.
LEMMA OddEmpty == ~Odd(<<>>)
<1>1. Len(<<>>) + 1 = 1
  BY EmptySeq
<1> QED BY <1>1, InsideStep DEF Odd

\* A quote at the end changes what is open there, and nothing before it.
LEMMA OddAppend ==
  ASSUME NEW S, NEW s \in Seq(S), NEW e \in S
  PROVE  /\ \A i \in 1 .. Len(s) + 1 : Inside(Append(s, e), i) <=> Inside(s, i)
         /\ Odd(Append(s, e)) <=> IF e = Quote THEN ~Odd(s) ELSE Odd(s)
<1> DEFINE t == Append(s, e)
           N == Len(s)
<1>1. N \in Nat /\ Len(t) = N + 1 /\ (\A i \in 1 .. N : t[i] = s[i]) /\ t[N + 1] = e
  BY AppendProperties, LenProperties
<1> HIDE DEF t, N
<1>2. \A i \in 1 .. N + 1 : Inside(t, i) <=> Inside(s, i)
  BY <1>1, InsideSame
<1>3. N + 1 \in Nat \ {0} /\ N + 1 \in 1 .. N + 1
  BY <1>1
<1>4. Inside(t, (N + 1) + 1) <=> IF t[N + 1] = Quote THEN ~Inside(t, N + 1) ELSE Inside(t, N + 1)
  BY <1>3, InsideStep
<1> QED BY <1>1, <1>2, <1>3, <1>4 DEF Odd, t, N

(***************************************************************************)
(* Lines and fields.                                                       *)
(***************************************************************************)
\* How the lines of a text grow: a line end outside quotes begins one.
LEMMA LinesAppend ==
  ASSUME NEW t \in Text, NEW c \in Symbol,
         NEW done \in Seq(Text), NEW line \in Text, Lines(t) = Append(done, line)
  PROVE  Lines(Append(t, c)) =
           IF c \in LineEnds /\ ~Odd(t) THEN Append(Append(done, line), <<>>)
           ELSE Append(done, Append(line, c))
<1> DEFINE u == Append(t, c)
           N == Len(t)
<1>1. /\ N \in Nat /\ Len(u) = N + 1 /\ (\A i \in 1 .. N : u[i] = t[i]) /\ u[N + 1] = c
      /\ DOMAIN t = 1 .. N /\ DOMAIN u = 1 .. N + 1
  BY AppendProperties, LenProperties DEF Text
<1>2. \A i \in 1 .. N + 1 : Inside(u, i) <=> Inside(t, i)
  BY OddAppend DEF Text
<1> HIDE DEF u, N
<1>3. \A n \in 1 .. N : n \in LineCuts(t) <=> n \in LineCuts(u)
  <2> TAKE n \in 1 .. N
  <2>1. n \in 1 .. N + 1
    BY <1>1
  <2> QED BY <1>1, <1>2, <2>1 DEF LineCuts
<1>4. N + 1 \in LineCuts(u) <=> c \in LineEnds /\ ~Odd(t)
  <2>1. N + 1 \in 1 .. N + 1
    BY <1>1
  <2> QED BY <1>1, <1>2, <2>1 DEF LineCuts, Odd, N
<1>5. Pieces(u, LineCuts(u)) =
        IF N + 1 \in LineCuts(u) THEN Append(Append(done, line), <<>>) ELSE Append(done, Append(line, c))
  <2> DEFINE before == LineCuts(t)
             after == LineCuts(u)
  <2>1. Pieces(t, before) = Append(done, line) /\ t \in Seq(Symbol)
        /\ done \in Seq(Seq(Symbol)) /\ line \in Seq(Symbol)
    BY DEF Lines, Text
  <2>2. \A n \in 1 .. Len(t) : n \in before <=> n \in after
    BY <1>3 DEF N
  <2> HIDE DEF before, after
  <2>3. Pieces(Append(t, c), after) =
          IF Len(t) + 1 \in after THEN Append(Pieces(t, before), <<>>) ELSE Longer(Pieces(t, before), c)
    <3>1. ASSUME NEW x, NEW y, \A n \in 1 .. Len(t) : n \in x <=> n \in y
          PROVE  Pieces(Append(t, c), y) =
                   IF Len(t) + 1 \in y THEN Append(Pieces(t, x), <<>>) ELSE Longer(Pieces(t, x), c)
      BY <2>1, <3>1, PiecesAppend
    <3> QED BY <2>2, <3>1
  <2>4. Longer(Append(done, line), c) = Append(done, Append(line, c))
    BY <2>1, LongerLast
  <2> QED BY <2>1, <2>3, <2>4 DEF u, N, after
<1> QED BY <1>4, <1>5 DEF Lines, u

\* How the fields of a line grow: a delimiter outside quotes begins one.
LEMMA FieldsAppend ==
  ASSUME NEW line \in Text, NEW c \in Symbol,
         NEW done \in Seq(Text), NEW raw \in Text, Fields(line) = Append(done, raw)
  PROVE  Fields(Append(line, c)) =
           IF c = Delimiter /\ ~Odd(line) THEN Append(Append(done, raw), <<>>)
           ELSE Append(done, Append(raw, c))
<1> DEFINE u == Append(line, c)
           N == Len(line)
<1>1. /\ N \in Nat /\ Len(u) = N + 1 /\ (\A i \in 1 .. N : u[i] = line[i]) /\ u[N + 1] = c
      /\ DOMAIN line = 1 .. N /\ DOMAIN u = 1 .. N + 1
  BY AppendProperties, LenProperties DEF Text
<1>2. \A i \in 1 .. N + 1 : Inside(u, i) <=> Inside(line, i)
  BY OddAppend DEF Text
<1> HIDE DEF u, N
<1>3. \A n \in 1 .. N : n \in FieldCuts(line) <=> n \in FieldCuts(u)
  <2> TAKE n \in 1 .. N
  <2>1. n \in 1 .. N + 1
    BY <1>1
  <2> QED BY <1>1, <1>2, <2>1 DEF FieldCuts
<1>4. N + 1 \in FieldCuts(u) <=> c = Delimiter /\ ~Odd(line)
  <2>1. N + 1 \in 1 .. N + 1
    BY <1>1
  <2> QED BY <1>1, <1>2, <2>1 DEF FieldCuts, Odd, N
<1>5. Pieces(u, FieldCuts(u)) =
        IF N + 1 \in FieldCuts(u) THEN Append(Append(done, raw), <<>>) ELSE Append(done, Append(raw, c))
  <2> DEFINE before == FieldCuts(line)
             after == FieldCuts(u)
  <2>1. Pieces(line, before) = Append(done, raw) /\ line \in Seq(Symbol)
        /\ done \in Seq(Seq(Symbol)) /\ raw \in Seq(Symbol)
    BY DEF Fields, Text
  <2>2. \A n \in 1 .. Len(line) : n \in before <=> n \in after
    BY <1>3 DEF N
  <2> HIDE DEF before, after
  <2>3. Pieces(Append(line, c), after) =
          IF Len(line) + 1 \in after THEN Append(Pieces(line, before), <<>>) ELSE Longer(Pieces(line, before), c)
    <3>1. ASSUME NEW x, NEW y, \A n \in 1 .. Len(line) : n \in x <=> n \in y
          PROVE  Pieces(Append(line, c), y) =
                   IF Len(line) + 1 \in y THEN Append(Pieces(line, x), <<>>) ELSE Longer(Pieces(line, x), c)
      BY <2>1, <3>1, PiecesAppend
    <3> QED BY <2>2, <3>1
  <2>4. Longer(Append(done, raw), c) = Append(done, Append(raw, c))
    BY <2>1, LongerLast
  <2> QED BY <2>1, <2>3, <2>4 DEF u, N, after
<1> QED BY <1>4, <1>5 DEF Fields, u

\* Nothing is one line of one field, both empty.
LEMMA NoText ==
  /\ Lines(<<>>) = Append(<<>>, <<>>)
  /\ Fields(<<>>) = Append(<<>>, <<>>)
BY PiecesEmpty DEF Lines, Fields

(***************************************************************************)
(* A field as it is read.                                                  *)
(***************************************************************************)
\* The characters that the parser looks for are characters, and differ.
LEMMA Symbols ==
  /\ Quote \in Symbol /\ Cr \in Symbol /\ Lf \in Symbol /\ Delimiter \in Symbol
  /\ Delimiter # Quote /\ Delimiter \notin LineEnds /\ Quote \notin LineEnds
BY ExchangeConstants DEF Quote, Cr, Lf, LineEnds, Whitespace

\* Putting behind one another, and then one more.
LEMMA ConcatAppend ==
  ASSUME NEW S, NEW s \in Seq(S), NEW t \in Seq(S), NEW e \in S
  PROVE  s \o Append(t, e) = Append(s \o t, e)
<1>1. <<e>> \in Seq(S)
  OBVIOUS
<1>2. s \o t \in Seq(S)
  BY ConcatProperties
<1>3. Append(t, e) = t \o <<e>> /\ Append(s \o t, e) = (s \o t) \o <<e>>
  BY <1>2, AppendIsConcat
<1> QED BY <1>1, <1>3, ConcatAssociative

\* Two more are one more, twice.
LEMMA ConcatTwo ==
  ASSUME NEW S, NEW s \in Seq(S), NEW a \in S, NEW b \in S
  PROVE  s \o <<a, b>> = Append(Append(s, a), b)
<1> DEFINE one == <<a>>
           two == Append(one, b)
           t == <<a, b>>
<1>1. one \in Seq(S) /\ Len(one) = 1 /\ one[1] = a
  OBVIOUS
<1>2. t \in Seq(S) /\ Len(t) = 2 /\ t[1] = a /\ t[2] = b
  OBVIOUS
<1> HIDE DEF one, t
<1>3. /\ two \in Seq(S) /\ Len(two) = 2 /\ two[2] = b /\ two[1] = a
  <2>1. /\ two \in Seq(S) /\ Len(two) = Len(one) + 1 /\ two[Len(one) + 1] = b
        /\ \A i \in 1 .. Len(one) : two[i] = one[i]
    <3>1. ASSUME NEW x \in Seq(S)
          PROVE  /\ Append(x, b) \in Seq(S) /\ Len(Append(x, b)) = Len(x) + 1 /\ Append(x, b)[Len(x) + 1] = b
                 /\ \A i \in 1 .. Len(x) : Append(x, b)[i] = x[i]
      BY AppendProperties
    <3> QED BY <1>1, <3>1
  <2> HIDE DEF two
  <2> QED BY <1>1, <2>1
<1> HIDE DEF two
<1>4. \A i \in 1 .. 2 : two[i] = t[i]
  BY <1>2, <1>3
<1>5. two = t
  BY <1>2, <1>3, <1>4, SeqEqual
<1>6. s \o Append(one, b) = Append(s \o one, b)
  BY <1>1, ConcatAppend
<1>7. s \o one = Append(s, a)
  BY AppendIsConcat DEF one
<1> QED BY <1>5, <1>6, <1>7 DEF two, t

\* What is between the quotes of a wrapped field.
Pairs(u) == InPairs(u) /\ ~Odd(u)

\* A field whose quotes are open, with u behind the first.
Opened(u) == <<Quote>> \o u

\* What the parser knows of the field it is in: nothing yet, a bare one, one
\* whose quotes are open, and one whose quotes have been closed.
RawIs(m, raw, v) ==
  \/ m = "none" /\ raw = <<>> /\ v = <<>>
  \/ m = "bare" /\ raw = v /\ raw # <<>> /\ Bare(raw)
  \/ m = "quoted" /\ \E u \in Text : raw = Opened(u) /\ Pairs(u) /\ v = Undoubled(u)
  \/ m = "closed" /\ \E u \in Text : raw = Append(Opened(u), Quote) /\ Pairs(u) /\ v = Undoubled(u)

\* An opened field is the quote, and u behind it.
LEMMA OpenedType ==
  ASSUME NEW u \in Text
  PROVE  /\ Opened(u) \in Text /\ Len(Opened(u)) = Len(u) + 1 /\ Len(u) \in Nat
         /\ Opened(u)[1] = Quote /\ \A i \in 1 .. Len(u) : Opened(u)[i + 1] = u[i]
         /\ \A c \in Symbol : Append(u, c) \in Text /\ Append(Opened(u), c) = Opened(Append(u, c))
<1>1. <<Quote>> \in Seq(Symbol) /\ Len(<<Quote>>) = 1 /\ <<Quote>>[1] = Quote
  BY Symbols
<1>2. u \in Seq(Symbol) /\ Len(u) \in Nat
  BY LenProperties DEF Text
<1> DEFINE q == <<Quote>>
<1> HIDE DEF q
<1>3. /\ q \o u \in Seq(Symbol) /\ Len(q \o u) = Len(q) + Len(u)
      /\ \A i \in 1 .. Len(q) + Len(u) : (q \o u)[i] = IF i <= Len(q) THEN q[i] ELSE u[i - Len(q)]
  BY <1>1, <1>2, ConcatProperties DEF q
<1>4. (q \o u)[1] = Quote /\ \A i \in 1 .. Len(u) : (q \o u)[i + 1] = u[i]
  <2>1. Len(q) = 1 /\ q[1] = Quote
    BY <1>1 DEF q
  <2>2. \A i \in 1 .. Len(u) : i + 1 \in 1 .. 1 + Len(u) /\ ~(i + 1 <= 1) /\ (i + 1) - 1 = i
    BY <1>2
  <2>3. 1 \in 1 .. 1 + Len(u)
    BY <1>2
  <2> QED BY <1>3, <2>1, <2>2, <2>3
<1>5. \A c \in Symbol : Append(u, c) \in Seq(Symbol) /\ Append(q \o u, c) = q \o Append(u, c)
  BY <1>1, <1>2, ConcatAppend, AppendProperties DEF q
<1> QED BY <1>1, <1>2, <1>3, <1>4, <1>5 DEF Opened, Text, q

\* Behind a quote, what was outside quotes is inside.
LEMMA InsideOpened ==
  ASSUME NEW u \in Text
  PROVE  \A i \in 1 .. Len(u) + 1 : Inside(Opened(u), i + 1) <=> ~Inside(u, i)
<1> DEFINE f == Opened(u)
           N == Len(u)
           T == {n \in 0 .. N : Inside(f, n + 2) <=> ~Inside(u, n + 1)}
<1>1. N \in Nat /\ f[1] = Quote /\ \A i \in 1 .. N : f[i + 1] = u[i]
  BY OpenedType
<1> HIDE DEF f, N
<1>2. 0 \in T
  <2>1. ~Inside(u, 1) /\ ~Inside(f, 1)
    BY InsideStep
  <2>2. Inside(f, 1 + 1) <=> IF f[1] = Quote THEN ~Inside(f, 1) ELSE Inside(f, 1)
    BY InsideStep
  <2>3. 1 + 1 = 2 /\ 0 + 2 = 2 /\ 0 + 1 = 1 /\ 0 \in 0 .. N
    BY <1>1
  <2> QED BY <1>1, <2>1, <2>2, <2>3
<1>3. ASSUME NEW n \in 1 .. N, n - 1 \in T PROVE n \in T
  <2>1. n + 1 \in Nat \ {0} /\ n \in Nat \ {0} /\ n \in 0 .. N /\ (n - 1) + 2 = n + 1 /\ (n - 1) + 1 = n
    BY <1>1
  <2>2. Inside(f, n + 1) <=> ~Inside(u, n)
    BY <1>3, <2>1
  <2>3. Inside(f, (n + 1) + 1) <=> IF f[n + 1] = Quote THEN ~Inside(f, n + 1) ELSE Inside(f, n + 1)
    BY <2>1, InsideStep
  <2>4. Inside(u, n + 1) <=> IF u[n] = Quote THEN ~Inside(u, n) ELSE Inside(u, n)
    BY <2>1, InsideStep
  <2>5. (n + 1) + 1 = n + 2 /\ f[n + 1] = u[n]
    BY <1>1, <2>1
  <2>6. Inside(f, n + 2) <=> ~Inside(u, n + 1)
    BY <2>2, <2>3, <2>4, <2>5
  <2> QED BY <2>1, <2>6
<1> HIDE DEF T
<1>4. \A n \in 0 .. N : n \in T
  BY <1>1, <1>2, <1>3, IntervalInduction
<1> SUFFICES ASSUME NEW i \in 1 .. N + 1 PROVE Inside(f, i + 1) <=> ~Inside(u, i)
  BY DEF f, N
<1>5. i - 1 \in 0 .. N /\ (i - 1) + 2 = i + 1 /\ (i - 1) + 1 = i
  BY <1>1
<1> QED BY <1>4, <1>5 DEF T

\* The opening quote is one more.
LEMMA OddOpened ==
  ASSUME NEW u \in Text
  PROVE  Odd(Opened(u)) <=> ~Odd(u)
<1>1. Len(Opened(u)) = Len(u) + 1 /\ Len(u) + 1 \in 1 .. Len(u) + 1
  BY OpenedType
<1>2. Inside(Opened(u), (Len(u) + 1) + 1) <=> ~Inside(u, Len(u) + 1)
  BY <1>1, InsideOpened
<1> QED BY <1>1, <1>2 DEF Odd

\* A bare field has no quotes at all.
LEMMA BareIsEven ==
  ASSUME NEW s \in Text, Bare(s)
  PROVE  ~Odd(s)
<1>1. {j \in 1 .. (Len(s) + 1) - 1 : s[j] = Quote} = {}
  <2>1. DOMAIN s = 1 .. Len(s) /\ Len(s) \in Nat
    BY LenProperties DEF Text
  <2> QED BY <2>1 DEF Bare, Has
<1>2. Quotes(s, Len(s) + 1) = 0
  BY <1>1, FS_EmptySet DEF Quotes
<1> QED BY <1>2 DEF Odd, Inside

\* How the value of a quoted field grows: the second quote of two is dropped.
LEMMA UndoubledAppend ==
  ASSUME NEW u \in Text, NEW c \in Symbol
  PROVE  Undoubled(Append(u, c)) =
           IF c = Quote /\ Odd(u) THEN Undoubled(u) ELSE Append(Undoubled(u), c)
<1> DEFINE t == Append(u, c)
           N == Len(u)
           Kept(s) == {i \in DOMAIN s : ~(s[i] = Quote /\ Inside(s, i))}
<1>1. /\ N \in Nat /\ Len(t) = N + 1 /\ (\A i \in 1 .. N : t[i] = u[i]) /\ t[N + 1] = c
      /\ DOMAIN u = 1 .. N /\ DOMAIN t = 1 .. N + 1 /\ u \in Seq(Symbol)
  BY AppendProperties, LenProperties DEF Text
<1>2. \A i \in 1 .. N + 1 : Inside(t, i) <=> Inside(u, i)
  BY OddAppend DEF Text
<1> HIDE DEF t, N
<1>3. \A n \in 1 .. N : n \in Kept(u) <=> n \in Kept(t)
  <2> TAKE n \in 1 .. N
  <2>1. n \in 1 .. N + 1
    BY <1>1
  <2> QED BY <1>1, <1>2, <2>1
<1>4. N + 1 \in Kept(t) <=> ~(c = Quote /\ Odd(u))
  <2>1. N + 1 \in 1 .. N + 1
    BY <1>1
  <2> QED BY <1>1, <1>2, <2>1 DEF Odd, N
<1>5. \A x, y : (\A n \in 1 .. Len(u) : n \in x <=> n \in y)
                  => Only(Append(u, c), y) = IF Len(u) + 1 \in y THEN Append(Only(u, x), c) ELSE Only(u, x)
  BY <1>1, OnlyAppend
<1>6. Only(Append(u, c), Kept(t)) =
        IF N + 1 \in Kept(t) THEN Append(Only(u, Kept(u)), c) ELSE Only(u, Kept(u))
  BY <1>3, <1>5 DEF N
<1> QED BY <1>4, <1>6 DEF Undoubled, t

\* What the pairs of quotes come to is a text.
LEMMA UndoubledType == \A u \in Text : Undoubled(u) \in Text
BY OnlyType DEF Undoubled, Text

\* Pairs stay pairs when something else than a quote, or two quotes, come.
LEMMA PairsGrow ==
  ASSUME NEW u \in Text, Pairs(u)
  PROVE  /\ \A c \in Symbol \ {Quote} : Pairs(Append(u, c)) /\ Undoubled(Append(u, c)) = Append(Undoubled(u), c)
         /\ Pairs(Append(Append(u, Quote), Quote))
         /\ Undoubled(Append(Append(u, Quote), Quote)) = Append(Undoubled(u), Quote)
<1>1. ASSUME NEW c \in Symbol \ {Quote}
      PROVE  Pairs(Append(u, c)) /\ Undoubled(Append(u, c)) = Append(Undoubled(u), c)
  <2> DEFINE t == Append(u, c)
             N == Len(u)
  <2>1. /\ N \in Nat /\ Len(t) = N + 1 /\ (\A i \in 1 .. N : t[i] = u[i]) /\ t[N + 1] = c
        /\ DOMAIN u = 1 .. N /\ DOMAIN t = 1 .. N + 1
    BY AppendProperties, LenProperties DEF Text
  <2>2. (\A i \in 1 .. N + 1 : Inside(t, i) <=> Inside(u, i)) /\ ~Odd(t)
    BY OddAppend DEF Text, Pairs
  <2>3. Undoubled(t) = Append(Undoubled(u), c)
    BY UndoubledAppend
  <2> HIDE DEF t, N
  <2>4. ASSUME NEW i \in DOMAIN t, t[i] = Quote, ~Inside(t, i) PROVE i < Len(t) /\ t[i + 1] = Quote
    <3>1. i \in 1 .. N
      BY <2>1, <2>4
    <3>2. u[i] = Quote /\ ~Inside(u, i)
      BY <2>1, <2>2, <2>4, <3>1
    <3>3. i < N /\ u[i + 1] = Quote
      BY <2>1, <3>1, <3>2 DEF Pairs, InPairs, N
    <3>4. i + 1 \in 1 .. N
      BY <2>1, <3>1, <3>3
    <3> QED BY <2>1, <3>1, <3>3, <3>4
  <2> QED BY <2>2, <2>3, <2>4 DEF Pairs, InPairs, t
<1>2. Pairs(Append(Append(u, Quote), Quote))
      /\ Undoubled(Append(Append(u, Quote), Quote)) = Append(Undoubled(u), Quote)
  <2> DEFINE s == Append(u, Quote)
             t == Append(s, Quote)
             N == Len(u)
  <2>0. Quote \in Symbol
    BY Symbols
  <2>1. /\ N \in Nat /\ Len(s) = N + 1 /\ (\A i \in 1 .. N : s[i] = u[i]) /\ s[N + 1] = Quote
        /\ DOMAIN u = 1 .. N /\ s \in Seq(Symbol)
    BY <2>0, AppendProperties, LenProperties DEF Text
  <2>2. (\A i \in 1 .. N + 1 : Inside(s, i) <=> Inside(u, i)) /\ Odd(s)
    BY <2>0, OddAppend DEF Text, Pairs
  <2>3. Undoubled(s) = Append(Undoubled(u), Quote)
    BY <2>0, UndoubledAppend DEF Pairs
  <2> HIDE DEF s
  <2>4. /\ Len(t) = N + 2 /\ (\A i \in 1 .. N + 1 : t[i] = s[i]) /\ t[N + 2] = Quote
        /\ DOMAIN t = 1 .. N + 2
    <3>1. Len(t) = Len(s) + 1 /\ (\A i \in 1 .. Len(s) : t[i] = s[i]) /\ t[Len(s) + 1] = Quote
          /\ DOMAIN t = 1 .. Len(t)
      BY <2>0, <2>1, AppendProperties, LenProperties
    <3> HIDE DEF t, N
    <3> QED BY <2>1, <3>1
  <2>5. (\A i \in 1 .. N + 2 : Inside(t, i) <=> Inside(s, i)) /\ ~Odd(t)
    <3>1. (\A i \in 1 .. Len(s) + 1 : Inside(t, i) <=> Inside(s, i)) /\ ~Odd(t)
      BY <2>0, <2>1, <2>2, OddAppend
    <3> HIDE DEF t, N
    <3> QED BY <2>1, <3>1
  <2>6. Undoubled(t) = Undoubled(s)
    BY <2>0, <2>1, <2>2, UndoubledAppend DEF Text
  <2> HIDE DEF t, N
  <2>7. ASSUME NEW i \in DOMAIN t, t[i] = Quote, ~Inside(t, i) PROVE i < Len(t) /\ t[i + 1] = Quote
    <3>1. CASE i = N + 2
      <4>1. Inside(s, N + 2)
        <5>1. Len(s) + 1 = N + 2
          BY <2>1
        <5> QED BY <2>2, <5>1 DEF Odd
      <4> QED BY <2>4, <2>5, <2>7, <3>1, <4>1
    <3>2. CASE i = N + 1
      BY <2>1, <2>4, <3>2
    <3>3. CASE i \in 1 .. N
      <4>1. i \in 1 .. N + 1 /\ i \in 1 .. N + 2
        BY <2>1, <3>3
      <4>2. u[i] = Quote /\ ~Inside(u, i)
        BY <2>1, <2>2, <2>4, <2>5, <2>7, <3>3, <4>1
      <4>3. i < N /\ u[i + 1] = Quote
        BY <2>1, <3>3, <4>2 DEF Pairs, InPairs, N
      <4>4. i + 1 \in 1 .. N /\ i + 1 \in 1 .. N + 1
        BY <2>1, <3>3, <4>3
      <4> QED BY <2>1, <2>4, <4>3, <4>4
    <3> QED BY <2>1, <2>4, <3>1, <3>2, <3>3
  <2> QED BY <2>3, <2>5, <2>6, <2>7 DEF Pairs, InPairs, s, t
<1> QED BY <1>1, <1>2

\* A field as the grammar wants it.
Proper(f) == Bare(f) \/ Wrapped(f)

\* Pairs come to an even number of quotes.
LEMMA InPairsIsEven ==
  ASSUME NEW u \in Text, InPairs(u)
  PROVE  ~Odd(u)
<1> DEFINE N == Len(u)
           T == {n \in 0 .. N : Inside(u, n + 1) => n < N /\ u[n + 1] = Quote}
<1>1. N \in Nat /\ DOMAIN u = 1 .. N
  BY LenProperties DEF Text
<1>2. \A i \in 1 .. N : u[i] = Quote /\ ~Inside(u, i) => i < N /\ u[i + 1] = Quote
  BY <1>1 DEF InPairs
<1> HIDE DEF N
<1>3. 0 \in T
  BY <1>1, InsideStep
<1>4. ASSUME NEW n \in 1 .. N, n - 1 \in T PROVE n \in T
  <2>1. n \in Nat \ {0} /\ n \in 0 .. N /\ (n - 1) + 1 = n
    BY <1>1
  <2>2. Inside(u, n) => u[n] = Quote
    BY <1>4, <2>1
  <2>3. Inside(u, n + 1) <=> IF u[n] = Quote THEN ~Inside(u, n) ELSE Inside(u, n)
    BY <2>1, InsideStep
  <2>4. Inside(u, n + 1) => n < N /\ u[n + 1] = Quote
    BY <1>2, <2>2, <2>3
  <2> QED BY <2>1, <2>4
<1> HIDE DEF T
<1>5. \A n \in 0 .. N : n \in T
  BY <1>1, <1>3, <1>4, IntervalInduction
<1>6. N \in T
  BY <1>1, <1>5
<1>7. ~Inside(u, N + 1)
  BY <1>1, <1>6 DEF T
<1> QED BY <1>7 DEF Odd, N

\* A wrapped field is what the parser calls closed.
LEMMA WrappedIsClosed ==
  ASSUME NEW f \in Text, Wrapped(f)
  PROVE  /\ Inner(f) \in Text /\ Pairs(Inner(f))
         /\ f = Append(Opened(Inner(f)), Quote)
<1> DEFINE N == Len(f)
           u == Inner(f)
           g == Append(Opened(u), Quote)
<1>1. N \in Nat /\ N >= 2 /\ f[1] = Quote /\ f[N] = Quote /\ f \in Seq(Symbol)
      /\ \A i \in 1 .. N : f[i] \in Symbol
  BY LenProperties DEF Wrapped, Text
<1>2. u \in Seq(Symbol) /\ Len(u) = N - 2 /\ \A i \in 1 .. N - 2 : u[i] = f[i + 1]
  <2>1. \A i \in 2 .. N - 1 : f[i] \in Symbol
    BY <1>1
  <2> DEFINE w == SubSeq(f, 2, N - 1)
  <2>2. /\ w \in Seq(Symbol) /\ Len(w) = IF 2 <= N - 1 THEN (N - 1) - 2 + 1 ELSE 0
        /\ \A i \in 1 .. (N - 1) - 2 + 1 : w[i] = f[2 + i - 1]
    <3> HIDE DEF N, w
    <3> QED BY <1>1, <2>1, SubSeqProperties DEF w
  <2> HIDE DEF w, N
  <2>3. \A i \in 1 .. N - 2 : w[i] = f[i + 1]
    BY <1>1, <2>2
  <2>4. Len(w) = N - 2
    BY <1>1, <2>2
  <2> QED BY <2>2, <2>3, <2>4 DEF Inner, w, N
<1>3. u \in Text
  BY <1>2 DEF Text
<1> HIDE DEF N, u
<1>4. /\ Opened(u) \in Seq(Symbol) /\ Len(Opened(u)) = N - 1 /\ Opened(u)[1] = Quote
      /\ \A i \in 1 .. N - 2 : Opened(u)[i + 1] = f[i + 1]
  <2>1. /\ Opened(u) \in Seq(Symbol) /\ Len(Opened(u)) = Len(u) + 1 /\ Opened(u)[1] = Quote
        /\ \A i \in 1 .. Len(u) : Opened(u)[i + 1] = u[i]
    BY <1>3, OpenedType DEF Text
  <2>2. Len(Opened(u)) = N - 1
    BY <1>1, <1>2, <2>1
  <2>3. ASSUME NEW i \in 1 .. N - 2 PROVE Opened(u)[i + 1] = f[i + 1]
    <3>1. i \in 1 .. Len(u) /\ u[i] = f[i + 1]
      BY <1>1, <1>2
    <3> QED BY <2>1, <3>1
  <2> QED BY <2>1, <2>2, <2>3
<1>5. /\ g \in Seq(Symbol) /\ Len(g) = N /\ g[N] = Quote
      /\ \A i \in 1 .. N - 1 : g[i] = Opened(u)[i]
  <2>1. /\ g \in Seq(Symbol) /\ Len(g) = Len(Opened(u)) + 1 /\ g[Len(Opened(u)) + 1] = Quote
        /\ \A i \in 1 .. Len(Opened(u)) : g[i] = Opened(u)[i]
    BY <1>4, Symbols, AppendProperties
  <2> HIDE DEF g
  <2> QED BY <1>1, <1>4, <2>1
<1> HIDE DEF g
<1>6. \A i \in 1 .. N : f[i] = g[i]
  <2> TAKE i \in 1 .. N
  <2>1. CASE i = 1
    BY <1>1, <1>4, <1>5, <2>1
  <2>2. CASE i = N
    BY <1>1, <1>5, <2>2
  <2>3. CASE i # 1 /\ i # N
    <3>1. i - 1 \in 1 .. N - 2 /\ (i - 1) + 1 = i /\ i \in 1 .. N - 1
      BY <1>1, <2>3
    <3> QED BY <1>4, <1>5, <3>1
  <2> QED BY <2>1, <2>2, <2>3
<1>7. f = g
  BY <1>1, <1>5, <1>6, SeqEqual DEF N
<1>8. Pairs(u)
  BY <1>3, InPairsIsEven DEF Wrapped, Pairs, u
<1> QED BY <1>3, <1>7, <1>8 DEF u, g

\* A field whose quotes have been closed is wrapped.
LEMMA ClosedIsWrapped ==
  ASSUME NEW u \in Text, Pairs(u)
  PROVE  /\ Append(Opened(u), Quote) \in Text
         /\ Wrapped(Append(Opened(u), Quote)) /\ Inner(Append(Opened(u), Quote)) = u
         /\ ~Bare(Append(Opened(u), Quote))
         /\ ~Odd(Append(Opened(u), Quote))
<1> DEFINE f == Append(Opened(u), Quote)
           N == Len(u)
           w == Inner(f)
<1>1. /\ Opened(u) \in Seq(Symbol) /\ Len(Opened(u)) = N + 1 /\ Opened(u)[1] = Quote /\ N \in Nat
      /\ \A i \in 1 .. N : Opened(u)[i + 1] = u[i]
  BY OpenedType DEF Text
<1>2. /\ f \in Seq(Symbol) /\ Len(f) = Len(Opened(u)) + 1 /\ f[Len(Opened(u)) + 1] = Quote
      /\ (\A i \in 1 .. Len(Opened(u)) : f[i] = Opened(u)[i]) /\ DOMAIN f = 1 .. Len(f)
  BY <1>1, Symbols, AppendProperties, LenProperties
<1>3. ~Odd(f)
  BY <1>1, Symbols, OddAppend, OddOpened DEF Pairs
<1> HIDE DEF f, N
<1>4. /\ Len(f) = N + 2 /\ f[1] = Quote /\ f[N + 2] = Quote /\ DOMAIN f = 1 .. N + 2
      /\ \A i \in 1 .. N : f[i + 1] = u[i]
  <2>1. \A i \in 1 .. N : i + 1 \in 1 .. N + 1
    BY <1>1
  <2>2. 1 \in 1 .. N + 1
    BY <1>1
  <2> QED BY <1>1, <1>2, <2>1, <2>2
<1>5. /\ w \in Seq(Symbol) /\ Len(w) = N /\ \A i \in 1 .. N : w[i] = u[i]
  <2>0. \A i \in 1 .. Len(f) : f[i] \in Symbol
    BY <1>2, LenProperties
  <2>1. \A i \in 2 .. Len(f) - 1 : f[i] \in Symbol
    BY <1>1, <1>4, <2>0
  <2> DEFINE x == SubSeq(f, 2, Len(f) - 1)
  <2>2. /\ x \in Seq(Symbol) /\ Len(x) = IF 2 <= Len(f) - 1 THEN (Len(f) - 1) - 2 + 1 ELSE 0
        /\ \A i \in 1 .. (Len(f) - 1) - 2 + 1 : x[i] = f[2 + i - 1]
    BY <1>1, <1>4, <2>1, SubSeqProperties
  <2> HIDE DEF x
  <2>3. \A i \in 1 .. N : x[i] = f[i + 1]
    BY <1>1, <1>4, <2>2
  <2>4. Len(x) = N
    BY <1>1, <1>4, <2>2
  <2> QED BY <1>4, <2>2, <2>3, <2>4 DEF Inner, x
<1>6. w = u
  BY <1>5, SeqEqual DEF Text, N
<1>7. Wrapped(f)
  BY <1>1, <1>4, <1>6 DEF Wrapped, Pairs, w
<1>8. ~Bare(f)
  <2>1. 1 \in 1 .. N + 2
    BY <1>1
  <2> QED BY <1>4, <2>1 DEF Bare, Has
<1> QED BY <1>2, <1>3, <1>6, <1>7, <1>8 DEF f, w, Text

\* What is open at the end of a line is open in its last field alone.
LEMMA ProperIsEven ==
  ASSUME NEW f \in Text, Proper(f)
  PROVE  ~Odd(f)
<1>1. CASE Bare(f)
  BY <1>1, BareIsEven
<1>2. CASE Wrapped(f)
  <2>1. Inner(f) \in Text /\ Pairs(Inner(f)) /\ f = Append(Opened(Inner(f)), Quote)
    BY <1>2, WrappedIsClosed
  <2>2. ~Odd(Append(Opened(Inner(f)), Quote))
    BY <2>1, ClosedIsWrapped
  <2> QED BY <2>1, <2>2
<1> QED BY <1>1, <1>2 DEF Proper

\* The value of a field is a text.
LEMMA ValueType == \A f \in Text : Proper(f) => Value(f) \in Text
<1> SUFFICES ASSUME NEW f \in Text, Proper(f) PROVE Value(f) \in Text
  OBVIOUS
<1>1. CASE Bare(f)
  BY <1>1 DEF Value
<1>2. CASE ~Bare(f)
  <2>1. Inner(f) \in Text
    BY <1>2, WrappedIsClosed DEF Proper
  <2> QED BY <1>2, <2>1, UndoubledType DEF Value
<1> QED BY <1>1, <1>2

\* What the parser makes of a field is its value, and a field with an open quote
\* is none.
LEMMA RawEnds ==
  ASSUME NEW m, NEW raw \in Text, NEW v, RawIs(m, raw, v)
  PROVE  /\ v \in Text /\ (Odd(raw) <=> m = "quoted")
         /\ m # "quoted" => Proper(raw) /\ Value(raw) = v
<1>1. CASE m = "none" /\ raw = <<>> /\ v = <<>>
  <2>1. Bare(<<>>)
    BY DEF Bare, Has
  <2> QED BY <1>1, <2>1, OddEmpty DEF Proper, Value
<1>2. CASE m = "bare" /\ raw = v /\ raw # <<>> /\ Bare(raw)
  BY <1>2, BareIsEven DEF Proper, Value
<1>3. ASSUME m = "quoted", NEW u \in Text, raw = Opened(u), Pairs(u), v = Undoubled(u)
      PROVE  v \in Text /\ Odd(raw)
  BY <1>3, OddOpened, UndoubledType DEF Pairs
<1>4. ASSUME m = "closed", NEW u \in Text, raw = Append(Opened(u), Quote), Pairs(u), v = Undoubled(u)
      PROVE  v \in Text /\ ~Odd(raw) /\ Proper(raw) /\ Value(raw) = v
  BY <1>4, ClosedIsWrapped, UndoubledType DEF Proper, Value
<1> QED BY <1>1, <1>2, <1>3, <1>4 DEF RawIs

\* A quote opens a field that is empty, and closes it; another one right behind
\* it was the first of two.
LEMMA RawGrows ==
  ASSUME NEW m, NEW raw \in Text, NEW v, RawIs(m, raw, v)
  PROVE  /\ m = "quoted" => /\ RawIs("closed", Append(raw, Quote), v)
                            /\ \A c \in Symbol \ {Quote} : RawIs("quoted", Append(raw, c), Append(v, c))
         /\ m = "closed" => RawIs("quoted", Append(raw, Quote), Append(v, Quote))
         /\ m = "none" => RawIs("quoted", Append(raw, Quote), v)
         /\ m \in {"none", "bare"} => \A c \in Symbol \ {Quote} : RawIs("bare", Append(raw, c), Append(v, c))
<1>1. ASSUME m = "quoted"
      PROVE  /\ RawIs("closed", Append(raw, Quote), v)
             /\ \A c \in Symbol \ {Quote} : RawIs("quoted", Append(raw, c), Append(v, c))
  <2>1. PICK u \in Text : raw = Opened(u) /\ Pairs(u) /\ v = Undoubled(u)
    BY <1>1 DEF RawIs
  <2>2. RawIs("closed", Append(raw, Quote), v)
    BY <2>1 DEF RawIs
  <2>3. ASSUME NEW c \in Symbol \ {Quote} PROVE RawIs("quoted", Append(raw, c), Append(v, c))
    <3>1. Append(u, c) \in Text /\ Append(raw, c) = Opened(Append(u, c))
      BY <2>1, OpenedType
    <3>2. Pairs(Append(u, c)) /\ Undoubled(Append(u, c)) = Append(v, c)
      BY <2>1, PairsGrow
    <3> QED BY <3>1, <3>2 DEF RawIs
  <2> QED BY <2>2, <2>3
<1>2. ASSUME m = "closed" PROVE RawIs("quoted", Append(raw, Quote), Append(v, Quote))
  <2>1. PICK u \in Text : raw = Append(Opened(u), Quote) /\ Pairs(u) /\ v = Undoubled(u)
    BY <1>2 DEF RawIs
  <2>2. Append(u, Quote) \in Text /\ Append(Opened(u), Quote) = Opened(Append(u, Quote))
    BY Symbols, OpenedType
  <2> DEFINE w == Append(Append(u, Quote), Quote)
  <2>3. w \in Text /\ Append(raw, Quote) = Opened(w)
    BY <2>1, <2>2, Symbols, OpenedType
  <2>4. Pairs(w) /\ Undoubled(w) = Append(v, Quote)
    BY <2>1, PairsGrow
  <2> HIDE DEF w
  <2> QED BY <2>3, <2>4 DEF RawIs
<1>3. ASSUME m = "none" PROVE RawIs("quoted", Append(raw, Quote), v)
  <2>1. raw = <<>> /\ v = <<>> /\ <<>> \in Text
    BY <1>3, EmptySeq DEF RawIs, Text
  <2>2. Pairs(<<>>)
    BY OddEmpty DEF Pairs, InPairs
  <2>3. Undoubled(<<>>) = <<>>
    BY OnlyEmpty DEF Undoubled
  <2>4. Append(raw, Quote) = Opened(<<>>)
    <3>1. <<Quote>> \in Seq(Symbol)
      BY Symbols
    <3>2. <<Quote>> \o <<>> = <<Quote>>
      BY <3>1, ConcatEmptySeq
    <3> QED BY <2>1, <3>2 DEF Opened
  <2> QED BY <2>1, <2>2, <2>3, <2>4 DEF RawIs
<1>4. ASSUME m \in {"none", "bare"}, NEW c \in Symbol \ {Quote}
      PROVE  RawIs("bare", Append(raw, c), Append(v, c))
  <2>1. raw = v /\ Bare(raw)
    BY <1>4 DEF RawIs, Bare, Has
  <2>2. Append(raw, c) # <<>> /\ Len(Append(raw, c)) = Len(raw) + 1 /\ Len(raw) \in Nat
        /\ (\A i \in 1 .. Len(raw) : Append(raw, c)[i] = raw[i]) /\ Append(raw, c)[Len(raw) + 1] = c
        /\ DOMAIN raw = 1 .. Len(raw) /\ DOMAIN Append(raw, c) = 1 .. Len(raw) + 1
    BY AppendProperties, LenProperties DEF Text
  <2>3. Bare(Append(raw, c))
    BY <2>1, <2>2 DEF Bare, Has
  <2> QED BY <2>1, <2>2, <2>3 DEF RawIs
<1> QED BY <1>1, <1>2, <1>3, <1>4

(***************************************************************************)
(* A row as it is read.                                                    *)
(***************************************************************************)
\* The values of cells.
RowOf(cells) == [n \in DOMAIN cells |-> Value(cells[n])]

\* Every cell that is done is one of the grammar.
AllProper(cells) == \A n \in DOMAIN cells : Proper(cells[n])

\* A cell more is a value more.
LEMMA RowOfAppend ==
  ASSUME NEW cells \in Seq(Text), AllProper(cells), NEW raw \in Text, Proper(raw)
  PROVE  /\ RowOf(cells) \in Seq(Text) /\ RowOf(Append(cells, raw)) \in Seq(Text)
         /\ RowOf(Append(cells, raw)) = Append(RowOf(cells), Value(raw))
         /\ AllProper(Append(cells, raw))
<1> DEFINE t == Append(cells, raw)
           N == Len(cells)
           r == RowOf(cells)
           s == RowOf(t)
<1>1. /\ N \in Nat /\ Len(t) = N + 1 /\ (\A i \in 1 .. N : t[i] = cells[i]) /\ t[N + 1] = raw
      /\ DOMAIN cells = 1 .. N /\ t \in Seq(Text) /\ \A i \in 1 .. N : cells[i] \in Text
  BY AppendProperties, LenProperties
<1>2. DOMAIN t = 1 .. N + 1
  BY <1>1, LenProperties
<1> HIDE DEF t, N
<1>3. Value(raw) \in Text /\ \A i \in 1 .. N : Value(cells[i]) \in Text
  BY <1>1, ValueType DEF AllProper
<1>4. r \in Seq(Text) /\ Len(r) = N /\ \A i \in 1 .. N : r[i] = Value(cells[i])
  <2>1. r \in [1 .. N -> Text]
    BY <1>1, <1>3 DEF RowOf
  <2> QED BY <1>1, <2>1 DEF RowOf
<1>5. s \in Seq(Text) /\ Len(s) = N + 1 /\ (\A i \in 1 .. N : s[i] = Value(cells[i])) /\ s[N + 1] = Value(raw)
  <2>1. \A i \in 1 .. N + 1 : Value(t[i]) \in Text
    <3> TAKE i \in 1 .. N + 1
    <3>1. i \in 1 .. N \/ i = N + 1
      BY <1>1
    <3> QED BY <1>1, <1>3, <3>1
  <2>2. s \in [1 .. N + 1 -> Text] /\ \A i \in 1 .. N + 1 : s[i] = Value(t[i])
    BY <1>2, <2>1 DEF RowOf
  <2>3. N + 1 \in 1 .. N + 1 /\ \A i \in 1 .. N : i \in 1 .. N + 1
    BY <1>1
  <2>4. s \in Seq(Text) /\ Len(s) = N + 1
    BY <1>1, <2>2
  <2> QED BY <1>1, <2>2, <2>3, <2>4
<1> HIDE DEF r, s
<1> DEFINE w == Append(r, Value(raw))
<1>6. /\ w \in Seq(Text) /\ Len(w) = N + 1
      /\ (\A i \in 1 .. N : w[i] = r[i]) /\ w[N + 1] = Value(raw)
  BY <1>3, <1>4, AppendProperties
<1> HIDE DEF w
<1>7. \A i \in 1 .. N + 1 : s[i] = w[i]
  <2> TAKE i \in 1 .. N + 1
  <2>1. i \in 1 .. N \/ i = N + 1
    BY <1>1
  <2> QED BY <1>4, <1>5, <1>6, <2>1
<1>8. s = w
  BY <1>5, <1>6, <1>7, SeqEqual
<1>9. AllProper(t)
  <2> SUFFICES ASSUME NEW i \in 1 .. N + 1 PROVE Proper(t[i])
    BY <1>2 DEF AllProper
  <2>1. i \in 1 .. N \/ i = N + 1
    BY <1>1
  <2> QED BY <1>1, <2>1 DEF AllProper
<1> QED BY <1>4, <1>5, <1>8, <1>9 DEF r, s, t, w

\* No cells are no values.
LEMMA NoCells == AllProper(<<>>) /\ RowOf(<<>>) = <<>>
BY DEF AllProper, RowOf

\* Lines in terms of cells.
LEMMA LineIsRow ==
  ASSUME NEW line \in Text
  PROVE  /\ Fields(line) \in Seq(Text) \ {<<>>}
         /\ Values(line) = RowOf(Fields(line))
         /\ Regular(line) <=> AllProper(Fields(line))
<1>1. Fields(line) \in Seq(Text) \ {<<>>}
  BY PiecesType DEF Fields, Text
<1>2. Regular(line) <=> AllProper(Fields(line))
  BY DEF Regular, AllProper, Proper, ToSet
<1> QED BY <1>1, <1>2 DEF Values, RowOf

\* A line has values, at least one, and they are texts.
LEMMA ValuesType ==
  ASSUME NEW line \in Text, Regular(line)
  PROVE  Values(line) \in Seq(Text) \ {<<>>}
<1>1. PICK cells \in Seq(Text), raw \in Text : Fields(line) = Append(cells, raw)
  BY LineIsRow, SequenceEmptyOrAppend
<1>2. AllProper(Append(cells, raw)) /\ Append(cells, raw) \in Seq(Text)
  BY <1>1, LineIsRow
<1>3. AllProper(cells) /\ Proper(raw)
  <2>1. /\ Len(cells) \in Nat /\ Len(Append(cells, raw)) = Len(cells) + 1 /\ Append(cells, raw)[Len(cells) + 1] = raw
        /\ DOMAIN cells = 1 .. Len(cells) /\ \A i \in 1 .. Len(cells) : Append(cells, raw)[i] = cells[i]
    BY AppendProperties, LenProperties
  <2>2. DOMAIN Append(cells, raw) = 1 .. Len(cells) + 1
    BY <1>2, <2>1, LenProperties
  <2> QED BY <1>2, <2>1, <2>2 DEF AllProper
<1>4. Values(line) = Append(RowOf(cells), Value(raw)) /\ RowOf(cells) \in Seq(Text)
  BY <1>1, <1>3, LineIsRow, RowOfAppend
<1> QED BY <1>3, <1>4, ValueType, AppendProperties

\* finishRow
Rowed(rs, r, v) == IF r = <<>> /\ v = <<>> THEN rs ELSE Append(rs, Append(r, v))

\* Every line that is done is one of the grammar.
AllRegular(done) == \A n \in DOMAIN done : Regular(done[n])

\* A line more is a row more, unless it is a single empty value.
LEMMA RowsOfAppend ==
  ASSUME NEW done \in Seq(Text), AllRegular(done), NEW line \in Text, Regular(line)
  PROVE  /\ RowsOf(Append(done, line)) =
              IF Values(line) = <<<<>>>> THEN RowsOf(done) ELSE Append(RowsOf(done), Values(line))
         /\ AllRegular(Append(done, line))
         /\ RowsOf(done) \in Seq(Seq(Text))
<1> DEFINE t == Append(done, line)
           N == Len(done)
           r == [l \in DOMAIN done |-> Values(done[l])]
           s == [l \in DOMAIN t |-> Values(t[l])]
           Kept(x) == {l \in DOMAIN x : x[l] # <<<<>>>>}
<1>1. /\ N \in Nat /\ Len(t) = N + 1 /\ (\A i \in 1 .. N : t[i] = done[i]) /\ t[N + 1] = line
      /\ DOMAIN done = 1 .. N /\ t \in Seq(Text) /\ \A i \in 1 .. N : done[i] \in Text
  BY AppendProperties, LenProperties
<1>2. DOMAIN t = 1 .. N + 1
  BY <1>1, LenProperties
<1> HIDE DEF t, N
<1>3. Values(line) \in Seq(Text) /\ \A i \in 1 .. N : Values(done[i]) \in Seq(Text)
  BY <1>1, ValuesType DEF AllRegular
<1>4. r \in Seq(Seq(Text)) /\ Len(r) = N /\ (\A i \in 1 .. N : r[i] = Values(done[i])) /\ DOMAIN r = 1 .. N
  <2>1. r \in [1 .. N -> Seq(Text)]
    BY <1>1, <1>3
  <2> QED BY <1>1, <2>1
<1>5. s \in Seq(Seq(Text)) /\ Len(s) = N + 1 /\ (\A i \in 1 .. N : s[i] = Values(done[i])) /\ s[N + 1] = Values(line)
      /\ DOMAIN s = 1 .. N + 1
  <2>1. \A i \in 1 .. N + 1 : Values(t[i]) \in Seq(Text)
    <3> TAKE i \in 1 .. N + 1
    <3>1. i \in 1 .. N \/ i = N + 1
      BY <1>1
    <3> QED BY <1>1, <1>3, <3>1
  <2>2. s \in [1 .. N + 1 -> Seq(Text)] /\ \A i \in 1 .. N + 1 : s[i] = Values(t[i])
    BY <1>2, <2>1
  <2>3. N + 1 \in 1 .. N + 1 /\ \A i \in 1 .. N : i \in 1 .. N + 1
    BY <1>1
  <2>4. s \in Seq(Seq(Text)) /\ Len(s) = N + 1
    BY <1>1, <2>2
  <2> QED BY <1>1, <2>2, <2>3, <2>4
<1>6. RowsOf(done) = Only(r, Kept(r)) /\ RowsOf(t) = Only(s, Kept(s))
  BY DEF RowsOf
<1> HIDE DEF r, s
<1> DEFINE w == Append(r, Values(line))
<1>7. /\ w \in Seq(Seq(Text)) /\ Len(w) = N + 1
      /\ (\A i \in 1 .. N : w[i] = r[i]) /\ w[N + 1] = Values(line)
  BY <1>3, <1>4, AppendProperties
<1>8. s = w
  <2> HIDE DEF w
  <2>1. \A i \in 1 .. N + 1 : s[i] = w[i]
    <3> TAKE i \in 1 .. N + 1
    <3>1. i \in 1 .. N \/ i = N + 1
      BY <1>1
    <3> QED BY <1>4, <1>5, <1>7, <3>1
  <2> QED BY <1>5, <1>7, <2>1, SeqEqual
<1>9. \A n \in 1 .. N : n \in Kept(r) <=> n \in Kept(s)
  <2> TAKE n \in 1 .. N
  <2>1. n \in 1 .. N + 1 /\ r[n] = s[n]
    BY <1>1, <1>4, <1>5
  <2> QED BY <1>4, <1>5, <2>1
<1>10. N + 1 \in Kept(s) <=> Values(line) # <<<<>>>>
  <2>1. N + 1 \in 1 .. N + 1
    BY <1>1
  <2> QED BY <1>5, <2>1
<1>11. \A a \in Seq(Seq(Text)), e \in Seq(Text) : \A x, y :
         (\A n \in 1 .. Len(a) : n \in x <=> n \in y)
           => Only(Append(a, e), y) = IF Len(a) + 1 \in y THEN Append(Only(a, x), e) ELSE Only(a, x)
  BY OnlyAppend
<1>12. Only(s, Kept(s)) = IF N + 1 \in Kept(s) THEN Append(Only(r, Kept(r)), Values(line)) ELSE Only(r, Kept(r))
  <2>1. r \in Seq(Seq(Text)) /\ Values(line) \in Seq(Text) /\ Len(r) = N
    BY <1>3, <1>4
  <2>2. ASSUME NEW x, NEW y, \A n \in 1 .. N : n \in x <=> n \in y
        PROVE  Only(w, y) = IF N + 1 \in y THEN Append(Only(r, x), Values(line)) ELSE Only(r, x)
    BY <1>11, <2>1, <2>2
  <2> HIDE DEF w, Kept
  <2> QED BY <1>8, <1>9, <2>2
<1>13. AllRegular(t)
  <2> SUFFICES ASSUME NEW i \in 1 .. N + 1 PROVE Regular(t[i])
    BY <1>2 DEF AllRegular
  <2>1. i \in 1 .. N \/ i = N + 1
    BY <1>1
  <2> QED BY <1>1, <2>1 DEF AllRegular
<1>14. RowsOf(done) \in Seq(Seq(Text))
  BY <1>4, <1>6, OnlyType
<1> QED BY <1>6, <1>10, <1>12, <1>13, <1>14 DEF t

\* No lines are no rows.
LEMMA NoLines == AllRegular(<<>>) /\ RowsOf(<<>>) = <<>>
<1>1. RowsOf(<<>>) = <<>>
  <2>1. [l \in DOMAIN <<>> |-> Values(<<>>[l])] = <<>>
    OBVIOUS
  <2> QED BY <2>1, OnlyEmpty DEF RowsOf
<1> QED BY <1>1 DEF AllRegular

(***************************************************************************)
(* A text as it is read: what the parser knows of t when it has read it.   *)
(***************************************************************************)
\* t is lines that are done and one that is not, and that one is cells that are
\* done and one that is not.
Parts(t, done, line, cells, raw) ==
  /\ Lines(t) = Append(done, line) /\ Fields(line) = Append(cells, raw)
  /\ Odd(t) <=> Odd(raw)
  /\ Odd(line) <=> Odd(raw)

\* The rows and the cells that are done.
Known(done, cells, r, rs) ==
  /\ AllRegular(done) /\ rs = RowsOf(done)
  /\ AllProper(cells) /\ r = RowOf(cells)

\* All of this together, and what is known of the field that is not done.
ReadAs(t, done, line, cells, raw, m, v, r, rs) ==
  Parts(t, done, line, cells, raw) /\ Known(done, cells, r, rs) /\ RawIs(m, raw, v)

\* When t has been read, the rows that are done are rs, the values of the row that
\* is not done are r, and the field that is not done has come to v, in state m.
Reads(t, m, v, r, rs) ==
  \E done \in Seq(Text), line \in Text, cells \in Seq(Text), raw \in Text :
    ReadAs(t, done, line, cells, raw, m, v, r, rs)

\* Before anything is read.
LEMMA ReadsNothing == Reads(<<>>, "none", <<>>, <<>>, <<>>)
<1>1. <<>> \in Text /\ <<>> \in Seq(Text)
  BY EmptySeq DEF Text
<1>2. Parts(<<>>, <<>>, <<>>, <<>>, <<>>)
  BY NoText, OddEmpty DEF Parts
<1> QED BY <1>1, <1>2, NoCells, NoLines DEF Reads, ReadAs, Known, RawIs

\* A character that separates nothing.
LEMMA PartsGrow ==
  ASSUME NEW t \in Text, NEW done \in Seq(Text), NEW line \in Text, NEW cells \in Seq(Text), NEW raw \in Text,
         Parts(t, done, line, cells, raw),
         NEW c \in Symbol, Odd(raw) \/ c \notin {Delimiter} \cup LineEnds
  PROVE  Parts(Append(t, c), done, Append(line, c), cells, Append(raw, c)) /\ Append(line, c) \in Text
         /\ Append(raw, c) \in Text
<1>1. Append(line, c) \in Text /\ Append(raw, c) \in Text
  BY AppendProperties DEF Text
<1>2. Lines(Append(t, c)) = Append(done, Append(line, c))
  BY LinesAppend DEF Parts
<1>3. Fields(Append(line, c)) = Append(cells, Append(raw, c))
  <2>1. ~(c = Delimiter /\ ~Odd(line)) /\ Fields(line) = Append(cells, raw)
    BY DEF Parts
  <2> QED BY <2>1, FieldsAppend
<1>4. (Odd(Append(t, c)) <=> Odd(Append(raw, c))) /\ (Odd(Append(line, c)) <=> Odd(Append(raw, c)))
  BY OddAppend DEF Parts, Text
<1> QED BY <1>1, <1>2, <1>3, <1>4 DEF Parts

\* A delimiter ends the field.
LEMMA PartsDelimiter ==
  ASSUME NEW t \in Text, NEW done \in Seq(Text), NEW line \in Text, NEW cells \in Seq(Text), NEW raw \in Text,
         Parts(t, done, line, cells, raw), ~Odd(raw)
  PROVE  Parts(Append(t, Delimiter), done, Append(line, Delimiter), Append(cells, raw), <<>>)
         /\ Append(line, Delimiter) \in Text
<1>1. Append(line, Delimiter) \in Text
  BY Symbols, AppendProperties DEF Text
<1>2. Lines(Append(t, Delimiter)) = Append(done, Append(line, Delimiter))
  BY Symbols, LinesAppend DEF Parts
<1>3. Fields(Append(line, Delimiter)) = Append(Append(cells, raw), <<>>)
  BY Symbols, FieldsAppend, SMTT(30) DEF Parts
<1>4. ~Odd(Append(t, Delimiter)) /\ ~Odd(Append(line, Delimiter)) /\ ~Odd(<<>>)
  BY Symbols, OddAppend, OddEmpty DEF Parts, Text
<1> QED BY <1>1, <1>2, <1>3, <1>4 DEF Parts

\* A line end ends the line.
LEMMA PartsLineEnd ==
  ASSUME NEW t \in Text, NEW done \in Seq(Text), NEW line \in Text, NEW cells \in Seq(Text), NEW raw \in Text,
         Parts(t, done, line, cells, raw), ~Odd(raw), NEW c \in LineEnds
  PROVE  Parts(Append(t, c), Append(done, line), <<>>, <<>>, <<>>)
<1>0. c \in Symbol /\ c # Quote
  BY Symbols DEF LineEnds
<1>1. Lines(Append(t, c)) = Append(Append(done, line), <<>>)
  BY <1>0, LinesAppend DEF Parts
<1>2. ~Odd(Append(t, c)) /\ ~Odd(<<>>)
  BY <1>0, OddAppend, OddEmpty DEF Parts, Text
<1> QED BY <1>1, <1>2, NoText DEF Parts

\* The row that a line ends.
LEMMA RowEnds ==
  ASSUME NEW t \in Text, NEW done \in Seq(Text), NEW line \in Text, NEW cells \in Seq(Text), NEW raw \in Text,
         NEW m, NEW v, NEW r, NEW rs,
         ReadAs(t, done, line, cells, raw, m, v, r, rs), m # "quoted"
  PROVE  /\ AllRegular(Append(done, line)) /\ RowsOf(Append(done, line)) = Rowed(rs, r, v)
         /\ AllProper(Append(cells, raw)) /\ RowOf(Append(cells, raw)) = Append(r, v)
<1>0. Parts(t, done, line, cells, raw) /\ Known(done, cells, r, rs) /\ RawIs(m, raw, v)
  BY DEF ReadAs
<1>1. Proper(raw) /\ Value(raw) = v /\ v \in Text
  BY <1>0, RawEnds
<1>2. AllProper(Append(cells, raw)) /\ RowOf(Append(cells, raw)) = Append(r, v) /\ r \in Seq(Text)
  BY <1>0, <1>1, RowOfAppend DEF Known
<1>3. Regular(line) /\ Values(line) = Append(r, v)
  BY <1>0, <1>2, LineIsRow DEF Parts
<1>4. Append(r, v) = <<<<>>>> <=> r = <<>> /\ v = <<>>
  <2>1. <<<<>>>> = Append(<<>>, <<>>) /\ <<>> \in Seq(Text) /\ <<>> \in Text
    BY EmptySeq DEF Text
  <2>2. \A a \in Seq(Text), b \in Text : Append(r, v) = Append(a, b) <=> r = a /\ v = b
    BY <1>1, <1>2, AppendInjective
  <2> QED BY <2>1, <2>2
<1>5. AllRegular(Append(done, line)) /\ RowsOf(Append(done, line)) = Rowed(rs, r, v)
  BY <1>0, <1>3, <1>4, RowsOfAppend DEF Known, Rowed
<1> QED BY <1>2, <1>5

\* What is known is of the right kind, and quotes are open when the state says so.
LEMMA ReadsTypes ==
  ASSUME NEW t \in Text, NEW m, NEW v, NEW r, NEW rs, Reads(t, m, v, r, rs)
  PROVE  /\ v \in Text /\ r \in Seq(Text) /\ rs \in Seq(Seq(Text))
         /\ Odd(t) <=> m = "quoted"
<1>1. PICK done \in Seq(Text), line \in Text, cells \in Seq(Text), raw \in Text :
        /\ ReadAs(t, done, line, cells, raw, m, v, r, rs)
        /\ Parts(t, done, line, cells, raw) /\ Known(done, cells, r, rs) /\ RawIs(m, raw, v)
  BY DEF Reads, ReadAs
<1>2. v \in Text /\ (Odd(raw) <=> m = "quoted")
  BY <1>1, RawEnds
<1>3. <<>> \in Text /\ Proper(<<>>) /\ Regular(<<>>)
  <2>1. <<>> \in Text
    BY EmptySeq DEF Text
  <2>2. Proper(<<>>)
    BY DEF Proper, Bare, Has
  <2>3. AllProper(Append(<<>>, <<>>))
    BY <2>1, <2>2, NoCells, RowOfAppend, EmptySeq
  <2> QED BY <2>1, <2>2, <2>3, LineIsRow, NoText
<1>4. r \in Seq(Text)
  BY <1>1, <1>3, RowOfAppend DEF Known
<1>5. rs \in Seq(Seq(Text))
  BY <1>1, <1>3, RowsOfAppend DEF Known
<1> QED BY <1>1, <1>2, <1>4, <1>5 DEF Parts

\* How what is known grows, character by character: each of the six lemmas is a
\* branch of the parser's loop. Within quotes:
LEMMA ReadsQuoted ==
  ASSUME NEW t \in Text, NEW v, NEW r, NEW rs, Reads(t, "quoted", v, r, rs)
  PROVE  /\ Reads(Append(t, Quote), "closed", v, r, rs)
         /\ \A c \in Symbol \ {Quote} : Reads(Append(t, c), "quoted", Append(v, c), r, rs)
<1>1. PICK done \in Seq(Text), line \in Text, cells \in Seq(Text), raw \in Text :
        /\ ReadAs(t, done, line, cells, raw, "quoted", v, r, rs)
        /\ Parts(t, done, line, cells, raw) /\ Known(done, cells, r, rs) /\ RawIs("quoted", raw, v)
  BY DEF Reads, ReadAs
<1>2. Odd(raw)
  BY <1>1, RawEnds
<1>3. Reads(Append(t, Quote), "closed", v, r, rs)
  <2>1. RawIs("closed", Append(raw, Quote), v)
    BY <1>1, RawGrows
  <2>2. /\ Parts(Append(t, Quote), done, Append(line, Quote), cells, Append(raw, Quote))
        /\ Append(line, Quote) \in Text /\ Append(raw, Quote) \in Text
    BY <1>1, <1>2, Symbols, PartsGrow
  <2> QED BY <1>1, <2>1, <2>2 DEF Reads, ReadAs
<1>4. ASSUME NEW c \in Symbol \ {Quote} PROVE Reads(Append(t, c), "quoted", Append(v, c), r, rs)
  <2>1. RawIs("quoted", Append(raw, c), Append(v, c))
    BY <1>1, RawGrows
  <2>2. /\ Parts(Append(t, c), done, Append(line, c), cells, Append(raw, c))
        /\ Append(line, c) \in Text /\ Append(raw, c) \in Text
    BY <1>1, <1>2, PartsGrow
  <2> QED BY <1>1, <2>1, <2>2 DEF Reads, ReadAs
<1> QED BY <1>3, <1>4

\* a quote right behind a closing one, which was the first of two;
LEMMA ReadsDoubled ==
  ASSUME NEW t \in Text, NEW v, NEW r, NEW rs, Reads(t, "closed", v, r, rs)
  PROVE  Reads(Append(t, Quote), "quoted", Append(v, Quote), r, rs)
<1>1. PICK done \in Seq(Text), line \in Text, cells \in Seq(Text), raw \in Text :
        /\ ReadAs(t, done, line, cells, raw, "closed", v, r, rs)
        /\ Parts(t, done, line, cells, raw) /\ Known(done, cells, r, rs) /\ RawIs("closed", raw, v)
  BY DEF Reads, ReadAs
<1>2. RawIs("quoted", Append(raw, Quote), Append(v, Quote))
  BY <1>1, RawGrows
<1>3. /\ Parts(Append(t, Quote), done, Append(line, Quote), cells, Append(raw, Quote))
      /\ Append(line, Quote) \in Text /\ Append(raw, Quote) \in Text
  <2>1. Quote \in Symbol /\ Quote \notin {Delimiter} \cup LineEnds
    BY Symbols
  <2> QED BY <1>1, <2>1, PartsGrow
<1> QED BY <1>1, <1>2, <1>3 DEF Reads, ReadAs

\* a quote before anything else;
LEMMA ReadsOpening ==
  ASSUME NEW t \in Text, NEW v, NEW r, NEW rs, Reads(t, "none", v, r, rs)
  PROVE  Reads(Append(t, Quote), "quoted", v, r, rs)
<1>1. PICK done \in Seq(Text), line \in Text, cells \in Seq(Text), raw \in Text :
        /\ ReadAs(t, done, line, cells, raw, "none", v, r, rs)
        /\ Parts(t, done, line, cells, raw) /\ Known(done, cells, r, rs) /\ RawIs("none", raw, v)
  BY DEF Reads, ReadAs
<1>2. RawIs("quoted", Append(raw, Quote), v)
  BY <1>1, RawGrows
<1>3. /\ Parts(Append(t, Quote), done, Append(line, Quote), cells, Append(raw, Quote))
      /\ Append(line, Quote) \in Text /\ Append(raw, Quote) \in Text
  <2>1. Quote \in Symbol /\ Quote \notin {Delimiter} \cup LineEnds
    BY Symbols
  <2> QED BY <1>1, <2>1, PartsGrow
<1> QED BY <1>1, <1>2, <1>3 DEF Reads, ReadAs

\* a character of a bare field;
LEMMA ReadsPlain ==
  ASSUME NEW t \in Text, NEW m \in {"none", "bare"}, NEW v, NEW r, NEW rs, Reads(t, m, v, r, rs),
         NEW c \in Symbol \ ({Quote, Delimiter} \cup LineEnds)
  PROVE  Reads(Append(t, c), "bare", Append(v, c), r, rs)
<1>1. PICK done \in Seq(Text), line \in Text, cells \in Seq(Text), raw \in Text :
        /\ ReadAs(t, done, line, cells, raw, m, v, r, rs)
        /\ Parts(t, done, line, cells, raw) /\ Known(done, cells, r, rs) /\ RawIs(m, raw, v)
  BY DEF Reads, ReadAs
<1>2. RawIs("bare", Append(raw, c), Append(v, c))
  BY <1>1, RawGrows
<1>3. /\ Parts(Append(t, c), done, Append(line, c), cells, Append(raw, c))
      /\ Append(line, c) \in Text /\ Append(raw, c) \in Text
  BY <1>1, PartsGrow
<1> QED BY <1>1, <1>2, <1>3 DEF Reads, ReadAs

\* a delimiter outside quotes;
LEMMA ReadsDelimiter ==
  ASSUME NEW t \in Text, NEW m, m # "quoted", NEW v, NEW r, NEW rs, Reads(t, m, v, r, rs)
  PROVE  Reads(Append(t, Delimiter), "none", <<>>, Append(r, v), rs)
<1>1. PICK done \in Seq(Text), line \in Text, cells \in Seq(Text), raw \in Text :
        /\ ReadAs(t, done, line, cells, raw, m, v, r, rs)
        /\ Parts(t, done, line, cells, raw) /\ Known(done, cells, r, rs) /\ RawIs(m, raw, v)
  BY DEF Reads, ReadAs
<1>2. ~Odd(raw)
  BY <1>1, RawEnds
<1>3. /\ AllRegular(Append(done, line)) /\ RowsOf(Append(done, line)) = Rowed(rs, r, v)
      /\ AllProper(Append(cells, raw)) /\ RowOf(Append(cells, raw)) = Append(r, v)
  BY <1>1, RowEnds
<1>4. Known(done, Append(cells, raw), Append(r, v), rs)
  BY <1>1, <1>3 DEF Known
<1>5. Parts(Append(t, Delimiter), done, Append(line, Delimiter), Append(cells, raw), <<>>)
      /\ Append(line, Delimiter) \in Text /\ Append(cells, raw) \in Seq(Text) /\ <<>> \in Text
  BY <1>1, <1>2, PartsDelimiter, AppendProperties, EmptySeq DEF Text
<1>6. RawIs("none", <<>>, <<>>)
  BY DEF RawIs
<1> QED BY <1>4, <1>5, <1>6 DEF Reads, ReadAs

\* and a line end outside quotes.
LEMMA ReadsLineEnd ==
  ASSUME NEW t \in Text, NEW m, m # "quoted", NEW v, NEW r, NEW rs, Reads(t, m, v, r, rs), NEW c \in LineEnds
  PROVE  Reads(Append(t, c), "none", <<>>, <<>>, Rowed(rs, r, v))
<1>1. PICK done \in Seq(Text), line \in Text, cells \in Seq(Text), raw \in Text :
        /\ ReadAs(t, done, line, cells, raw, m, v, r, rs)
        /\ Parts(t, done, line, cells, raw) /\ Known(done, cells, r, rs) /\ RawIs(m, raw, v)
  BY DEF Reads, ReadAs
<1>2. ~Odd(raw)
  BY <1>1, RawEnds
<1>3. AllRegular(Append(done, line)) /\ RowsOf(Append(done, line)) = Rowed(rs, r, v)
  BY <1>1, RowEnds
<1>4. Known(Append(done, line), <<>>, <<>>, Rowed(rs, r, v))
  BY <1>3, NoCells DEF Known
<1>5. Parts(Append(t, c), Append(done, line), <<>>, <<>>, <<>>)
  BY <1>1, <1>2, PartsLineEnd
<1>6. Append(done, line) \in Seq(Text) /\ <<>> \in Text /\ <<>> \in Seq(Text)
  BY AppendProperties, EmptySeq DEF Text
<1>7. RawIs("none", <<>>, <<>>)
  BY DEF RawIs
<1> QED BY <1>4, <1>5, <1>6, <1>7 DEF Reads, ReadAs

\* All of it is read.
LEMMA ReadsEnd ==
  ASSUME NEW t \in Text, NEW m, NEW v, NEW r, NEW rs, Reads(t, m, v, r, rs)
  PROVE  /\ (\A line \in ToSet(Lines(t)) : Regular(line)) <=> m # "quoted"
         /\ m # "quoted" => RowsOf(Lines(t)) = Rowed(rs, r, v)
<1>1. PICK done \in Seq(Text), line \in Text, cells \in Seq(Text), raw \in Text :
        /\ ReadAs(t, done, line, cells, raw, m, v, r, rs)
        /\ Parts(t, done, line, cells, raw) /\ Known(done, cells, r, rs) /\ RawIs(m, raw, v)
  BY DEF Reads, ReadAs
<1>2. CASE m # "quoted"
  <2>1. AllRegular(Append(done, line)) /\ RowsOf(Append(done, line)) = Rowed(rs, r, v)
    BY <1>1, <1>2, RowEnds
  <2>2. Lines(t) = Append(done, line)
    BY <1>1 DEF Parts
  <2> QED BY <1>2, <2>1, <2>2 DEF AllRegular, ToSet
<1>3. CASE m = "quoted"
  <2>1. ~Proper(raw)
    BY <1>1, <1>3, RawEnds, ProperIsEven
  <2>2. ~Regular(line)
    <3>1. Len(cells) + 1 \in DOMAIN Append(cells, raw) /\ Append(cells, raw)[Len(cells) + 1] = raw
      BY AppendProperties, LenProperties
    <3> QED BY <1>1, <2>1, <3>1, LineIsRow DEF Parts, AllProper
  <2>3. line \in ToSet(Lines(t))
    <3>1. Len(done) + 1 \in DOMAIN Append(done, line) /\ Append(done, line)[Len(done) + 1] = line
      BY AppendProperties, LenProperties
    <3> QED BY <1>1, <3>1 DEF Parts, ToSet
  <2> QED BY <1>3, <2>2, <2>3
<1> QED BY <1>2, <1>3

(***************************************************************************)
(* Fields that nothing behind them can mend.                               *)
(***************************************************************************)
\* A quote behind something else, or something else behind a closing quote.
Hopeless(f) ==
  /\ Has(f, {Quote})
  /\ \/ f[1] # Quote
     \/ \E k \in 2 .. Len(f) - 1 : f[k] = Quote /\ f[k + 1] # Quote /\ Inside(f, k)

\* Such a field is none of the grammar,
LEMMA HopelessIsImproper ==
  ASSUME NEW f \in Text, Hopeless(f)
  PROVE  ~Proper(f)
<1>1. ~Bare(f)
  BY DEF Hopeless, Bare
<1>2. ASSUME Wrapped(f) PROVE FALSE
  <2> DEFINE u == Inner(f)
             N == Len(u)
  <2>1. u \in Text /\ Pairs(u) /\ f = Append(Opened(u), Quote)
    BY <1>2, WrappedIsClosed
  <2> HIDE DEF u
  <2>2. /\ Opened(u) \in Seq(Symbol) /\ Len(Opened(u)) = N + 1 /\ Opened(u)[1] = Quote /\ N \in Nat
        /\ \A i \in 1 .. N : Opened(u)[i + 1] = u[i]
    BY <2>1, OpenedType DEF Text
  <2>3. /\ Len(f) = N + 2 /\ (\A i \in 1 .. N + 1 : f[i] = Opened(u)[i])
        /\ \A i \in 1 .. N + 2 : Inside(f, i) <=> Inside(Opened(u), i)
    <3>1. /\ Len(f) = Len(Opened(u)) + 1 /\ (\A i \in 1 .. Len(Opened(u)) : f[i] = Opened(u)[i])
          /\ \A i \in 1 .. Len(Opened(u)) + 1 : Inside(f, i) <=> Inside(Opened(u), i)
      BY <2>1, <2>2, Symbols, AppendProperties, OddAppend
    <3> HIDE DEF N
    <3> QED BY <2>2, <3>1
  <2>4. PICK k \in 2 .. Len(f) - 1 : f[k] = Quote /\ f[k + 1] # Quote /\ Inside(f, k)
    BY <1>2 DEF Hopeless, Wrapped
  <2> DEFINE i == k - 1
  <2>5. i \in 1 .. N /\ k = i + 1
    BY <2>2, <2>3, <2>4
  <2>6. u[i] = Quote /\ ~Inside(u, i)
    <3>1. i \in 1 .. N + 1 /\ k \in 1 .. N + 1 /\ k \in 1 .. N + 2
      BY <2>2, <2>5
    <3>2. Inside(Opened(u), i + 1) <=> ~Inside(u, i)
      BY <2>1, <3>1, InsideOpened
    <3> HIDE DEF i, N
    <3> QED BY <2>2, <2>3, <2>4, <2>5, <3>1, <3>2
  <2>7. DOMAIN u = 1 .. N
    BY <2>1, LenProperties DEF Text
  <2> HIDE DEF i
  <2>8. i < N /\ u[i + 1] = Quote
    BY <2>1, <2>5, <2>6, <2>7 DEF Pairs, InPairs
  <2>9. f[k + 1] = Quote
    <3>1. i + 1 \in 1 .. N /\ k + 1 \in 1 .. N + 1 /\ k + 1 = (i + 1) + 1
      BY <2>2, <2>5, <2>8
    <3> HIDE DEF N
    <3> QED BY <2>2, <2>3, <2>8, <3>1
  <2> QED BY <2>4, <2>9
<1> QED BY <1>1, <1>2 DEF Proper

\* and does not become one.
LEMMA HopelessGrows ==
  ASSUME NEW f \in Text, Hopeless(f), NEW c \in Symbol
  PROVE  Hopeless(Append(f, c))
<1> DEFINE g == Append(f, c)
           N == Len(f)
<1>1. /\ N \in Nat /\ Len(g) = N + 1 /\ (\A i \in 1 .. N : g[i] = f[i]) /\ DOMAIN f = 1 .. N
      /\ DOMAIN g = 1 .. N + 1
  BY AppendProperties, LenProperties DEF Text
<1>2. \A i \in 1 .. N + 1 : Inside(g, i) <=> Inside(f, i)
  BY OddAppend DEF Text
<1> HIDE DEF g, N
<1>3. Has(g, {Quote}) /\ N >= 1
  <2>1. PICK i \in 1 .. N : f[i] = Quote
    BY <1>1 DEF Hopeless, Has
  <2>2. i \in 1 .. N + 1 /\ g[i] = Quote
    BY <1>1, <2>1
  <2> QED BY <1>1, <2>2 DEF Has
<1>4. CASE f[1] # Quote
  BY <1>1, <1>3, <1>4 DEF Hopeless, g
<1>5. CASE f[1] = Quote
  <2>1. PICK k \in 2 .. N - 1 : f[k] = Quote /\ f[k + 1] # Quote /\ Inside(f, k)
    BY <1>5 DEF Hopeless, N
  <2>2. k \in 2 .. (N + 1) - 1 /\ k \in 1 .. N /\ k + 1 \in 1 .. N /\ k \in 1 .. N + 1
    BY <1>1
  <2>3. g[k] = Quote /\ g[k + 1] # Quote /\ Inside(g, k)
    BY <1>1, <1>2, <2>1, <2>2
  <2> QED BY <1>1, <1>3, <2>2, <2>3 DEF Hopeless, g
<1> QED BY <1>4, <1>5

\* A quote in a bare field, or anything but a quote behind a closed one, is hopeless.
LEMMA RawSpoiled ==
  ASSUME NEW m, NEW raw \in Text, NEW v, RawIs(m, raw, v)
  PROVE  /\ m = "bare" => Hopeless(Append(raw, Quote))
         /\ m = "closed" => \A c \in Symbol \ {Quote} : Hopeless(Append(raw, c))
<1>1. ASSUME m = "bare" PROVE Hopeless(Append(raw, Quote))
  <2> DEFINE g == Append(raw, Quote)
             N == Len(raw)
  <2>1. /\ N \in Nat \ {0} /\ (\A i \in 1 .. N : g[i] = raw[i]) /\ g[N + 1] = Quote /\ DOMAIN raw = 1 .. N
        /\ DOMAIN g = 1 .. N + 1
    <3>1. raw # <<>> /\ raw \in Seq(Symbol)
      BY <1>1 DEF RawIs, Text
    <3> QED BY <3>1, Symbols, EmptySeq, AppendProperties, LenProperties
  <2>2. raw[1] # Quote
    BY <1>1, <2>1 DEF RawIs, Bare, Has
  <2> HIDE DEF g, N
  <2>3. N + 1 \in 1 .. N + 1 /\ 1 \in 1 .. N
    BY <2>1
  <2> QED BY <2>1, <2>2, <2>3 DEF Hopeless, Has, g
<1>2. ASSUME m = "closed", NEW c \in Symbol \ {Quote} PROVE Hopeless(Append(raw, c))
  <2>1. PICK u \in Text : raw = Append(Opened(u), Quote) /\ Pairs(u)
    BY <1>2 DEF RawIs
  <2> DEFINE g == Append(raw, c)
             o == Opened(u)
             N == Len(u)
  <2>2. o \in Seq(Symbol) /\ Len(o) = N + 1 /\ N \in Nat /\ o[1] = Quote /\ Odd(o)
    BY <2>1, OpenedType, OddOpened DEF Text, Pairs
  <2>3. /\ raw \in Seq(Symbol) /\ Len(raw) = N + 2 /\ raw[N + 2] = Quote /\ raw[1] = Quote
        /\ Inside(raw, N + 2)
    <3> HIDE DEF o
    <3>1. /\ Len(raw) = Len(o) + 1 /\ raw[Len(o) + 1] = Quote /\ \A i \in 1 .. Len(o) : raw[i] = o[i]
      BY <2>1, <2>2, Symbols, AppendProperties DEF o
    <3>2. \A i \in 1 .. Len(o) + 1 : Inside(raw, i) <=> Inside(o, i)
      BY <2>1, <2>2, Symbols, OddAppend DEF o
    <3>3. 1 \in 1 .. Len(o) /\ Len(o) + 1 \in 1 .. Len(o) + 1 /\ Len(o) + 1 = N + 2
      BY <2>2
    <3> QED BY <2>2, <3>1, <3>2, <3>3 DEF Odd, Text
  <2>4. /\ Len(g) = N + 3 /\ g[1] = Quote /\ g[N + 2] = Quote /\ g[N + 3] = c /\ Inside(g, N + 2)
        /\ DOMAIN g = 1 .. N + 3
    <3> HIDE DEF N, o
    <3>1. /\ Len(g) = Len(raw) + 1 /\ g[Len(raw) + 1] = c /\ \A i \in 1 .. Len(raw) : g[i] = raw[i]
      BY <1>2, <2>3, AppendProperties
    <3>2. \A i \in 1 .. Len(raw) + 1 : Inside(g, i) <=> Inside(raw, i)
      BY <1>2, <2>3, OddAppend
    <3>3. g \in Seq(Symbol)
      BY <1>2, <2>3, AppendProperties
    <3>4. DOMAIN g = 1 .. Len(g)
      BY <3>3, LenProperties
    <3> HIDE DEF g
    <3>5. 1 \in 1 .. Len(raw) /\ N + 2 \in 1 .. Len(raw) /\ N + 2 \in 1 .. Len(raw) + 1 /\ Len(raw) + 1 = N + 3
      BY <2>2, <2>3
    <3> QED BY <2>3, <3>1, <3>2, <3>4, <3>5
  <2> HIDE DEF g, o, N
  <2>5. N + 2 \in 2 .. (N + 3) - 1 /\ (N + 2) + 1 = N + 3 /\ 1 \in 1 .. N + 3
    BY <2>2
  <2> QED BY <1>2, <2>4, <2>5 DEF Hopeless, Has, g
<1> QED BY <1>1, <1>2

\* A text with such a field is spoiled, whatever follows.
Spoiled(t) ==
  \E n \in DOMAIN Lines(t) :
    \E k \in DOMAIN Fields(Lines(t)[n]) : Hopeless(Fields(Lines(t)[n])[k])

\* A text is spoiled by the field that it ends in.
LEMMA SpoiledAt ==
  ASSUME NEW t, NEW done \in Seq(Text), NEW line \in Text, Lines(t) = Append(done, line),
         NEW cells \in Seq(Text), NEW raw \in Text, Fields(line) = Append(cells, raw), Hopeless(raw)
  PROVE  Spoiled(t)
<1>1. Len(done) + 1 \in DOMAIN Lines(t) /\ Lines(t)[Len(done) + 1] = line
  BY AppendProperties, LenProperties
<1>2. Len(cells) + 1 \in DOMAIN Fields(line) /\ Fields(line)[Len(cells) + 1] = raw
  BY AppendProperties, LenProperties
<1> QED BY <1>1, <1>2 DEF Spoiled

\* The lines of a text are texts, at least one.
LEMMA LinesType ==
  ASSUME NEW t \in Text
  PROVE  Lines(t) \in Seq(Text) \ {<<>>}
BY PiecesType DEF Lines, Text

\* A spoiled text is not well formed,
LEMMA SpoiledIsIrregular ==
  ASSUME NEW t \in Text, Spoiled(t)
  PROVE  \E line \in ToSet(Lines(t)) : ~Regular(line)
<1>1. PICK n \in DOMAIN Lines(t) :
        \E k \in DOMAIN Fields(Lines(t)[n]) : Hopeless(Fields(Lines(t)[n])[k])
  BY DEF Spoiled
<1> DEFINE line == Lines(t)[n]
<1>2. line \in Text /\ line \in ToSet(Lines(t))
  BY LinesType, LenProperties DEF ToSet
<1>3. PICK k \in DOMAIN Fields(line) : Hopeless(Fields(line)[k])
  BY <1>1
<1> HIDE DEF line
<1>4. Fields(line) \in Seq(Text)
  BY <1>2, LineIsRow
<1>5. Fields(line)[k] \in Text
  BY <1>4, LenProperties
<1>6. ~Proper(Fields(line)[k])
  BY <1>3, <1>5, HopelessIsImproper
<1>7. ~Regular(line)
  BY <1>2, <1>6, LineIsRow DEF AllProper
<1> QED BY <1>2, <1>7

\* and what is put behind it changes nothing about that.
LEMMA SpoiledGrows ==
  ASSUME NEW t \in Text, Spoiled(t), NEW c \in Symbol
  PROVE  Spoiled(Append(t, c))
<1>1. PICK n \in DOMAIN Lines(t) :
        \E k \in DOMAIN Fields(Lines(t)[n]) : Hopeless(Fields(Lines(t)[n])[k])
  BY DEF Spoiled
<1>2. PICK done \in Seq(Text), line \in Text : Lines(t) = Append(done, line)
  BY LinesType, SequenceEmptyOrAppend
<1> DEFINE N == Len(done)
           new == Lines(Append(t, c))
<1>3. /\ N \in Nat /\ DOMAIN Lines(t) = 1 .. N + 1 /\ Lines(t)[N + 1] = line
      /\ \A i \in 1 .. N : Lines(t)[i] = done[i]
  BY <1>2, AppendProperties, LenProperties
<1>4. new = IF c \in LineEnds /\ ~Odd(t) THEN Append(Append(done, line), <<>>) ELSE Append(done, Append(line, c))
  BY <1>2, LinesAppend
<1>5. CASE c \in LineEnds /\ ~Odd(t)
  <2>1. new = Append(Lines(t), <<>>) /\ Lines(t) \in Seq(Text) /\ <<>> \in Text
    BY <1>2, <1>4, <1>5, LinesType, EmptySeq DEF Text
  <2>2. n \in DOMAIN new /\ new[n] = Lines(t)[n]
    BY <2>1, AppendProperties, LenProperties
  <2> HIDE DEF new
  <2> QED BY <1>1, <2>2 DEF Spoiled, new
<1>6. CASE ~(c \in LineEnds /\ ~Odd(t))
  <2>1. new = Append(done, Append(line, c)) /\ Append(line, c) \in Text
    BY <1>4, <1>6, AppendProperties DEF Text
  <2>2. /\ DOMAIN new = 1 .. N + 1 /\ new[N + 1] = Append(line, c)
        /\ \A i \in 1 .. N : new[i] = done[i]
    BY <2>1, AppendProperties, LenProperties
  <2> HIDE DEF new, N
  <2>3. CASE n \in 1 .. N
    <3>1. n \in DOMAIN new /\ new[n] = Lines(t)[n]
      BY <1>3, <2>2, <2>3
    <3> QED BY <1>1, <3>1 DEF Spoiled, new
  <2>4. CASE n \notin 1 .. N
    <3>1. n = N + 1 /\ Lines(t)[n] = line
      BY <1>3, <2>4
    <3>2. PICK k \in DOMAIN Fields(line) : Hopeless(Fields(line)[k])
      BY <1>1, <3>1
    <3>3. PICK cells \in Seq(Text), raw \in Text : Fields(line) = Append(cells, raw)
      BY LineIsRow, SequenceEmptyOrAppend
    <3> DEFINE M == Len(cells)
               fields == Fields(Append(line, c))
    <3>4. /\ M \in Nat /\ DOMAIN Fields(line) = 1 .. M + 1 /\ Fields(line)[M + 1] = raw
          /\ \A i \in 1 .. M : Fields(line)[i] = cells[i]
      BY <3>3, AppendProperties, LenProperties
    <3>5. fields = IF c = Delimiter /\ ~Odd(line) THEN Append(Append(cells, raw), <<>>)
                   ELSE Append(cells, Append(raw, c))
      <4>1. ASSUME NEW d \in Seq(Text), NEW f \in Text, Fields(line) = Append(d, f)
            PROVE  Fields(Append(line, c)) = IF c = Delimiter /\ ~Odd(line) THEN Append(Append(d, f), <<>>)
                                             ELSE Append(d, Append(f, c))
        BY <4>1, FieldsAppend
      <4> QED BY <3>3, <4>1
    <3>6. \E j \in DOMAIN fields : Hopeless(fields[j])
      <4>1. CASE c = Delimiter /\ ~Odd(line)
        <5>1. fields = Append(Fields(line), <<>>) /\ Fields(line) \in Seq(Text) /\ <<>> \in Text
          BY <3>3, <3>5, <4>1, LineIsRow, EmptySeq DEF Text
        <5>2. k \in DOMAIN fields /\ fields[k] = Fields(line)[k]
          BY <5>1, AppendProperties, LenProperties
        <5> QED BY <3>2, <5>2
      <4>2. CASE ~(c = Delimiter /\ ~Odd(line))
        <5>1. fields = Append(cells, Append(raw, c)) /\ Append(raw, c) \in Text
          BY <3>5, <4>2, AppendProperties DEF Text
        <5>2. /\ DOMAIN fields = 1 .. M + 1 /\ fields[M + 1] = Append(raw, c)
              /\ \A i \in 1 .. M : fields[i] = cells[i]
          BY <5>1, AppendProperties, LenProperties
        <5> HIDE DEF fields, M
        <5>3. CASE k \in 1 .. M
          BY <3>2, <3>4, <5>2, <5>3
        <5>4. CASE k \notin 1 .. M
          <6>1. k = M + 1 /\ Hopeless(raw)
            BY <3>2, <3>4, <5>4
          <6>2. Hopeless(Append(raw, c))
            BY <6>1, HopelessGrows
          <6>3. M + 1 \in 1 .. M + 1
            BY <3>4
          <6> QED BY <5>2, <6>2, <6>3
        <5> QED BY <5>3, <5>4
      <4> QED BY <4>1, <4>2
    <3>7. N + 1 \in DOMAIN new /\ new[N + 1] = Append(line, c)
      BY <1>3, <2>2
    <3> QED BY <3>6, <3>7 DEF Spoiled, new
  <2> QED BY <2>3, <2>4
<1> QED BY <1>5, <1>6

\* What the parser finds malformed is spoiled.
LEMMA ReadsSpoiled ==
  ASSUME NEW t \in Text, NEW m, NEW v, NEW r, NEW rs, Reads(t, m, v, r, rs)
  PROVE  /\ m = "bare" => Spoiled(Append(t, Quote))
         /\ m = "closed" => \A c \in Symbol \ ({Quote, Delimiter} \cup LineEnds) : Spoiled(Append(t, c))
<1>1. PICK done \in Seq(Text), line \in Text, cells \in Seq(Text), raw \in Text :
        ReadAs(t, done, line, cells, raw, m, v, r, rs)
  BY DEF Reads
<1>2. Parts(t, done, line, cells, raw) /\ RawIs(m, raw, v)
  BY <1>1 DEF ReadAs
<1>3. ASSUME NEW c \in Symbol \ ({Delimiter} \cup LineEnds), Hopeless(Append(raw, c))
      PROVE  Spoiled(Append(t, c))
  <2>1. /\ Parts(Append(t, c), done, Append(line, c), cells, Append(raw, c)) /\ Append(line, c) \in Text
        /\ Append(raw, c) \in Text
    BY <1>2, PartsGrow
  <2> QED BY <1>3, <2>1, SpoiledAt DEF Parts
<1>4. Quote \in Symbol \ ({Delimiter} \cup LineEnds)
  BY Symbols
<1> QED BY <1>2, <1>3, <1>4, RawSpoiled

(***************************************************************************)
(* What is exported is a text.                                             *)
(***************************************************************************)
\* The words of the tables and their marks are symbols.
LEMMA Words ==
  /\ \A x \in {"id", "enabled", "trigger", "replacement", "group", "activation", "languages", "extrajson",
               "true", "false", "1", "0", "space", "enter", "tab"} : x \in Symbol
  /\ Bom \in Symbol /\ Bar \in Symbol /\ Apostrophe \in Symbol
  /\ Cr \in Symbol /\ Lf \in Symbol /\ Quote \in Symbol /\ Delimiter \in Symbol
<1>1. /\ "id" \in ToSet(ColumnNames) /\ "enabled" \in ToSet(ColumnNames) /\ "trigger" \in ToSet(ColumnNames)
      /\ "replacement" \in ToSet(ColumnNames) /\ "group" \in ToSet(ColumnNames)
      /\ "activation" \in ToSet(ColumnNames) /\ "languages" \in ToSet(ColumnNames)
      /\ "extrajson" \in ToSet(ColumnNames)
  <2>1. DOMAIN ColumnNames = 1 .. 8
    BY DEF ColumnNames
  <2>2. /\ ColumnNames[1] = "id" /\ ColumnNames[2] = "enabled" /\ ColumnNames[3] = "trigger"
        /\ ColumnNames[4] = "replacement" /\ ColumnNames[5] = "group" /\ ColumnNames[6] = "activation"
        /\ ColumnNames[7] = "languages" /\ ColumnNames[8] = "extrajson"
    BY DEF ColumnNames
  <2> QED BY <2>1, <2>2 DEF ToSet
<1> QED BY <1>1, ExchangeConstants DEF Quote, Bom, Bar, Apostrophe, Cr, Lf, LineEnds, Whitespace

\* A list in a cell is a text.
LEMMA JoinType ==
  ASSUME NEW list \in Seq(Text)
  PROVE  Join(list) \in Text
<1> DEFINE Item(n) == (IF \A m \in 1 .. n - 1 : list[m] = <<>> THEN <<>> ELSE <<Bar>>) \o list[n]
           ss == [n \in DOMAIN list |-> Item(n)]
<1>1. DOMAIN list = 1 .. Len(list) /\ Len(list) \in Nat /\ \A n \in 1 .. Len(list) : list[n] \in Seq(Symbol)
  BY LenProperties DEF Text
<1>2. <<>> \in Seq(Symbol) /\ <<Bar>> \in Seq(Symbol)
  BY Words
<1>3. \A n \in 1 .. Len(list) : Item(n) \in Seq(Symbol)
  BY <1>1, <1>2, ConcatProperties
<1>4. ss \in Seq(Seq(Symbol))
  <2> HIDE DEF Item
  <2>1. ss \in [1 .. Len(list) -> Seq(Symbol)]
    BY <1>1, <1>3
  <2> QED BY <1>1, <2>1
<1> QED BY <1>4, FlattenType DEF Join, Text

\* A text with its quotes doubled is a text.
LEMMA DoubledType ==
  ASSUME NEW v \in Text
  PROVE  /\ [i \in DOMAIN v |-> IF v[i] = Quote THEN <<Quote, Quote>> ELSE <<v[i]>>] \in Seq(Seq(Symbol))
         /\ Doubled(v) \in Text
<1> DEFINE ss == [i \in DOMAIN v |-> IF v[i] = Quote THEN <<Quote, Quote>> ELSE <<v[i]>>]
<1>1. DOMAIN v = 1 .. Len(v) /\ Len(v) \in Nat /\ \A n \in 1 .. Len(v) : v[n] \in Symbol
  BY LenProperties DEF Text
<1>2. ss \in [1 .. Len(v) -> Seq(Symbol)]
  BY <1>1, Words
<1>3. ss \in Seq(Seq(Symbol))
  BY <1>1, <1>2
<1> QED BY <1>3, FlattenType DEF Doubled, Text

\* So is a field, in quotes or not.
LEMMA QuoteFieldType ==
  ASSUME NEW v \in Text, NEW safe
  PROVE  QuoteField(v) \in Text /\ SpreadsheetCell(v, safe) \in Text
<1>1. <<Quote>> \in Seq(Symbol) /\ <<Apostrophe>> \in Seq(Symbol)
  BY Words
<1>2. Doubled(v) \in Seq(Symbol) /\ v \in Seq(Symbol)
  BY DoubledType DEF Text
<1>3. (<<Quote>> \o Doubled(v)) \o <<Quote>> \in Seq(Symbol)
  BY <1>1, <1>2, ConcatProperties
<1>4. <<Apostrophe>> \o v \in Seq(Symbol)
  BY <1>1, <1>2, ConcatProperties
<1> QED BY <1>2, <1>3, <1>4 DEF QuoteField, SpreadsheetCell, Text

\* The fields of a line, each with the delimiter before it.
LineItems(values, safe) ==
  [n \in DOMAIN values |-> (IF n = 1 THEN <<>> ELSE <<Delimiter>>) \o QuoteField(SpreadsheetCell(values[n], safe))]

\* A line is its fields behind one another and a line end.
LEMMA LineType ==
  ASSUME NEW values \in Seq(Text), NEW safe
  PROVE  /\ LineItems(values, safe) \in Seq(Seq(Symbol)) /\ Len(LineItems(values, safe)) = Len(values)
         /\ Line(values, safe) = FlattenSeq(LineItems(values, safe)) \o <<Cr, Lf>>
         /\ Line(values, safe) \in Text
<1> DEFINE Item(n) == (IF n = 1 THEN <<>> ELSE <<Delimiter>>) \o QuoteField(SpreadsheetCell(values[n], safe))
           ss == [n \in DOMAIN values |-> Item(n)]
<1>1. DOMAIN values = 1 .. Len(values) /\ Len(values) \in Nat /\ \A n \in 1 .. Len(values) : values[n] \in Text
  BY LenProperties
<1>2. <<>> \in Seq(Symbol) /\ <<Delimiter>> \in Seq(Symbol) /\ <<Cr, Lf>> \in Seq(Symbol)
  BY Words
<1>3. \A n \in 1 .. Len(values) : QuoteField(SpreadsheetCell(values[n], safe)) \in Seq(Symbol)
  BY <1>1, QuoteFieldType DEF Text
<1>4. \A n \in 1 .. Len(values) : Item(n) \in Seq(Symbol)
  BY <1>2, <1>3, ConcatProperties
<1>5. ss \in Seq(Seq(Symbol)) /\ Len(ss) = Len(values)
  <2> HIDE DEF Item
  <2>1. ss \in [1 .. Len(values) -> Seq(Symbol)]
    BY <1>1, <1>4
  <2> QED BY <1>1, <2>1
<1>6. LineItems(values, safe) = ss
  BY DEF LineItems
<1>7. Line(values, safe) = FlattenSeq(ss) \o <<Cr, Lf>>
  BY DEF Line
<1> HIDE DEF ss
<1>8. FlattenSeq(ss) \o <<Cr, Lf>> \in Seq(Symbol)
  BY <1>2, <1>5, FlattenType, ConcatProperties
<1> QED BY <1>5, <1>6, <1>7, <1>8 DEF Text

\* A rule has eight cells.
LEMMA CellsType ==
  ASSUME NEW item \in Rule
  PROVE  Cells(item) \in Seq(Text) /\ Len(Cells(item)) = 8
<1>1. /\ item.id \in Text /\ item.trigger \in Text /\ item.replacement \in Text /\ item.group \in Text
      /\ item.extra \in Text /\ item.activation \in Seq(Text) /\ item.languages \in Seq(Text)
  BY DEF Rule
<1>2. Join(item.activation) \in Text /\ Join(item.languages) \in Text
  BY <1>1, JoinType
<1>3. True \in Text /\ False \in Text
  BY Words DEF True, False, Text
<1> QED BY <1>1, <1>2, <1>3 DEF Cells

\* There are eight columns.
LEMMA ColumnLineType == ColumnLine \in Seq(Text) /\ Len(ColumnLine) = 8
<1>1. DOMAIN ColumnNames = 1 .. 8 /\ \A n \in 1 .. 8 : ColumnNames[n] \in Symbol
  BY Words DEF ColumnNames
<1>2. \A n \in 1 .. 8 : <<ColumnNames[n]>> \in Text
  BY <1>1 DEF Text
<1>3. ColumnLine = [n \in 1 .. 8 |-> <<ColumnNames[n]>>]
  BY <1>1 DEF ColumnLine
<1>4. ASSUME NEW N \in Nat, NEW f \in [1 .. N -> Text] PROVE f \in Seq(Text) /\ Len(f) = N
  OBVIOUS
<1>5. ColumnLine \in [1 .. 8 -> Text] /\ 8 \in Nat
  BY <1>2, <1>3
<1> QED BY <1>4, <1>5

\* What is exported is a text.
LEMMA ExportedType ==
  ASSUME NEW items \in Seq(Rule), NEW safe
  PROVE  /\ [k \in DOMAIN items |-> Line(Cells(items[k]), safe)] \in Seq(Seq(Symbol))
         /\ Exported(items, safe) \in Text
<1> DEFINE ss == [k \in DOMAIN items |-> Line(Cells(items[k]), safe)]
<1>1. DOMAIN items = 1 .. Len(items) /\ Len(items) \in Nat /\ \A n \in 1 .. Len(items) : items[n] \in Rule
  BY LenProperties
<1>2. \A n \in 1 .. Len(items) : Line(Cells(items[n]), safe) \in Seq(Symbol)
  BY <1>1, CellsType, LineType DEF Text
<1>3. ss \in Seq(Seq(Symbol))
  <2>1. ss \in [1 .. Len(items) -> Seq(Symbol)]
    BY <1>1, <1>2
  <2> QED BY <1>1, <2>1
<1>4. <<Bom>> \in Seq(Symbol) /\ Line(ColumnLine, safe) \in Seq(Symbol)
  BY Words, ColumnLineType, LineType DEF Text
<1>5. FlattenSeq(ss) \in Seq(Symbol)
  BY <1>3, FlattenType
<1>6. (<<Bom>> \o Line(ColumnLine, safe)) \o FlattenSeq(ss) \in Seq(Symbol)
  BY <1>4, <1>5, ConcatProperties
<1> QED BY <1>3, <1>6 DEF Exported, Text

(***************************************************************************)
(* The text before a position.                                             *)
(***************************************************************************)
\* The length of the byte order mark.
Off(t) == IF t # <<>> /\ t[1] = Bom THEN 1 ELSE 0

\* The text before position n, behind the mark.
Upto(t, n) == SubSeq(Body(t), 1, n - 1 - Off(t))

\* The body is what is behind the mark.
LEMMA BodyProperties ==
  ASSUME NEW t \in Text
  PROVE  /\ Body(t) \in Text /\ Len(t) \in Nat /\ Off(t) \in {0, 1} /\ Off(t) <= Len(t)
         /\ Len(Body(t)) = Len(t) - Off(t)
         /\ \A i \in 1 .. Len(t) - Off(t) : Body(t)[i] = t[i + Off(t)]
<1>1. t \in Seq(Symbol) /\ Len(t) \in Nat
  BY LenProperties DEF Text
<1>2. CASE t # <<>> /\ t[1] = Bom
  <2>1. /\ Tail(t) \in Seq(Symbol) /\ Len(Tail(t)) = Len(t) - 1
        /\ \A i \in 1 .. Len(Tail(t)) : Tail(t)[i] = t[i + 1]
    BY <1>1, <1>2, HeadTailProperties
  <2>2. Len(t) # 0
    BY <1>1, <1>2, EmptySeq
  <2>3. Body(t) = Tail(t) /\ Off(t) = 1
    BY <1>2 DEF Body, Off
  <2> QED BY <1>1, <2>1, <2>2, <2>3 DEF Text
<1>3. CASE ~(t # <<>> /\ t[1] = Bom)
  <2>1. Body(t) = t /\ Off(t) = 0
    BY <1>3 DEF Body, Off
  <2> QED BY <1>1, <2>1 DEF Text
<1> QED BY <1>2, <1>3

\* It grows by the character at n, from nothing to all of the body.
LEMMA UptoProperties ==
  ASSUME NEW t \in Text
  PROVE  /\ Upto(t, Off(t) + 1) = <<>> /\ Upto(t, Len(t) + 1) = Body(t)
         /\ \A n \in Off(t) + 1 .. Len(t) + 1 : Upto(t, n) \in Text
         /\ \A n \in Off(t) + 1 .. Len(t) : Upto(t, n + 1) = Append(Upto(t, n), t[n]) /\ t[n] \in Symbol
<1> DEFINE b == Body(t)
           o == Off(t)
           N == Len(t)
<1>1. /\ b \in Seq(Symbol) /\ N \in Nat /\ o \in {0, 1} /\ o <= N /\ Len(b) = N - o
      /\ \A i \in 1 .. N - o : b[i] = t[i + o]
  BY BodyProperties DEF Text
<1>2. \A i \in 1 .. N : t[i] \in Symbol
  BY LenProperties DEF Text
<1> HIDE DEF b, o, N
<1>3. SubSeq(b, 1, (o + 1) - 1 - o) = <<>>
  BY <1>1, SubSeqEmpty
<1>4. SubSeq(b, 1, (N + 1) - 1 - o) = b
  <2>1. (N + 1) - 1 - o = Len(b)
    BY <1>1
  <2> QED BY <1>1, <2>1, SubSeqFull
<1>5. \A i \in 1 .. N - o : b[i] \in Symbol
  BY <1>1, LenProperties
<1>6. ASSUME NEW n \in o + 1 .. N + 1 PROVE SubSeq(b, 1, n - 1 - o) \in Seq(Symbol)
  <2>1. n - 1 - o \in Int /\ \A i \in 1 .. n - 1 - o : i \in 1 .. N - o
    BY <1>1
  <2> QED BY <1>5, <2>1, SubSeqProperties
<1>7. ASSUME NEW n \in o + 1 .. N
      PROVE  SubSeq(b, 1, (n + 1) - 1 - o) = Append(SubSeq(b, 1, n - 1 - o), t[n]) /\ t[n] \in Symbol
  <2> DEFINE k == n - o
  <2>1. k \in 1 .. Len(b) /\ 1 \in 1 .. Len(b) /\ (n + 1) - 1 - o = k /\ n - 1 - o = k - 1
    BY <1>1
  <2>2. b[k] = t[n] /\ t[n] \in Symbol
    <3>1. k \in 1 .. N - o /\ k + o = n /\ n \in 1 .. N
      BY <1>1
    <3> QED BY <1>1, <1>2, <3>1
  <2>3. SubSeq(b, 1, k - 1) \in Seq(Symbol)
    <3>1. n \in o + 1 .. N + 1
      BY <1>1
    <3> QED BY <1>6, <2>1, <3>1
  <2> HIDE DEF k
  <2>4. SubSeq(b, 1, k) = SubSeq(b, 1, k - 1) \o <<b[k]>>
    BY <1>1, <2>1, SubSeqRecursiveSecond
  <2>5. SubSeq(b, 1, k) = Append(SubSeq(b, 1, k - 1), b[k])
    BY <2>2, <2>3, <2>4, AppendIsConcat
  <2> QED BY <2>1, <2>2, <2>5
<1> QED BY <1>3, <1>4, <1>6, <1>7 DEF Upto, Text, b, o, N

\* What is spoiled stays so to the end.
LEMMA SpoiledToTheEnd ==
  ASSUME NEW t \in Text, NEW n \in Off(t) + 1 .. Len(t) + 1, Spoiled(Upto(t, n))
  PROVE  ~WellFormed(t)
<1> DEFINE T == {k \in Nat : n + k \in Off(t) + 1 .. Len(t) + 1 => Spoiled(Upto(t, n + k))}
<1>1. n \in Nat /\ Len(t) \in Nat /\ Off(t) \in Nat
  <2>1. Len(t) \in Nat /\ Off(t) \in Nat
    BY BodyProperties
  <2> QED BY <2>1
<1>2. 0 \in T
  BY <1>1
<1>3. ASSUME NEW k \in Nat, k \in T PROVE k + 1 \in T
  <2> SUFFICES ASSUME n + (k + 1) \in Off(t) + 1 .. Len(t) + 1 PROVE Spoiled(Upto(t, n + (k + 1)))
    OBVIOUS
  <2>1. n + k \in Off(t) + 1 .. Len(t) /\ n + k \in Off(t) + 1 .. Len(t) + 1 /\ n + (k + 1) = (n + k) + 1
    BY <1>1
  <2>2. Spoiled(Upto(t, n + k))
    BY <1>3, <2>1
  <2>3. /\ Upto(t, n + k) \in Text /\ t[n + k] \in Symbol
        /\ Upto(t, (n + k) + 1) = Append(Upto(t, n + k), t[n + k])
    BY <2>1, UptoProperties
  <2> QED BY <2>1, <2>2, <2>3, SpoiledGrows
<1> HIDE DEF T
<1>4. \A k \in Nat : k \in T
  BY <1>2, <1>3, SetInduction
<1>5. Spoiled(Upto(t, Len(t) + 1))
  <2> DEFINE k == Len(t) + 1 - n
  <2>1. k \in Nat /\ n + k = Len(t) + 1 /\ Len(t) + 1 \in Off(t) + 1 .. Len(t) + 1
    BY <1>1
  <2> HIDE DEF k
  <2>2. n + k \in Off(t) + 1 .. Len(t) + 1 => Spoiled(Upto(t, n + k))
    BY <1>4, <2>1 DEF T
  <2> QED BY <2>1, <2>2
<1>6. Spoiled(Body(t)) /\ Body(t) \in Text
  BY <1>5, UptoProperties, BodyProperties
<1> QED BY <1>6, SpoiledIsIrregular DEF WellFormed

(***************************************************************************)
(* The parser.                                                             *)
(***************************************************************************)
\* What the flags say of the field at index.
FieldMode ==
  IF quoted THEN "quoted" ELSE IF quoteClosed THEN "closed" ELSE IF fieldStarted THEN "bare" ELSE "none"

\* The flags are never set in another way than these.
Flags ==
  /\ quoted \in BOOLEAN /\ fieldStarted \in BOOLEAN /\ quoteClosed \in BOOLEAN
  /\ quoted => fieldStarted /\ ~quoteClosed
  /\ quoteClosed => fieldStarted

\* A quote right behind a closed one would have been taken with it.
Parsing ==
  /\ Flags
  /\ index \in Off(text) + 1 .. Len(text) + 1
  /\ quoteClosed /\ index <= Len(text) => text[index] # Quote
  /\ Reads(Upto(text, index), FieldMode, field, row, rows)

\* What the import can be at.
Phases == {"idle", "parsing", "parsed", "rows", "refused", "malformed"}

\* The invariant: what has been read is what the grammar makes of it.
ParserInv ==
  /\ text \in Text
  /\ phase \in Phases
  /\ phase = "idle" => /\ quoted = FALSE /\ fieldStarted = FALSE /\ quoteClosed = FALSE
                       /\ field = <<>> /\ row = <<>> /\ rows = <<>>
  /\ phase = "parsing" => Parsing
  /\ ParserIsGrammar

\* The file is opened, and nothing of it read.
LEMMA ReadsFirst ==
  ASSUME ParserInv, phase = "idle", NEW t \in Text, NEW from, NEW m, Read(t, from, m)
  PROVE  ParserInv'
<1>1. /\ text' = t /\ phase' = "parsing" /\ index' = Off(t) + 1
      /\ quoted' = FALSE /\ fieldStarted' = FALSE /\ quoteClosed' = FALSE
      /\ field' = <<>> /\ row' = <<>> /\ rows' = <<>>
  <2>1. /\ text' = t /\ phase' = "parsing"
        /\ quoted' = quoted /\ fieldStarted' = fieldStarted /\ quoteClosed' = quoteClosed
        /\ field' = field /\ row' = row /\ rows' = rows
        /\ index' = IF t # <<>> /\ t[1] = Bom THEN 2 ELSE 1
    BY DEF Read
  <2>2. /\ quoted = FALSE /\ fieldStarted = FALSE /\ quoteClosed = FALSE
        /\ field = <<>> /\ row = <<>> /\ rows = <<>>
    BY DEF ParserInv
  <2>3. (IF t # <<>> /\ t[1] = Bom THEN 2 ELSE 1) = Off(t) + 1
    BY DEF Off
  <2> QED BY <2>1, <2>2, <2>3
<1>2. Off(t) + 1 \in Off(t) + 1 .. Len(t) + 1 /\ Upto(t, Off(t) + 1) = <<>>
  BY BodyProperties, UptoProperties, SMTT(30)
<1>3. Parsing'
  BY <1>1, <1>2, ReadsNothing DEF Parsing, Flags, FieldMode
<1> QED BY <1>1, <1>3 DEF ParserInv, Phases, ParserIsGrammar

\* What holds of every character.
LEMMA AtCharacter ==
  ASSUME ParserInv, Looking
  PROVE  /\ Flags /\ text \in Text
         /\ index \in Off(text) + 1 .. Len(text) /\ Character \in Symbol
         /\ Len(text) \in Nat /\ Off(text) \in Nat
         /\ Upto(text, index) \in Text
         /\ Upto(text, index + 1) = Append(Upto(text, index), Character)
         /\ index + 1 \in Off(text) + 1 .. Len(text) + 1
         /\ Reads(Upto(text, index), FieldMode, field, row, rows)
         /\ quoteClosed => Character # Quote
         /\ \A c : Follows(c) => /\ index + 1 \in Off(text) + 1 .. Len(text) /\ text[index + 1] = c /\ c \in Symbol
                                 /\ index + 2 \in Off(text) + 1 .. Len(text) + 1
                                 /\ Upto(text, index + 1) \in Text
                                 /\ Upto(text, index + 2) = Append(Upto(text, index + 1), c)
<1>1. Parsing /\ text \in Text /\ index <= Len(text)
  BY DEF ParserInv, Looking
<1>2. Len(text) \in Nat /\ Off(text) \in Nat
  <2>1. Off(text) \in {0, 1} /\ Len(text) \in Nat
    BY <1>1, BodyProperties
  <2> QED BY <2>1
<1>3. index \in Off(text) + 1 .. Len(text) /\ index \in Off(text) + 1 .. Len(text) + 1
      /\ index + 1 \in Off(text) + 1 .. Len(text) + 1
  BY <1>1, <1>2 DEF Parsing
<1>4. /\ Upto(text, index) \in Text /\ Character \in Symbol
      /\ Upto(text, index + 1) = Append(Upto(text, index), Character)
  BY <1>1, <1>3, UptoProperties DEF Character
<1>5. ASSUME NEW c, Follows(c)
      PROVE  /\ index + 1 \in Off(text) + 1 .. Len(text) /\ text[index + 1] = c /\ c \in Symbol
             /\ index + 2 \in Off(text) + 1 .. Len(text) + 1
             /\ Upto(text, index + 1) \in Text
             /\ Upto(text, index + 2) = Append(Upto(text, index + 1), c)
  <2>1. index < Len(text) /\ text[index + 1] = c
    BY <1>5 DEF Follows
  <2>2. index + 1 \in Off(text) + 1 .. Len(text) /\ index + 2 \in Off(text) + 1 .. Len(text) + 1
        /\ (index + 1) + 1 = index + 2
    BY <1>2, <1>3, <2>1
  <2> QED BY <1>1, <1>3, <2>1, <2>2, UptoProperties
<1>6. quoteClosed => Character # Quote
  BY <1>1 DEF Parsing, Character
<1> QED BY <1>1, <1>2, <1>3, <1>4, <1>5, <1>6 DEF Parsing

\* It is enough that Parsing holds of what comes next.
LEMMA GoesOn ==
  ASSUME ParserInv, Looking, ReadOn, Parsing'
  PROVE  ParserInv'
BY DEF ParserInv, Looking, ReadOn, ParserIsGrammar

\* The branches of the loop, one by one. Two quotes within quotes:
LEMMA DoubledQuoteStep == ParserInv /\ DoubledQuote => ParserInv'
<1> SUFFICES ASSUME ParserInv, DoubledQuote PROVE ParserInv'
  OBVIOUS
<1>1. Looking /\ quoted /\ Character = Quote /\ Follows(Quote) /\ ReadOn
  BY DEF DoubledQuote
<1>2. /\ Flags /\ Upto(text, index) \in Text /\ Upto(text, index + 1) = Append(Upto(text, index), Quote)
      /\ Reads(Upto(text, index), "quoted", field, row, rows)
      /\ index + 2 \in Off(text) + 1 .. Len(text) + 1 /\ Upto(text, index + 1) \in Text
      /\ Upto(text, index + 2) = Append(Upto(text, index + 1), Quote)
  BY <1>1, AtCharacter DEF FieldMode
<1>3. Reads(Upto(text, index + 1), "closed", field, row, rows)
  BY <1>2, ReadsQuoted
<1>4. Reads(Upto(text, index + 2), "quoted", Append(field, Quote), row, rows)
  BY <1>2, <1>3, ReadsDoubled
<1>5. Parsing'
  BY <1>1, <1>2, <1>4 DEF DoubledQuote, ReadOn, Parsing, Flags, FieldMode
<1> QED BY <1>1, <1>5, GoesOn

\* a quote alone, within quotes:
LEMMA ClosingQuoteStep == ParserInv /\ ClosingQuote => ParserInv'
<1> SUFFICES ASSUME ParserInv, ClosingQuote PROVE ParserInv'
  OBVIOUS
<1>1. Looking /\ quoted /\ Character = Quote /\ ~Follows(Quote) /\ ReadOn
  BY DEF ClosingQuote
<1>2. /\ Flags /\ Upto(text, index) \in Text /\ Upto(text, index + 1) = Append(Upto(text, index), Quote)
      /\ Reads(Upto(text, index), "quoted", field, row, rows)
      /\ index + 1 \in Off(text) + 1 .. Len(text) + 1 /\ index \in Off(text) + 1 .. Len(text)
      /\ Len(text) \in Nat /\ Off(text) \in Nat
  BY <1>1, AtCharacter DEF FieldMode
<1>3. Reads(Upto(text, index + 1), "closed", field, row, rows)
  BY <1>2, ReadsQuoted
<1>4. index + 1 <= Len(text) => text[index + 1] # Quote
  BY <1>1, <1>2 DEF Follows
<1>5. Parsing'
  BY <1>1, <1>2, <1>3, <1>4 DEF ClosingQuote, ReadOn, Parsing, Flags, FieldMode
<1> QED BY <1>1, <1>5, GoesOn

\* anything else within quotes, a line end of two characters at once:
LEMMA QuotedCharacterStep == ParserInv /\ QuotedCharacter => ParserInv'
<1> SUFFICES ASSUME ParserInv, QuotedCharacter PROVE ParserInv'
  OBVIOUS
<1>1. Looking /\ quoted /\ Character # Quote /\ ReadOn
  BY DEF QuotedCharacter
<1>2. /\ Flags /\ Upto(text, index) \in Text /\ Upto(text, index + 1) = Append(Upto(text, index), Character)
      /\ Reads(Upto(text, index), "quoted", field, row, rows) /\ Character \in Symbol
      /\ index + 1 \in Off(text) + 1 .. Len(text) + 1
  BY <1>1, AtCharacter DEF FieldMode
<1>3. Reads(Upto(text, index + 1), "quoted", Append(field, Character), row, rows)
  BY <1>1, <1>2, ReadsQuoted
<1>4. CASE Character = Cr /\ Follows(Lf)
  <2>1. /\ index + 2 \in Off(text) + 1 .. Len(text) + 1 /\ Upto(text, index + 1) \in Text
        /\ Upto(text, index + 2) = Append(Upto(text, index + 1), Lf)
    BY <1>1, <1>4, AtCharacter
  <2>2. Lf \in Symbol \ {Quote}
    BY Symbols DEF LineEnds
  <2>3. Reads(Upto(text, index + 2), "quoted", Append(Append(field, Cr), Lf), row, rows)
    BY <1>3, <1>4, <2>1, <2>2, ReadsQuoted
  <2>4. Append(Append(field, Cr), Lf) = field \o <<Cr, Lf>>
    <3>1. field \in Seq(Symbol)
      BY <1>2, ReadsTypes DEF Text
    <3> QED BY <3>1, Symbols, ConcatTwo
  <2>5. field' = Append(Append(field, Cr), Lf) /\ index' = index + 2
    BY <1>4, <2>4 DEF QuotedCharacter
  <2>6. Parsing'
    BY <1>1, <1>2, <2>1, <2>3, <2>5 DEF QuotedCharacter, ReadOn, Parsing, Flags, FieldMode
  <2> QED BY <1>1, <2>6, GoesOn
<1>5. CASE ~(Character = Cr /\ Follows(Lf))
  <2>1. field' = Append(field, Character) /\ index' = index + 1
    BY <1>5 DEF QuotedCharacter
  <2>2. Parsing'
    BY <1>1, <1>2, <1>3, <2>1 DEF QuotedCharacter, ReadOn, Parsing, Flags, FieldMode
  <2> QED BY <1>1, <2>2, GoesOn
<1> QED BY <1>4, <1>5

\* a quote before anything else of a field:
LEMMA OpeningQuoteStep == ParserInv /\ OpeningQuote => ParserInv'
<1> SUFFICES ASSUME ParserInv, OpeningQuote PROVE ParserInv'
  OBVIOUS
<1>1. Looking /\ ~quoted /\ Character = Quote /\ ~fieldStarted /\ ReadOn
  BY DEF OpeningQuote, Outside
<1>2. /\ Flags /\ Upto(text, index) \in Text /\ Upto(text, index + 1) = Append(Upto(text, index), Quote)
      /\ Reads(Upto(text, index), FieldMode, field, row, rows)
      /\ index + 1 \in Off(text) + 1 .. Len(text) + 1
  BY <1>1, AtCharacter
<1>3. FieldMode = "none" /\ ~quoteClosed
  BY <1>1, <1>2 DEF FieldMode, Flags
<1>4. Reads(Upto(text, index + 1), "quoted", field, row, rows)
  BY <1>2, <1>3, ReadsOpening
<1>5. Parsing'
  BY <1>1, <1>2, <1>3, <1>4 DEF OpeningQuote, ReadOn, Parsing, Flags, FieldMode
<1> QED BY <1>1, <1>5, GoesOn

\* a character of a bare field:
LEMMA PlainCharacterStep == ParserInv /\ PlainCharacter => ParserInv'
<1> SUFFICES ASSUME ParserInv, PlainCharacter PROVE ParserInv'
  OBVIOUS
<1>1. /\ Looking /\ ~quoted /\ Character \notin {Quote, Delimiter} \cup LineEnds /\ ReadOn
      /\ ~quoteClosed
  BY DEF PlainCharacter, Outside, AfterQuote
<1>2. /\ Flags /\ Upto(text, index) \in Text /\ Upto(text, index + 1) = Append(Upto(text, index), Character)
      /\ Reads(Upto(text, index), FieldMode, field, row, rows) /\ Character \in Symbol
      /\ index + 1 \in Off(text) + 1 .. Len(text) + 1
  BY <1>1, AtCharacter
<1>3. FieldMode \in {"none", "bare"}
  BY <1>1 DEF FieldMode
<1>4. Reads(Upto(text, index + 1), "bare", Append(field, Character), row, rows)
  BY <1>1, <1>2, <1>3, ReadsPlain
<1>5. Parsing'
  BY <1>1, <1>2, <1>4 DEF PlainCharacter, ReadOn, Parsing, Flags, FieldMode
<1> QED BY <1>1, <1>5, GoesOn

\* a delimiter:
LEMMA FieldEndStep == ParserInv /\ FieldEnd => ParserInv'
<1> SUFFICES ASSUME ParserInv, FieldEnd PROVE ParserInv'
  OBVIOUS
<1>1. Looking /\ ~quoted /\ Character = Delimiter /\ ReadOn
  BY DEF FieldEnd, Outside
<1>2. /\ Flags /\ Upto(text, index) \in Text /\ Upto(text, index + 1) = Append(Upto(text, index), Delimiter)
      /\ Reads(Upto(text, index), FieldMode, field, row, rows)
      /\ index + 1 \in Off(text) + 1 .. Len(text) + 1
  BY <1>1, AtCharacter
<1>3. FieldMode # "quoted"
  BY <1>1 DEF FieldMode
<1>4. Reads(Upto(text, index + 1), "none", <<>>, Append(row, field), rows)
  BY <1>2, <1>3, ReadsDelimiter
<1>5. Parsing'
  BY <1>1, <1>2, <1>4 DEF FieldEnd, ReadOn, Parsing, Flags, FieldMode
<1> QED BY <1>1, <1>5, GoesOn

\* a line end, of one character or two:
LEMMA RowEndStep == ParserInv /\ RowEnd => ParserInv'
<1> SUFFICES ASSUME ParserInv, RowEnd PROVE ParserInv'
  OBVIOUS
<1>1. Looking /\ ~quoted /\ Character \in LineEnds /\ ReadOn
  BY DEF RowEnd, Outside
<1>2. /\ Flags /\ Upto(text, index) \in Text /\ Upto(text, index + 1) = Append(Upto(text, index), Character)
      /\ Reads(Upto(text, index), FieldMode, field, row, rows)
      /\ index + 1 \in Off(text) + 1 .. Len(text) + 1
  BY <1>1, AtCharacter
<1>3. FieldMode # "quoted"
  BY <1>1 DEF FieldMode
<1>4. WithRow = Rowed(rows, row, field)
  BY DEF WithRow, Rowed
<1>5. Reads(Upto(text, index + 1), "none", <<>>, <<>>, WithRow)
  BY <1>1, <1>2, <1>3, <1>4, ReadsLineEnd
<1>6. Reads(Upto(text, index'), "none", <<>>, <<>>, WithRow) /\ index' \in Off(text) + 1 .. Len(text) + 1
  <2>1. CASE Character = Cr /\ Follows(Lf)
    <3>1. /\ index + 2 \in Off(text) + 1 .. Len(text) + 1 /\ Upto(text, index + 1) \in Text
          /\ Upto(text, index + 2) = Append(Upto(text, index + 1), Lf)
      BY <1>1, <2>1, AtCharacter
    <3>2. "none" # "quoted" /\ Lf \in LineEnds /\ Rowed(WithRow, <<>>, <<>>) = WithRow
      BY DEF LineEnds, Rowed
    <3>3. Reads(Upto(text, index + 2), "none", <<>>, <<>>, WithRow)
      BY <1>5, <3>1, <3>2, ReadsLineEnd
    <3> QED BY <2>1, <3>1, <3>3 DEF RowEnd
  <2>2. CASE ~(Character = Cr /\ Follows(Lf))
    BY <1>2, <1>5, <2>2 DEF RowEnd
  <2> QED BY <2>1, <2>2
<1>7. Parsing'
  BY <1>1, <1>2, <1>6 DEF RowEnd, ReadOn, Parsing, Flags, FieldMode
<1> QED BY <1>1, <1>7, GoesOn

\* What fails is not well formed.
LEMMA Malformed ==
  ASSUME ParserInv, ~WellFormed(text), Fail("malformed")
  PROVE  ParserInv'
<1>1. phase' = "malformed" /\ text' = text
  BY DEF Fail
<1>2. ~WellFormed(text)'
  BY <1>1
<1> QED BY <1>1, <1>2 DEF ParserInv, Phases, ParserIsGrammar

\* each of the three errors:
LEMMA MalformedStep ==
  ParserInv /\ (CharacterAfterQuote \/ QuoteInField \/ EndInQuotes) => ParserInv'
<1>1. ASSUME ParserInv, CharacterAfterQuote PROVE ParserInv'
  <2>1. Looking /\ ~quoted /\ quoteClosed /\ Character \notin {Delimiter} \cup LineEnds
    BY <1>1 DEF CharacterAfterQuote, AfterQuote
  <2>2. /\ Upto(text, index) \in Text /\ Upto(text, index + 1) = Append(Upto(text, index), Character)
        /\ Reads(Upto(text, index), "closed", field, row, rows) /\ Character \in Symbol /\ Character # Quote
        /\ index + 1 \in Off(text) + 1 .. Len(text) + 1 /\ text \in Text
    BY <1>1, <2>1, AtCharacter DEF FieldMode
  <2>3. Spoiled(Upto(text, index + 1))
    BY <2>1, <2>2, ReadsSpoiled
  <2>4. ~WellFormed(text)
    BY <2>2, <2>3, SpoiledToTheEnd
  <2> QED BY <1>1, <2>4, Malformed DEF CharacterAfterQuote
<1>2. ASSUME ParserInv, QuoteInField PROVE ParserInv'
  <2>1. Looking /\ ~quoted /\ ~quoteClosed /\ Character = Quote /\ fieldStarted
    BY <1>2, Symbols DEF QuoteInField, Outside, AfterQuote
  <2>2. /\ Upto(text, index) \in Text /\ Upto(text, index + 1) = Append(Upto(text, index), Quote)
        /\ Reads(Upto(text, index), "bare", field, row, rows)
        /\ index + 1 \in Off(text) + 1 .. Len(text) + 1 /\ text \in Text
    BY <1>2, <2>1, AtCharacter DEF FieldMode
  <2>3. Spoiled(Upto(text, index + 1))
    BY <2>2, ReadsSpoiled
  <2>4. ~WellFormed(text)
    BY <2>2, <2>3, SpoiledToTheEnd
  <2> QED BY <1>2, <2>4, Malformed DEF QuoteInField
<1>3. ASSUME ParserInv, EndInQuotes PROVE ParserInv'
  <2>1. phase = "parsing" /\ index > Len(text) /\ quoted
    BY <1>3 DEF EndInQuotes
  <2>2. text \in Text /\ Parsing
    BY <1>3, <2>1 DEF ParserInv
  <2>3. Off(text) \in Nat /\ Len(text) \in Nat
    <3>1. Off(text) \in {0, 1} /\ Len(text) \in Nat
      BY <2>2, BodyProperties
    <3> QED BY <3>1
  <2>4. index = Len(text) + 1
    BY <2>1, <2>2, <2>3 DEF Parsing
  <2>5. Reads(Body(text), "quoted", field, row, rows) /\ Body(text) \in Text
    BY <2>1, <2>2, <2>4, UptoProperties, BodyProperties DEF Parsing, FieldMode
  <2>6. ~WellFormed(text)
    BY <2>5, ReadsEnd DEF WellFormed
  <2> QED BY <1>3, <2>6, Malformed DEF EndInQuotes
<1> QED BY <1>1, <1>2, <1>3

\* and the end of the text.
LEMMA EndOfTextStep == ParserInv /\ EndOfText => ParserInv'
<1> SUFFICES ASSUME ParserInv, EndOfText PROVE ParserInv'
  OBVIOUS
<1>1. /\ phase = "parsing" /\ index > Len(text) /\ ~quoted
      /\ rows' = LastRow /\ phase' = "parsed" /\ text' = text
  BY DEF EndOfText
<1>2. text \in Text /\ Parsing
  BY <1>1 DEF ParserInv
<1>3. Off(text) \in Nat /\ Len(text) \in Nat
  <2>1. Off(text) \in {0, 1} /\ Len(text) \in Nat
    BY <1>2, BodyProperties
  <2> QED BY <2>1
<1>4. index = Len(text) + 1
  BY <1>1, <1>2, <1>3 DEF Parsing
<1>5. Reads(Body(text), FieldMode, field, row, rows) /\ Body(text) \in Text /\ FieldMode # "quoted"
  BY <1>1, <1>2, <1>4, UptoProperties, BodyProperties DEF Parsing, FieldMode
<1>6. WellFormed(text) /\ Table(text) = Rowed(rows, row, field)
  BY <1>5, ReadsEnd DEF WellFormed, Table
<1>7. LastRow = Rowed(rows, row, field)
  BY DEF LastRow, WithRow, Rowed
<1>8. (WellFormed(text) /\ rows = Table(text))'
  BY <1>1, <1>6, <1>7
<1> QED BY <1>1, <1>2, <1>8 DEF ParserInv, Phases, ParserIsGrammar

\* At first there is no text.
LEMMA ParserInitially == Init => ParserInv
<1> SUFFICES ASSUME Init PROVE ParserInv
  OBVIOUS
<1>1. text = <<>> /\ <<>> \in Text
  BY EmptySeq DEF Init, Idle, Text
<1> QED BY <1>1 DEF Init, Idle, ParserInv, Phases, ParserIsGrammar

\* Behind the parser nothing changes the rows or the text but to forget them.
LEMMA KeepsGrammar ==
  ASSUME ParserInv, phase \in {"parsed", "rows", "refused"},
         phase' \in {"rows", "refused"}, UNCHANGED <<text, rows>>
  PROVE  ParserInv'
<1>1. (WellFormed(text) /\ rows = Table(text))'
  BY DEF ParserInv, ParserIsGrammar
<1> QED BY <1>1 DEF ParserInv, Phases, ParserIsGrammar

\* When all is forgotten there is nothing to know.
LEMMA ForgetsGrammar ==
  ASSUME Forget
  PROVE  ParserInv'
<1>1. text' = <<>> /\ <<>> \in Text
  BY EmptySeq DEF Forget, Text
<1> QED BY <1>1 DEF Forget, ParserInv, Phases, ParserIsGrammar

\* What is read in is a text.
LEMMA ReadTextStep ==
  ASSUME ParserInv, NEW m, ReadText(m) \/ ReadExported(m)
  PROVE  ParserInv'
<1>0. phase = "idle"
  BY DEF ReadText, ReadExported, Choosing
<1>1. ASSUME ReadText(m) PROVE ParserInv'
  <2>1. PICK t \in Tables \cup Texts : Read(t, NoSource, m)
    BY <1>1 DEF ReadText
  <2>2. t \in Text
    BY ExchangeConstants
  <2> QED BY <1>0, <2>1, <2>2, ReadsFirst
<1>2. ASSUME ReadExported(m) PROVE ParserInv'
  <2>1. PICK d \in Drafts, safe \in BOOLEAN : Read(Exported(d.items, safe), [items |-> d.items, safe |-> safe], m)
    BY <1>2 DEF ReadExported
  <2>2. d.items \in Seq(Rule)
    BY ExchangeConstants
  <2>3. Exported(d.items, safe) \in Text
    BY <2>2, ExportedType
  <2> QED BY <1>0, <2>1, <2>3, ReadsFirst
<1> QED BY <1>1, <1>2

\* Every step keeps the invariant.
LEMMA ParserStep == ParserInv /\ [Next]_vars => ParserInv'
<1> SUFFICES ASSUME ParserInv, [Next]_vars PROVE ParserInv'
  OBVIOUS
<1>1. ASSUME NEW d \in Drafts, Open(d) PROVE ParserInv'
  BY <1>1 DEF Open, parser, ParserInv, ParserIsGrammar
<1>2. ASSUME NEW m \in {"append", "replace"}, ReadText(m) \/ ReadExported(m) PROVE ParserInv'
  BY <1>2, ReadTextStep
<1>3. CASE Parse
  BY <1>3, DoubledQuoteStep, ClosingQuoteStep, QuotedCharacterStep, OpeningQuoteStep, PlainCharacterStep,
     FieldEndStep, RowEndStep, MalformedStep, EndOfTextStep
     DEF Parse
<1>4. CASE RefuseHeader \/ AcceptHeader
  BY <1>4, KeepsGrammar DEF RefuseHeader, AcceptHeader, Fail, parser
<1>5. CASE SkipRow \/ RefuseRow \/ TakeRow \/ RefuseRules
  <2>1. phase = "rows" /\ phase' \in {"rows", "refused"} /\ UNCHANGED <<text, rows>>
    BY <1>5 DEF SkipRow, RefuseRow, TakeRow, RefuseRules, AtRow, AllRead, Fail, parser
  <2> QED BY <2>1, KeepsGrammar
<1>6. CASE Merge \/ Return
  BY <1>6, ForgetsGrammar DEF Merge, Return
<1>7. CASE UNCHANGED vars
  BY <1>7 DEF vars, parser, ParserInv, Parsing, Flags, FieldMode, ParserIsGrammar
<1> QED BY <1>1, <1>2, <1>3, <1>4, <1>5, <1>6, <1>7 DEF Next, Import

\* What the parser has read is, at every character of every text, what the grammar
\* makes of it: its rows, the cells of the row it is in, and the field, quoted or
\* not (parseDelimited).
THEOREM ParserSafe == Spec => []ParserInv
<1> QED BY ParserInitially, ParserStep, PTL DEF Spec

\* The parser finds the rows of the grammar, or an error where there is none, in
\* every text over every alphabet (parseDelimited).
THEOREM ParsesTheGrammar == Spec => []ParserIsGrammar
<1>1. ParserInv => ParserIsGrammar
  BY DEF ParserInv
<1> QED BY <1>1, ParserSafe, PTL

(***************************************************************************)
(* What an import makes of the rows.  Nothing depends on what the lists    *)
(* are of, so long as they are lists.                                      *)
(***************************************************************************)
\* A list, of whatever.
Listed(s) == \E S : s \in Seq(S)

\* A known name stays known when groups are added, and a group is known by its id.
LEMMA KnownNamesAppend ==
  ASSUME NEW S, NEW gs \in Seq(S), NEW g \in S
  PROVE  KnownNames(gs) \subseteq KnownNames(Append(gs, g)) /\ g.id \in KnownNames(Append(gs, g))
<1> DEFINE t == Append(gs, g)
           N == Len(gs)
<1>1. /\ N \in Nat /\ DOMAIN gs = 1 .. N /\ Len(t) = N + 1 /\ t \in Seq(S)
      /\ (\A i \in 1 .. N : t[i] = gs[i]) /\ t[N + 1] = g
  BY AppendProperties, LenProperties
<1>2. DOMAIN t = 1 .. N + 1
  BY <1>1, LenProperties
<1> HIDE DEF t, N
<1>3. \A i \in DOMAIN gs : i \in DOMAIN t /\ t[i] = gs[i]
  BY <1>1, <1>2
<1>4. N + 1 \in DOMAIN t /\ t[N + 1] = g
  BY <1>1, <1>2
<1> QED BY <1>3, <1>4 DEF KnownNames, GroupIds, t

\* Every group has an id of its own.
ProperGroups(gs) == NoGroup \notin GroupIds(gs) /\ DistinctGroups(gs)

\* A group with a new id leaves every group with an id of its own.
LEMMA ProperGroupsAppend ==
  ASSUME NEW S, NEW gs \in Seq(S), NEW g \in S, ProperGroups(gs), g.id \notin GroupIds(gs) \cup {NoGroup}
  PROVE  ProperGroups(Append(gs, g))
<1> DEFINE t == Append(gs, g)
           N == Len(gs)
<1>1. /\ N \in Nat /\ DOMAIN gs = 1 .. N /\ Len(t) = N + 1 /\ t \in Seq(S)
      /\ (\A i \in 1 .. N : t[i] = gs[i]) /\ t[N + 1] = g
  BY AppendProperties, LenProperties
<1>2. DOMAIN t = 1 .. N + 1
  BY <1>1, LenProperties
<1> HIDE DEF t, N
<1>3. \A i \in DOMAIN t : (i = N + 1 /\ t[i] = g) \/ (i \in DOMAIN gs /\ t[i] = gs[i])
  <2> TAKE i \in DOMAIN t
  <2>1. i = N + 1 \/ i \in 1 .. N
    BY <1>1, <1>2
  <2> QED BY <1>1, <2>1
<1>4. \A i \in DOMAIN gs : gs[i].id # NoGroup /\ gs[i].id # g.id
  BY DEF ProperGroups, GroupIds
<1>5. NoGroup \notin GroupIds(t)
  BY <1>3, <1>4 DEF GroupIds
<1>6. DistinctGroups(t)
  BY <1>3, <1>4 DEF DistinctGroups, ProperGroups
<1> QED BY <1>5, <1>6 DEF ProperGroups, t

\* The groups that were there stay first, and every imported rule names one.
LEMMA WithGroupsProperties ==
  ASSUME NEW gs, Listed(gs), NEW rules, Listed(rules)
  PROVE  /\ Listed(WithGroups(gs, rules))
         /\ IsPrefix(gs, WithGroups(gs, rules))
         /\ \A n \in DOMAIN rules : rules[n].group \in KnownNames(WithGroups(gs, rules)) \cup {NoGroup}
         /\ ProperGroups(gs) => ProperGroups(WithGroups(gs, rules))
<1>0. PICK A, B : gs \in Seq(A) /\ rules \in Seq(B)
  BY DEF Listed
<1> DEFINE N == Len(rules)
           S == A \cup {NewGroup(rules[n].group) : n \in 1 .. N}
           V == Seq(S)
           Next1(s, n) == IF rules[n].group \in KnownNames(s) \cup {NoGroup} THEN s
                          ELSE Append(s, NewGroup(rules[n].group))
           Body1(f) == [n \in 0 .. N |-> IF n = 0 THEN gs
                                        ELSE IF rules[n].group \in KnownNames(f[n - 1]) \cup {NoGroup}
                                             THEN f[n - 1]
                                             ELSE Append(f[n - 1], NewGroup(rules[n].group))]
           with == CHOOSE f : f = Body1(f)
           G == [z \in V \X (1 .. N) |-> Next1(z[1], z[2])]
<1>1. N \in Nat /\ DOMAIN rules = 1 .. N
  BY <1>0, LenProperties
<1>a. gs \in V
  BY <1>0, SeqMonotonic
<1>b. \A n \in 1 .. N : NewGroup(rules[n].group) \in S
  OBVIOUS
<1> HIDE DEF S
<1>2. \A s \in V, n \in 1 .. N : Next1(s, n) \in V
  BY <1>b, AppendProperties
<1>3. PICK f : Recursion(f, N, V, gs, G)
  <2>1. G \in [V \X (1 .. N) -> V] /\ gs \in V
    <3> HIDE DEF Next1
    <3> QED BY <1>2, <1>a
  <2> HIDE DEF G, V, N
  <2> QED BY <1>1, <2>1, RecursionExists
<1>4. \A n \in 1 .. N : f[n] = Next1(f[n - 1], n)
  <2> TAKE n \in 1 .. N
  <2>1. f[n - 1] \in V
    <3> HIDE DEF N, V
    <3> QED BY <1>1, <1>3 DEF Recursion
  <2> HIDE DEF Next1
  <2>2. G[<<f[n - 1], n>>] = Next1(f[n - 1], n)
    <3> HIDE DEF V, N
    <3> QED BY <2>1
  <2> HIDE DEF G
  <2> QED BY <1>3, <2>2 DEF Recursion
<1> HIDE DEF G
<1>5. f = Body1(f)
  <2>1. f[0] = gs /\ f = [n \in 0 .. N |-> f[n]]
    BY <1>3 DEF Recursion
  <2>2. \A n \in 0 .. N : f[n] = IF n = 0 THEN gs ELSE Next1(f[n - 1], n)
    <3>1. \A n \in 0 .. N : n = 0 \/ n \in 1 .. N
      BY <1>1
    <3> HIDE DEF N, Next1
    <3> QED BY <1>4, <2>1, <3>1
  <2> HIDE DEF N
  <2> QED BY <2>1, <2>2
<1>6. with = Body1(with)
  <2> HIDE DEF Body1
  <2> QED BY <1>5
<1> HIDE DEF with
<1>7. \A n \in 0 .. N : with[n] = IF n = 0 THEN gs ELSE Next1(with[n - 1], n)
  <2> HIDE DEF N
  <2> QED BY <1>6
<1> DEFINE Begins(s) == Len(gs) <= Len(s) /\ \A i \in 1 .. Len(gs) : s[i] = gs[i]
           Knows(s, n) == \A m \in 1 .. n : rules[m].group \in KnownNames(s) \cup {NoGroup}
           T == {n \in 0 .. N : with[n] \in V /\ Begins(with[n]) /\ Knows(with[n], n)}
           U == {n \in 0 .. N : ProperGroups(gs) => ProperGroups(with[n])}
<1>8. Len(gs) \in Nat
  BY <1>0, LenProperties
<1>9. ASSUME NEW n \in 1 .. N, NEW s \in V, Begins(s), Knows(s, n - 1)
      PROVE  Next1(s, n) \in V /\ Begins(Next1(s, n)) /\ Knows(Next1(s, n), n)
  <2>1. Next1(s, n) \in V
    BY <1>2, <1>9
  <2>2. \A m \in 1 .. n : m \in 1 .. n - 1 \/ m = n
    BY <1>1
  <2>3. CASE rules[n].group \in KnownNames(s) \cup {NoGroup}
    <3>1. Next1(s, n) = s
      BY <2>3
    <3>2. Knows(s, n)
      BY <1>9, <2>2, <2>3
    <3> QED BY <1>9, <2>1, <3>1, <3>2
  <2>4. CASE rules[n].group \notin KnownNames(s) \cup {NoGroup}
    <3> DEFINE g == NewGroup(rules[n].group)
               t == Append(s, g)
    <3>1. Next1(s, n) = t
      BY <2>4
    <3>2. g \in S /\ g.id = rules[n].group
      BY <1>b, <1>9 DEF NewGroup
    <3>3. Len(t) = Len(s) + 1 /\ Len(s) \in Nat /\ \A i \in 1 .. Len(s) : t[i] = s[i]
      BY <1>9, <3>2, AppendProperties, LenProperties
    <3>4. KnownNames(s) \subseteq KnownNames(t) /\ g.id \in KnownNames(t)
      BY <1>9, <3>2, KnownNamesAppend
    <3> HIDE DEF t, g
    <3>5. Begins(t)
      BY <1>8, <1>9, <3>3
    <3>6. Knows(t, n)
      BY <1>9, <2>2, <3>2, <3>4
    <3> QED BY <2>1, <3>1, <3>5, <3>6
  <2> QED BY <2>3, <2>4
<1>10. \A n \in 0 .. N : n \in T
  <2>1. 0 \in T
    <3>1. 0 \in 0 .. N
      BY <1>1
    <3>2. with[0] = gs
      BY <1>7, <3>1
    <3>3. Begins(gs) /\ Knows(gs, 0)
      BY <1>8
    <3> HIDE DEF V, N, Begins, Knows
    <3> QED BY <1>a, <3>1, <3>2, <3>3
  <2>2. ASSUME NEW n \in 1 .. N, n - 1 \in T PROVE n \in T
    <3>1. n \in 0 .. N /\ n # 0
      BY <1>1
    <3> HIDE DEF V, N, Begins, Knows, Next1
    <3>2. with[n] = Next1(with[n - 1], n)
      BY <1>7, <3>1
    <3>3. with[n - 1] \in V /\ Begins(with[n - 1]) /\ Knows(with[n - 1], n - 1)
      BY <2>2
    <3>4. Next1(with[n - 1], n) \in V /\ Begins(Next1(with[n - 1], n)) /\ Knows(Next1(with[n - 1], n), n)
      BY <1>9, <3>3
    <3> QED BY <3>1, <3>2, <3>4
  <2> HIDE DEF T, N
  <2> QED BY <1>1, <2>1, <2>2, IntervalInduction
<1>11. WithGroups(gs, rules) = with[N]
  BY DEF WithGroups, with
<1> HIDE DEF V, N, Begins, Knows
<1>12. N \in T
  BY <1>1, <1>10
<1>13. with[N] \in V /\ Begins(with[N]) /\ Knows(with[N], N)
  BY <1>12
<1> HIDE DEF T
<1>14. Listed(with[N])
  BY <1>13 DEF Listed, V
<1>15. IsPrefix(gs, with[N])
  <2> DEFINE w == with[N]
             r == SubSeq(w, 1, Len(gs))
  <2>1. w \in Seq(S) /\ Len(gs) <= Len(w) /\ (\A i \in 1 .. Len(gs) : w[i] = gs[i]) /\ gs \in Seq(S)
    BY <1>13, <1>a DEF V, Begins
  <2> HIDE DEF w
  <2>2. \A i \in 1 .. Len(gs) : w[i] \in S
    BY <2>1, ElementOfSeq
  <2>3. r \in Seq(S) /\ Len(r) = Len(gs) /\ \A i \in 1 .. Len(gs) : r[i] = w[i]
    BY <1>8, <2>2, SubSeqProperties
  <2>4. r = gs
    <3> HIDE DEF r
    <3> QED BY <2>1, <2>3, SeqEqual
  <2>5. SubSeq(gs, 1, Len(gs)) = gs
    BY <2>1, SubSeqFull
  <2> QED BY <2>1, <2>4, <2>5 DEF IsPrefix, w
<1>16. \A n \in 0 .. N : n \in U
  <2>1. 0 \in U
    <3>1. 0 \in 0 .. N
      BY <1>1
    <3> QED BY <1>7, <3>1
  <2>2. ASSUME NEW n \in 1 .. N, n - 1 \in U PROVE n \in U
    <3>1. n \in 0 .. N /\ n - 1 \in 0 .. N /\ n # 0
      BY <1>1
    <3>2. with[n] = Next1(with[n - 1], n) /\ with[n - 1] \in V
      <4>1. n - 1 \in T
        BY <1>10, <3>1
      <4> QED BY <1>7, <3>1, <4>1 DEF T
    <3>3. ASSUME rules[n].group \notin KnownNames(with[n - 1]) \cup {NoGroup}, ProperGroups(with[n - 1])
          PROVE  ProperGroups(Append(with[n - 1], NewGroup(rules[n].group)))
      <4>1. NewGroup(rules[n].group).id \notin GroupIds(with[n - 1]) \cup {NoGroup}
        BY <3>3 DEF NewGroup, KnownNames
      <4>2. NewGroup(rules[n].group) \in S
        BY <1>b DEF N
      <4> QED BY <3>2, <3>3, <4>1, <4>2, ProperGroupsAppend DEF V
    <3> QED BY <2>2, <3>1, <3>2, <3>3
  <2> HIDE DEF U
  <2> QED BY <1>1, <2>1, <2>2, IntervalInduction
<1>17. N \in U
  BY <1>1, <1>16
<1> QED BY <1>1, <1>11, <1>13, <1>14, <1>15, <1>17 DEF Knows

\* Lists behind one another.
LEMMA ListedConcat ==
  ASSUME NEW s, Listed(s), NEW t, Listed(t)
  PROVE  /\ Listed(s \o t) /\ IsPrefix(s, s \o t)
         /\ Len(s) \in Nat /\ Len(t) \in Nat /\ Len(s \o t) = Len(s) + Len(t) /\ DOMAIN t = 1 .. Len(t)
         /\ \A k \in 1 .. Len(t) : (s \o t)[Len(s) + k] = t[k]
<1>0. PICK A, B : s \in Seq(A) /\ t \in Seq(B)
  BY DEF Listed
<1> DEFINE S == A \cup B
<1>1. s \in Seq(S) /\ t \in Seq(S)
  BY <1>0, SeqMonotonic
<1> HIDE DEF S
<1> DEFINE u == s \o t
<1>2. /\ u \in Seq(S) /\ Len(u) = Len(s) + Len(t) /\ Len(s) \in Nat /\ Len(t) \in Nat
      /\ \A i \in 1 .. Len(s) + Len(t) : u[i] = IF i <= Len(s) THEN s[i] ELSE t[i - Len(s)]
      /\ DOMAIN t = 1 .. Len(t)
  BY <1>1, ConcatProperties, LenProperties
<1> HIDE DEF u
<1>3. \A k \in 1 .. Len(t) : u[Len(s) + k] = t[k]
  <2> TAKE k \in 1 .. Len(t)
  <2>1. Len(s) + k \in 1 .. Len(s) + Len(t) /\ ~(Len(s) + k <= Len(s)) /\ (Len(s) + k) - Len(s) = k
    BY <1>2
  <2> QED BY <1>2, <2>1
<1>4. IsPrefix(s, u)
  <2>1. \A i \in 1 .. Len(s) : u[i] = s[i] /\ s[i] \in S
    BY <1>1, <1>2, ElementOfSeq
  <2> DEFINE r == SubSeq(u, 1, Len(s))
  <2>2. r \in Seq(S) /\ Len(r) = Len(s) /\ \A i \in 1 .. Len(s) : r[i] = u[i]
    BY <1>2, <2>1, SubSeqProperties
  <2>3. r = s
    <3> HIDE DEF r
    <3> QED BY <1>1, <2>1, <2>2, SeqEqual
  <2>4. SubSeq(s, 1, Len(s)) = s
    BY <1>1, SubSeqFull
  <2> QED BY <1>2, <2>3, <2>4 DEF IsPrefix
<1> QED BY <1>2, <1>3, <1>4 DEF Listed, u

\* Cell, Empty and RuleRows with the rows as an argument, the first one the header.
CellOf(rs, r, name) ==
  LET header == [n \in DOMAIN rs[1] |-> Fold(Trim(rs[1][n]))]
      at == {n \in DOMAIN header \cap DOMAIN r : header[n] = <<name>>}
  IN IF at = {} THEN <<>> ELSE r[CHOOSE n \in at : TRUE]

\* A row with nothing of a rule in it,
Blank(rs, r) == CellOf(rs, r, "trigger") = <<>> /\ CellOf(rs, r, "replacement") = <<>>

\* and the rows that have something.
Filled(rs, behind) == Only(behind, {n \in DOMAIN behind : ~Blank(rs, behind[n])})

\* What a rule has of its row.
IsRuleOf(rs, rule, r) ==
  /\ rule.trigger = CellOf(rs, r, "trigger")
  /\ rule.replacement = CellOf(rs, r, "replacement")
  /\ CellOf(rs, r, "id") \in {<<>>, rule.id} /\ rule.id # <<>>

\* They are the same.
LEMMA CellIsCellOf ==
  /\ \A r, name : Cell(r, name) = CellOf(rows, r, name)
  /\ \A r : Empty(r) <=> Blank(rows, r)
  /\ RuleRows = Filled(rows, Tail(Table(text)))
<1>1. \A r, name : Cell(r, name) = CellOf(rows, r, name)
  BY DEF Cell, Header, CellOf
<1>2. \A r : Empty(r) <=> Blank(rows, r)
  BY <1>1 DEF Empty, Blank
<1>3. {n \in DOMAIN Tail(Table(text)) : ~Empty(Tail(Table(text))[n])}
        = {n \in DOMAIN Tail(Table(text)) : ~Blank(rows, Tail(Table(text))[n])}
  BY <1>2
<1>4. RuleRows = Filled(rows, Tail(Table(text)))
  BY <1>3 DEF RuleRows, Filled
<1> QED BY <1>1, <1>2, <1>4

\* A row more is one more that is filled, or none.
LEMMA FilledAppend ==
  ASSUME NEW rs, NEW behind \in Seq(Seq(Text)), NEW r \in Seq(Text)
  PROVE  /\ Filled(rs, Append(behind, r)) =
              IF Blank(rs, r) THEN Filled(rs, behind) ELSE Append(Filled(rs, behind), r)
         /\ Filled(rs, behind) \in Seq(Seq(Text))
<1> DEFINE t == Append(behind, r)
           N == Len(behind)
           Kept(s) == {n \in DOMAIN s : ~Blank(rs, s[n])}
<1>1. /\ N \in Nat /\ Len(t) = N + 1 /\ t \in Seq(Seq(Text))
      /\ (\A i \in 1 .. N : t[i] = behind[i]) /\ t[N + 1] = r /\ DOMAIN behind = 1 .. N
  BY AppendProperties, LenProperties
<1>2. DOMAIN t = 1 .. N + 1
  BY <1>1, LenProperties
<1> HIDE DEF t
<1>3. \A n \in 1 .. N : n \in Kept(behind) <=> n \in Kept(t)
  <2> TAKE n \in 1 .. N
  <2>1. n \in DOMAIN t /\ n \in DOMAIN behind /\ t[n] = behind[n]
    BY <1>1, <1>2
  <2> QED BY <2>1
<1>4. N + 1 \in Kept(t) <=> ~Blank(rs, r)
  BY <1>1, <1>2
<1>5. \A x, y : (\A n \in 1 .. N : n \in x <=> n \in y)
        => Only(t, y) = IF N + 1 \in y THEN Append(Only(behind, x), r) ELSE Only(behind, x)
  BY OnlyAppend DEF t
<1> HIDE DEF Kept
<1>6. Only(t, Kept(t)) = IF N + 1 \in Kept(t) THEN Append(Only(behind, Kept(behind)), r) ELSE Only(behind, Kept(behind))
  BY <1>3, <1>5
<1>7. Filled(rs, t) = Only(t, Kept(t)) /\ Filled(rs, behind) = Only(behind, Kept(behind))
  BY DEF Filled, Kept
<1>8. Filled(rs, behind) \in Seq(Seq(Text))
  BY <1>7, OnlyType
<1> QED BY <1>4, <1>6, <1>7, <1>8 DEF t

\* A text that is well formed has rows of texts.
LEMMA TableType ==
  ASSUME NEW t \in Text, WellFormed(t)
  PROVE  Table(t) \in Seq(Seq(Text))
<1>1. Body(t) \in Text
  BY BodyProperties
<1>2. Lines(Body(t)) \in Seq(Text)
  BY <1>1, LinesType
<1>3. AllRegular(Lines(Body(t)))
  BY DEF AllRegular, WellFormed, ToSet
<1>4. <<>> \in Text /\ Regular(<<>>)
  <2>1. Fields(<<>>) = <<<<>>>>
    BY NoText
  <2>2. Bare(<<>>)
    BY DEF Bare, Has
  <2> QED BY <2>1, <2>2, EmptySeq DEF Regular, Text, ToSet
<1> QED BY <1>2, <1>3, <1>4, RowsOfAppend DEF Table

\* An id that is made is not empty.
LEMMA MadeIdNotEmpty ==
  ASSUME NEW r \in Seq(Text)
  PROVE  MakeImportId(r) # <<>>
<1>1. \A name : CellOf(rows, r, name) \in Text
  <2> TAKE name
  <2> DEFINE header == [n \in DOMAIN rows[1] |-> Fold(Trim(rows[1][n]))]
             at == {n \in DOMAIN header \cap DOMAIN r : header[n] = <<name>>}
  <2>1. \A n \in at : r[n] \in Text
    BY LenProperties
  <2>2. <<>> \in Text
    BY EmptySeq DEF Text
  <2>3. CellOf(rows, r, name) = IF at = {} THEN <<>> ELSE r[CHOOSE n \in at : TRUE]
    BY DEF CellOf
  <2> HIDE DEF at
  <2>4. at # {} => (CHOOSE n \in at : TRUE) \in at
    OBVIOUS
  <2> QED BY <2>1, <2>2, <2>3, <2>4
<1> DEFINE base == <<"import">> \o Cell(r, "trigger") \o <<"NUL">> \o Cell(r, "replacement")
           free == {n \in DOMAIN Numerals : Append(base, Numerals[n]) \notin ExistingIds}
           x == Numerals[Min(free)]
<1>2. <<"import">> \in Seq(Symbol) /\ <<"NUL">> \in Seq(Symbol) /\ Len(<<"import">>) = 1
  <2>1. {"import", "NUL"} \subseteq Symbol
    BY ExchangeConstants
  <2>2. "import" \in Symbol /\ "NUL" \in Symbol
    BY <2>1
  <2> QED BY <2>2
<1>3. Cell(r, "trigger") \in Seq(Symbol) /\ Cell(r, "replacement") \in Seq(Symbol)
  BY <1>1, CellIsCellOf DEF Text
<1> DEFINE a == <<"import">> \o Cell(r, "trigger")
           b == a \o <<"NUL">>
<1>4. a \in Seq(Symbol) /\ Len(a) \in Nat \ {0}
  <2>1. a \in Seq(Symbol) /\ Len(a) = 1 + Len(Cell(r, "trigger"))
    BY <1>2, <1>3, ConcatProperties
  <2> QED BY <1>3, <2>1, LenProperties
<1> HIDE DEF a
<1>5. b \in Seq(Symbol) /\ Len(b) \in Nat \ {0}
  <2>1. b \in Seq(Symbol) /\ Len(b) = Len(a) + Len(<<"NUL">>) /\ Len(<<"NUL">>) = 1
    BY <1>2, <1>4, ConcatProperties
  <2> QED BY <1>4, <2>1
<1>6. base = b \o Cell(r, "replacement")
  BY DEF a
<1> HIDE DEF b, base
<1>7. base \in Seq(Symbol) /\ Len(base) \in Nat \ {0}
  <2>1. base \in Seq(Symbol) /\ Len(base) = Len(b) + Len(Cell(r, "replacement"))
    BY <1>3, <1>5, <1>6, ConcatProperties
  <2> QED BY <1>3, <1>5, <2>1, LenProperties
<1>8. base # <<>>
  BY <1>7, EmptySeq
<1>9. Append(base, x) # <<>>
  <2>1. base \in Seq(Symbol \cup {x})
    BY <1>7, SeqMonotonic
  <2> HIDE DEF x
  <2> QED BY <2>1, AppendProperties
<1>10. MakeImportId(r) = IF base \notin ExistingIds THEN base ELSE Append(base, x)
  BY DEF MakeImportId, base
<1> HIDE DEF x
<1> QED BY <1>8, <1>9, <1>10

\* A row becomes its rule.
LEMMA RuleOfRowIsRuleOf ==
  ASSUME NEW r \in Seq(Text)
  PROVE  IsRuleOf(rows, RuleOfRow(r), r)
<1> DEFINE rule == RuleOfRow(r)
<1>1. /\ rule.trigger = Cell(r, "trigger") /\ rule.replacement = Cell(r, "replacement")
      /\ rule.id = RowId(r)
  BY DEF RuleOfRow
<1>2. Cell(r, "id") \in {<<>>, rule.id} /\ rule.id # <<>>
  BY <1>1, MadeIdNotEmpty DEF RowId
<1> HIDE DEF rule
<1> QED BY <1>1, <1>2, CellIsCellOf DEF IsRuleOf, rule

\* The rows behind the header that have been looked at.
Seen == SubSeq(rows, 2, rowIndex - 1)

\* imported is the rules of the rows that have been seen.
Taken ==
  /\ rowIndex \in 2 .. Len(rows) + 1
  /\ Listed(imported) /\ Len(imported) = Len(Filled(rows, Seen))
  /\ \A k \in DOMAIN imported : IsRuleOf(rows, imported[k], Filled(rows, Seen)[k])

\* What holds throughout an import.
ImportInv ==
  /\ ParserInv
  /\ mode \in {"append", "replace"}
  /\ Listed(draft.items) /\ Listed(draft.groups) /\ ProperGroups(draft.groups)
  /\ phase \in {"idle", "parsing", "parsed"} => imported = <<>>
  /\ phase = "rows" => Taken

\* Nothing is being imported at first.
LEMMA ImportInitially == Init => ImportInv
<1> SUFFICES ASSUME Init PROVE ImportInv
  OBVIOUS
<1>1. ParserInv
  BY ParserInitially
<1>2. phase = "idle" /\ mode = "append" /\ imported = <<>>
  BY DEF Init, Idle
<1>3. Listed(draft.items) /\ Listed(draft.groups) /\ ProperGroups(draft.groups)
  BY ExchangeConstants DEF Init, Listed, ProperGroups
<1> QED BY <1>1, <1>2, <1>3 DEF ImportInv

\* The rows are known when the text has been read.
LEMMA RowsType ==
  ASSUME ParserInv, phase \in {"parsed", "rows"}
  PROVE  rows \in Seq(Seq(Text)) /\ rows = Table(text) /\ Len(rows) \in Nat
<1>1. WellFormed(text) /\ rows = Table(text) /\ text \in Text
  BY DEF ParserInv, ParserIsGrammar
<1> QED BY <1>1, TableType, LenProperties

\* The row at rowIndex is seen.
LEMMA SeenGrows ==
  ASSUME ImportInv, AtRow, rows' = rows, rowIndex' = rowIndex + 1
  PROVE  /\ Seen' = Append(Seen, rows[rowIndex]) /\ Seen \in Seq(Seq(Text)) /\ rows[rowIndex] \in Seq(Text)
         /\ rowIndex' \in 2 .. Len(rows') + 1
<1>1. rows \in Seq(Seq(Text)) /\ Len(rows) \in Nat /\ rowIndex \in 2 .. Len(rows)
  BY RowsType DEF ImportInv, AtRow, Taken
<1>2. \A i \in 2 .. rowIndex : i \in 1 .. Len(rows)
  BY <1>1
<1>3. rows[rowIndex] \in Seq(Text) /\ \A i \in 2 .. rowIndex - 1 : rows[i] \in Seq(Text)
  BY <1>1, <1>2, ElementOfSeq
<1>4. Seen \in Seq(Seq(Text))
  BY <1>1, <1>3, SubSeqProperties DEF Seen
<1>5. (rowIndex + 1) - 1 = rowIndex
  BY <1>1
<1>6. SubSeq(rows, 2, rowIndex) = Seen \o <<rows[rowIndex]>>
  <2>1. 2 \in 1 .. Len(rows) /\ rowIndex \in 2 .. Len(rows)
    BY <1>1
  <2> QED BY <1>1, <2>1, SubSeqRecursiveSecond DEF Seen
<1>7. Seen' = SubSeq(rows, 2, rowIndex)
  BY <1>5 DEF Seen
<1>8. Seen \o <<rows[rowIndex]>> = Append(Seen, rows[rowIndex])
  <2>1. ASSUME NEW s \in Seq(Seq(Text)), NEW e \in Seq(Text) PROVE Append(s, e) = s \o <<e>>
    BY AppendIsConcat
  <2> QED BY <1>3, <1>4, <2>1
<1>9. rowIndex' \in 2 .. Len(rows') + 1
  BY <1>1
<1> QED BY <1>3, <1>4, <1>6, <1>7, <1>8, <1>9

\* A row that is empty is passed over.
LEMMA SkipRowTaken ==
  ASSUME ImportInv, SkipRow
  PROVE  Taken'
<1>1. /\ AtRow /\ Empty(rows[rowIndex]) /\ rowIndex' = rowIndex + 1
      /\ rows' = rows /\ imported' = imported /\ phase = "rows"
  BY DEF SkipRow, parser, AtRow
<1>2. /\ Seen' = Append(Seen, rows[rowIndex]) /\ Seen \in Seq(Seq(Text)) /\ rows[rowIndex] \in Seq(Text)
      /\ rowIndex' \in 2 .. Len(rows') + 1
  BY <1>1, SeenGrows
<1>3. Filled(rows, Append(Seen, rows[rowIndex])) = Filled(rows, Seen)
  BY <1>1, <1>2, CellIsCellOf, FilledAppend
<1>4. Filled(rows', Seen') = Filled(rows, Seen)
  BY <1>1, <1>2, <1>3
<1>5. Taken
  BY <1>1 DEF ImportInv
<1>6. /\ Listed(imported') /\ Len(imported') = Len(Filled(rows', Seen'))
      /\ \A k \in DOMAIN imported' : IsRuleOf(rows', imported'[k], Filled(rows', Seen')[k])
  BY <1>1, <1>4, <1>5 DEF Taken
<1> QED BY <1>2, <1>6 DEF Taken

\* A row that is one of a rule adds that rule.
LEMMA TakeRowTaken ==
  ASSUME ImportInv, TakeRow
  PROVE  Taken'
<1> DEFINE r == rows[rowIndex]
           rule == RuleOfRow(r)
           f == Filled(rows, Seen)
<1>1. /\ AtRow /\ ~Empty(r) /\ rowIndex' = rowIndex + 1
      /\ rows' = rows /\ imported' = Append(imported, rule) /\ phase = "rows"
  BY DEF TakeRow, parser, AtRow
<1>2. /\ Seen' = Append(Seen, r) /\ Seen \in Seq(Seq(Text)) /\ r \in Seq(Text)
      /\ rowIndex' \in 2 .. Len(rows') + 1
  BY <1>1, SeenGrows
<1> HIDE DEF r, rule
<1>3. Filled(rows, Append(Seen, r)) = Append(f, r) /\ f \in Seq(Seq(Text))
  BY <1>1, <1>2, CellIsCellOf, FilledAppend
<1>4. IsRuleOf(rows, rule, r)
  BY <1>2, RuleOfRowIsRuleOf DEF rule
<1>5. /\ Listed(imported) /\ Len(imported) = Len(f)
      /\ \A k \in DOMAIN imported : IsRuleOf(rows, imported[k], f[k])
  BY <1>1 DEF ImportInv, Taken
<1>6. Filled(rows', Seen') = Append(f, r)
  BY <1>1, <1>2, <1>3
<1> HIDE DEF f
<1> DEFINE g == Append(f, r)
           all == Append(imported, rule)
<1>7. PICK S : imported \in Seq(S)
  BY <1>5 DEF Listed
<1>8. imported \in Seq(S \cup {rule})
  BY <1>7, SeqMonotonic
<1>9. /\ all \in Seq(S \cup {rule}) /\ Len(all) = Len(f) + 1 /\ Len(f) \in Nat
      /\ (\A k \in 1 .. Len(f) : all[k] = imported[k]) /\ all[Len(f) + 1] = rule
      /\ DOMAIN imported = 1 .. Len(f)
  BY <1>5, <1>8, AppendProperties, LenProperties
<1>10. DOMAIN all = 1 .. Len(f) + 1
  BY <1>9, LenProperties
<1>11. Len(g) = Len(f) + 1 /\ (\A k \in 1 .. Len(f) : g[k] = f[k]) /\ g[Len(f) + 1] = r
  BY <1>2, <1>3, AppendProperties
<1> HIDE DEF g, all
<1>12. \A k \in DOMAIN all : IsRuleOf(rows, all[k], g[k])
  <2> TAKE k \in DOMAIN all
  <2>1. k \in 1 .. Len(f) \/ k = Len(f) + 1
    BY <1>9, <1>10
  <2> QED BY <1>4, <1>5, <1>9, <1>11, <2>1
<1>13. Listed(all)
  BY <1>9 DEF Listed
<1>14. imported' = all /\ Filled(rows', Seen') = g
  BY <1>1, <1>6 DEF all, g
<1>15. /\ Listed(imported') /\ Len(imported') = Len(Filled(rows', Seen'))
       /\ \A k \in DOMAIN imported' : IsRuleOf(rows', imported'[k], Filled(rows', Seen')[k])
  BY <1>1, <1>9, <1>11, <1>12, <1>13, <1>14
<1> QED BY <1>2, <1>15 DEF Taken

\* Behind the header nothing has been seen.
LEMMA AcceptHeaderTaken ==
  ASSUME ImportInv, AcceptHeader
  PROVE  Taken'
<1>1. phase = "parsed" /\ rowIndex' = 2 /\ rows' = rows /\ imported' = <<>> /\ rows # <<>>
  BY DEF AcceptHeader, HeaderOK, parser, ImportInv
<1>2. rows \in Seq(Seq(Text)) /\ Len(rows) \in Nat \ {0}
  <2>1. rows \in Seq(Seq(Text))
    BY <1>1, RowsType DEF ImportInv
  <2> QED BY <1>1, <2>1, EmptySeq
<1>3. Seen' = <<>>
  <2>1. SubSeq(rows', 2, 2 - 1) = <<>>
    BY SubSeqEmpty
  <2> QED BY <1>1, <2>1 DEF Seen
<1>4. Filled(rows', <<>>) = <<>>
  BY OnlyEmpty DEF Filled
<1>5. Listed(<<>>) /\ DOMAIN <<>> = {}
  BY EmptySeq DEF Listed
<1>6. /\ Listed(imported') /\ Len(imported') = Len(Filled(rows', Seen'))
      /\ \A k \in DOMAIN imported' : IsRuleOf(rows', imported'[k], Filled(rows', Seen')[k])
  BY <1>1, <1>3, <1>4, <1>5
<1>7. rowIndex' \in 2 .. Len(rows') + 1
  BY <1>1, <1>2
<1> QED BY <1>6, <1>7 DEF Taken

\* The rules that stay and those that come are a list, and so are the groups.
LEMMA MergedProperties ==
  ASSUME ImportInv, phase = "rows"
  PROVE  LET kept == IF mode = "append" THEN draft.items ELSE <<>>
         IN /\ Merged.items = kept \o imported /\ Merged.groups = WithGroups(draft.groups, imported)
            /\ Listed(kept) /\ Listed(imported)
            /\ Listed(Merged.items) /\ Listed(Merged.groups) /\ ProperGroups(Merged.groups)
            /\ IsPrefix(kept, Merged.items) /\ IsPrefix(draft.groups, Merged.groups)
            /\ Len(kept) \in Nat /\ Len(imported) \in Nat /\ DOMAIN imported = 1 .. Len(imported)
            /\ Len(Merged.items) = Len(kept) + Len(imported)
            /\ \A k \in 1 .. Len(imported) : Merged.items[Len(kept) + k] = imported[k]
            /\ \A k \in 1 .. Len(imported) :
                 imported[k].group \in KnownNames(Merged.groups) \cup {NoGroup}
<1> DEFINE kept == IF mode = "append" THEN draft.items ELSE <<>>
<1>1. /\ Listed(imported) /\ Listed(draft.groups) /\ Listed(draft.items) /\ mode \in {"append", "replace"}
      /\ ProperGroups(draft.groups)
  BY DEF ImportInv, Taken
<1>2. Listed(<<>>)
  BY EmptySeq DEF Listed
<1>3. Listed(kept)
  BY <1>1, <1>2
<1>4. Merged.items = kept \o imported /\ Merged.groups = WithGroups(draft.groups, imported)
  BY <1>1 DEF Merged
<1> HIDE DEF kept
<1>5. /\ Listed(kept \o imported) /\ IsPrefix(kept, kept \o imported)
      /\ Len(kept) \in Nat /\ Len(imported) \in Nat /\ DOMAIN imported = 1 .. Len(imported)
      /\ Len(kept \o imported) = Len(kept) + Len(imported)
      /\ \A k \in 1 .. Len(imported) : (kept \o imported)[Len(kept) + k] = imported[k]
  BY <1>1, <1>3, ListedConcat
<1>6. /\ Listed(Merged.groups) /\ ProperGroups(Merged.groups) /\ IsPrefix(draft.groups, Merged.groups)
      /\ \A k \in DOMAIN imported : imported[k].group \in KnownNames(Merged.groups) \cup {NoGroup}
  BY <1>1, <1>4, WithGroupsProperties
<1> QED BY <1>1, <1>3, <1>4, <1>5, <1>6 DEF kept

\* Every step keeps it, whatever is imported.
LEMMA ImportStep == ImportInv /\ [Next]_vars => ImportInv'
<1> SUFFICES ASSUME ImportInv, [Next]_vars PROVE ImportInv'
  OBVIOUS
<1>0. ParserInv'
  BY ParserStep DEF ImportInv
<1>1. ASSUME NEW d \in Drafts, Open(d) PROVE ImportInv'
  <2>1. Listed(d.items) /\ Listed(d.groups) /\ ProperGroups(d.groups)
    BY ExchangeConstants DEF Listed, ProperGroups
  <2> QED BY <1>0, <1>1, <2>1 DEF Open, ImportInv
<1>2. ASSUME NEW m \in {"append", "replace"}, ReadText(m) \/ ReadExported(m) PROVE ImportInv'
  <2>1. phase = "idle" /\ phase' = "parsing" /\ mode' = m /\ draft' = draft /\ imported' = imported
    BY <1>2 DEF ReadText, ReadExported, Read, Choosing
  <2> QED BY <1>0, <2>1 DEF ImportInv
<1>3. CASE Parse
  <2>1. phase = "parsing" /\ phase' \in {"parsing", "parsed", "malformed"}
        /\ mode' = mode /\ draft' = draft /\ imported' = imported
    BY <1>3 DEF Parse, DoubledQuote, ClosingQuote, QuotedCharacter, CharacterAfterQuote, QuoteInField,
         OpeningQuote, FieldEnd, RowEnd, PlainCharacter, EndInQuotes, EndOfText,
         Looking, Outside, ReadOn, Fail
  <2> QED BY <1>0, <2>1 DEF ImportInv
<1>4. CASE RefuseHeader \/ RefuseRow \/ RefuseRules
  <2>1. phase' = "refused" /\ mode' = mode /\ draft' = draft
    BY <1>4 DEF RefuseHeader, RefuseRow, RefuseRules, Fail
  <2> QED BY <1>0, <2>1 DEF ImportInv
<1>5. CASE AcceptHeader
  <2>1. phase' = "rows" /\ mode' = mode /\ draft' = draft
    BY <1>5 DEF AcceptHeader
  <2> QED BY <1>0, <1>5, <2>1, AcceptHeaderTaken DEF ImportInv
<1>6. CASE SkipRow
  <2>1. phase' = "rows" /\ mode' = mode /\ draft' = draft
    BY <1>6 DEF SkipRow, AtRow
  <2> QED BY <1>0, <1>6, <2>1, SkipRowTaken DEF ImportInv
<1>7. CASE TakeRow
  <2>1. phase' = "rows" /\ mode' = mode /\ draft' = draft
    BY <1>7 DEF TakeRow, AtRow
  <2> QED BY <1>0, <1>7, <2>1, TakeRowTaken DEF ImportInv
<1>8. CASE Merge
  <2>1. phase = "rows" /\ phase' = "idle" /\ mode' = "append" /\ draft' = Merged /\ imported' = <<>>
    BY <1>8 DEF Merge, Forget, AllRead
  <2>2. Listed(Merged.items) /\ Listed(Merged.groups) /\ ProperGroups(Merged.groups)
    BY <2>1, MergedProperties DEF ImportInv
  <2> QED BY <1>0, <2>1, <2>2 DEF ImportInv
<1>9. CASE Return
  <2>1. phase' = "idle" /\ mode' = "append" /\ draft' = draft /\ imported' = <<>>
    BY <1>9 DEF Return, Forget
  <2> QED BY <1>0, <2>1 DEF ImportInv
<1>10. CASE UNCHANGED vars
  <2>1. /\ phase' = phase /\ mode' = mode /\ draft' = draft /\ imported' = imported
        /\ rows' = rows /\ rowIndex' = rowIndex
    BY <1>10 DEF vars, parser
  <2>2. Taken' <=> Taken
    BY <2>1 DEF Taken, Seen
  <2> QED BY <1>0, <2>1, <2>2 DEF ImportInv
<1> QED BY <1>1, <1>2, <1>3, <1>4, <1>5, <1>6, <1>7, <1>8, <1>9, <1>10 DEF Next, Import

\* What is put behind the rules is the rows of the grammar.
LEMMA MergeTakesRows ==
  ASSUME ImportInv, Merge
  PROVE  /\ Len(imported) = Len(RuleRows) /\ DOMAIN RuleRows = 1 .. Len(RuleRows)
         /\ \A k \in 1 .. Len(imported) : IsRuleOf(rows, imported[k], RuleRows[k])
<1>1. phase = "rows" /\ rowIndex > Len(rows) /\ Taken
  BY DEF Merge, AllRead, ImportInv
<1>2. rows \in Seq(Seq(Text)) /\ rows = Table(text) /\ Len(rows) \in Nat
  BY <1>1, RowsType DEF ImportInv
<1>3. rowIndex = Len(rows) + 1 /\ rowIndex - 1 = Len(rows) /\ rows # <<>>
  <2>1. rowIndex \in 2 .. Len(rows) + 1
    BY <1>1 DEF Taken
  <2>2. rowIndex = Len(rows) + 1 /\ rowIndex - 1 = Len(rows) /\ Len(rows) > 0
    BY <1>1, <1>2, <2>1
  <2> QED BY <2>2, EmptySeq
<1>4. Seen = Tail(rows)
  BY <1>2, <1>3, TailIsSubSeq DEF Seen
<1>5. RuleRows = Filled(rows, Seen)
  BY <1>2, <1>4, CellIsCellOf
<1>6. Filled(rows, Seen) \in Seq(Seq(Text))
  <2>1. Tail(rows) \in Seq(Seq(Text))
    BY <1>2, <1>3, HeadTailProperties
  <2> QED BY <1>4, <2>1, OnlyType DEF Filled
<1>7. /\ Len(imported) = Len(RuleRows) /\ DOMAIN imported = 1 .. Len(imported)
      /\ \A k \in DOMAIN imported : IsRuleOf(rows, imported[k], RuleRows[k])
  <2>1. DOMAIN imported = 1 .. Len(imported)
    BY <1>1, LenProperties DEF Taken, Listed
  <2> QED BY <1>1, <1>5, <2>1 DEF Taken
<1> QED BY <1>5, <1>6, <1>7, LenProperties

\* Rules of a document that is accepted have ids of their own.
LEMMA AcceptedIds ==
  ASSUME NEW d, Accepted(d)
  PROVE  \A i, j \in DOMAIN d.items : d.items[i].id = d.items[j].id => i = j
BY DEF Accepted, Valid

\* An import adds its rows, all of them and nothing else, behind the rules that
\* stay; ids that the file gives are kept, the others are new; and every group a
\* rule names exists (importDelimited).
THEOREM ImportAddsItsRows == Spec => RowsBecomeRules
<1> DEFINE Added ==
             draft' # draft /\ phase # "idle" =>
               LET kept == IF mode = "append" THEN draft.items ELSE <<>>
                   all == draft'.items
               IN /\ Len(all) = Len(kept) + Len(RuleRows)
                  /\ IsPrefix(kept, all) /\ IsPrefix(draft.groups, draft'.groups)
                  /\ \A i, j \in DOMAIN all : all[i].id = all[j].id => i = j
                  /\ \A k \in DOMAIN RuleRows :
                       LET r == RuleRows[k]
                           rule == all[Len(kept) + k]
                       IN /\ rule.trigger = Cell(r, "trigger")
                          /\ rule.replacement = Cell(r, "replacement")
                          /\ Cell(r, "id") \in {<<>>, rule.id}
                          /\ rule.id # <<>>
                          /\ rule.group \in KnownNames(draft'.groups) \cup {NoGroup}
<1>1. Spec => []ImportInv
  BY ImportInitially, ImportStep, PTL DEF Spec
<1>2. ImportInv /\ [Next]_vars => Added
  <2> SUFFICES ASSUME ImportInv, [Next]_vars, draft' # draft, phase # "idle" PROVE Added
    OBVIOUS
  <2>1. Merge
    BY DEF Next, Open, ReadText, ReadExported, Read, Choosing, Parse, DoubledQuote, ClosingQuote,
           QuotedCharacter, CharacterAfterQuote, QuoteInField, OpeningQuote, FieldEnd, RowEnd,
           PlainCharacter, EndInQuotes, EndOfText, ReadOn, Fail, Import, RefuseHeader, AcceptHeader,
           SkipRow, RefuseRow, TakeRow, RefuseRules, Return, vars
  <2> DEFINE kept == IF mode = "append" THEN draft.items ELSE <<>>
  <2>2. draft' = Merged /\ phase = "rows" /\ Accepted(Merged)
    BY <2>1 DEF Merge, AllRead, Mergeable
  <2>3. /\ IsPrefix(kept, Merged.items) /\ IsPrefix(draft.groups, Merged.groups)
        /\ Len(Merged.items) = Len(kept) + Len(imported)
        /\ \A k \in 1 .. Len(imported) : Merged.items[Len(kept) + k] = imported[k]
        /\ \A k \in 1 .. Len(imported) :
             imported[k].group \in KnownNames(Merged.groups) \cup {NoGroup}
    BY <2>2, MergedProperties
  <2>4. /\ Len(imported) = Len(RuleRows) /\ DOMAIN RuleRows = 1 .. Len(RuleRows)
        /\ \A k \in 1 .. Len(imported) : IsRuleOf(rows, imported[k], RuleRows[k])
    BY <2>1, MergeTakesRows
  <2>5. \A i, j \in DOMAIN Merged.items : Merged.items[i].id = Merged.items[j].id => i = j
    BY <2>2, AcceptedIds
  <2> HIDE DEF kept
  <2>6. ASSUME NEW k \in DOMAIN RuleRows
        PROVE  LET r == RuleRows[k]
                   rule == Merged.items[Len(kept) + k]
               IN /\ rule.trigger = Cell(r, "trigger")
                  /\ rule.replacement = Cell(r, "replacement")
                  /\ Cell(r, "id") \in {<<>>, rule.id}
                  /\ rule.id # <<>>
                  /\ rule.group \in KnownNames(Merged.groups) \cup {NoGroup}
    <3>1. k \in 1 .. Len(imported)
      BY <2>4, <2>6
    <3>2. Merged.items[Len(kept) + k] = imported[k] /\ IsRuleOf(rows, imported[k], RuleRows[k])
          /\ imported[k].group \in KnownNames(Merged.groups) \cup {NoGroup}
      BY <2>3, <2>4, <3>1
    <3> QED BY <3>2, CellIsCellOf DEF IsRuleOf
  <2> QED BY <2>2, <2>3, <2>4, <2>5, <2>6 DEF kept
<1> QED BY <1>1, <1>2, PTL DEF Spec, RowsBecomeRules

(***************************************************************************)
(* How what is exported is read.                                           *)
(***************************************************************************)
\* A list that is longer by one.
LEMMA OneMore ==
  ASSUME NEW S, NEW s \in Seq(S), NEW t \in Seq(S), Len(t) = Len(s) + 1, \A i \in 1 .. Len(s) : t[i] = s[i]
  PROVE  t = Append(s, t[Len(s) + 1])
<1> DEFINE N == Len(s)
           e == t[N + 1]
           u == Append(s, e)
<1>1. N \in Nat /\ N + 1 \in 1 .. Len(t)
  BY LenProperties
<1>2. e \in S
  BY <1>1, ElementOfSeq
<1>3. u \in Seq(S) /\ Len(u) = N + 1 /\ (\A i \in 1 .. N : u[i] = s[i]) /\ u[N + 1] = e
  BY <1>2, AppendProperties
<1> HIDE DEF u
<1>4. \A i \in 1 .. N + 1 : t[i] = u[i]
  <2> TAKE i \in 1 .. N + 1
  <2>1. i \in 1 .. N \/ i = N + 1
    BY <1>1
  <2> QED BY <1>3, <2>1
<1>5. t = u
  BY <1>3, <1>4, SeqEqual
<1> QED BY <1>5 DEF u

\* A character more is one more, or two.
LEMMA DoubledAppend ==
  ASSUME NEW v \in Text, NEW c \in Symbol
  PROVE  Doubled(Append(v, c)) = Doubled(v) \o (IF c = Quote THEN <<Quote, Quote>> ELSE <<c>>)
<1> DEFINE t == Append(v, c)
           N == Len(v)
           D(s) == [i \in DOMAIN s |-> IF s[i] = Quote THEN <<Quote, Quote>> ELSE <<s[i]>>]
           w == IF c = Quote THEN <<Quote, Quote>> ELSE <<c>>
<1>1. /\ t \in Text /\ Len(t) = N + 1 /\ N \in Nat /\ (\A i \in 1 .. N : t[i] = v[i]) /\ t[N + 1] = c
      /\ DOMAIN v = 1 .. N
  BY AppendProperties, LenProperties DEF Text
<1>2. DOMAIN t = 1 .. N + 1
  BY <1>1, LenProperties DEF Text
<1> HIDE DEF t
<1>3. D(v) \in Seq(Seq(Symbol)) /\ D(t) \in Seq(Seq(Symbol))
  BY <1>1, DoubledType
<1>4. Len(D(v)) = N /\ Len(D(t)) = N + 1
  <2>1. DOMAIN D(v) = 1 .. N /\ DOMAIN D(t) = 1 .. N + 1
    BY <1>1, <1>2
  <2> HIDE DEF D
  <2>2. Len(D(v)) \in Nat /\ DOMAIN D(v) = 1 .. Len(D(v)) /\ Len(D(t)) \in Nat /\ DOMAIN D(t) = 1 .. Len(D(t))
    BY <1>3, LenProperties
  <2> HIDE DEF N
  <2>3. ASSUME NEW a \in Nat, NEW b \in Nat, 1 .. a = 1 .. b PROVE a = b
    <3>1. (a >= 1 => a \in 1 .. b) /\ (b >= 1 => b \in 1 .. a)
      BY <2>3
    <3> QED BY <3>1
  <2>4. N + 1 \in Nat
    BY <1>1
  <2> QED BY <1>1, <2>1, <2>2, <2>3, <2>4
<1>5. D(t)[N + 1] = w /\ \A i \in 1 .. N : D(t)[i] = D(v)[i]
  <2>1. N + 1 \in DOMAIN t /\ \A i \in 1 .. N : i \in DOMAIN t /\ i \in DOMAIN v
    BY <1>1, <1>2
  <2> QED BY <1>1, <2>1
<1>6. Doubled(v) = FlattenSeq(D(v)) /\ Doubled(t) = FlattenSeq(D(t))
  BY DEF Doubled
<1> HIDE DEF D, w, N
<1>7. D(t) = Append(D(v), w)
  <2>1. D(t) = Append(D(v), D(t)[Len(D(v)) + 1])
    BY <1>3, <1>4, <1>5, OneMore
  <2> QED BY <1>4, <1>5, <2>1
<1>8. w \in Seq(Symbol)
  BY Words DEF w
<1>9. FlattenSeq(D(t)) = FlattenSeq(D(v)) \o w
  BY <1>3, <1>7, <1>8, FlattenAppend
<1> QED BY <1>6, <1>9 DEF w, t

\* A field in quotes is read as its value: what is in the quotes first,
LEMMA ReadsPairs ==
  ASSUME NEW t \in Text, NEW r, NEW rs, Reads(t, "quoted", <<>>, r, rs)
  PROVE  \A v \in Text : Reads(t \o Doubled(v), "quoted", v, r, rs)
<1> DEFINE T == {v \in Text : Reads(t \o Doubled(v), "quoted", v, r, rs)}
<1>1. <<>> \in T
  <2>1. Doubled(<<>>) = <<>>
    <3>1. [i \in DOMAIN <<>> |-> IF <<>>[i] = Quote THEN <<Quote, Quote>> ELSE <<<<>>[i]>>] = <<>>
      OBVIOUS
    <3> QED BY <3>1, FlattenEmpty DEF Doubled
  <2>2. <<>> \in Text /\ t \o <<>> = t
    BY EmptySeq, ConcatEmptySeq DEF Text
  <2> QED BY <2>1, <2>2
<1>2. ASSUME NEW v \in Text, NEW c \in Symbol, v \in T PROVE Append(v, c) \in T
  <2> DEFINE u == t \o Doubled(v)
             w == IF c = Quote THEN <<Quote, Quote>> ELSE <<c>>
  <2>0. Append(v, c) \in Text
    BY AppendProperties DEF Text
  <2>1. Reads(u, "quoted", v, r, rs)
    BY <1>2
  <2>2. Doubled(v) \in Seq(Symbol) /\ t \in Seq(Symbol) /\ w \in Seq(Symbol) /\ u \in Seq(Symbol)
    <3>1. Doubled(v) \in Seq(Symbol) /\ t \in Seq(Symbol)
      BY DoubledType DEF Text
    <3>2. <<Quote, Quote>> \in Seq(Symbol) /\ <<c>> \in Seq(Symbol)
      BY Words
    <3>3. t \o Doubled(v) \in Seq(Symbol)
      BY <3>1, ConcatProperties
    <3> QED BY <3>1, <3>2, <3>3
  <2>3. t \o Doubled(Append(v, c)) = u \o w
    <3>1. Doubled(Append(v, c)) = Doubled(v) \o w
      BY DoubledAppend
    <3> HIDE DEF w
    <3> QED BY <2>2, <3>1, ConcatAssociative
  <2> HIDE DEF u
  <2>4. Reads(u \o w, "quoted", Append(v, c), r, rs)
    <3>1. CASE c = Quote
      <4>1. u \o w = Append(Append(u, Quote), Quote) /\ Append(u, Quote) \in Text
        BY <2>2, <3>1, Words, ConcatTwo, AppendProperties DEF Text
      <4>2. Reads(Append(u, Quote), "closed", v, r, rs)
        BY <2>1, <2>2, ReadsQuoted DEF Text
      <4> QED BY <3>1, <4>1, <4>2, ReadsDoubled
    <3>2. CASE c # Quote
      <4>1. u \o w = Append(u, c)
        BY <2>2, <3>2, AppendIsConcat
      <4> QED BY <2>1, <2>2, <3>2, <4>1, ReadsQuoted DEF Text
    <3> QED BY <3>1, <3>2
  <2> HIDE DEF w
  <2> QED BY <2>0, <2>3, <2>4
<1> HIDE DEF T
<1>3. \A v \in Text : v \in T
  BY <1>1, <1>2, AppendInduction DEF Text
<1> QED BY <1>3 DEF T

\* and a field that needs no quotes character by character.
LEMMA ReadsBare ==
  ASSUME NEW t \in Text, NEW r, NEW rs, Reads(t, "none", <<>>, r, rs)
  PROVE  \A v \in Text : ~Has(v, {Delimiter, Quote} \cup LineEnds)
                           => \E m \in {"none", "bare"} : Reads(t \o v, m, v, r, rs)
<1> DEFINE Special == {Delimiter, Quote} \cup LineEnds
           T == {v \in Text : ~Has(v, Special) => \E m \in {"none", "bare"} : Reads(t \o v, m, v, r, rs)}
<1>1. <<>> \in T
  <2>1. <<>> \in Text /\ t \o <<>> = t
    BY EmptySeq, ConcatEmptySeq DEF Text
  <2> QED BY <2>1
<1>2. ASSUME NEW v \in Text, NEW c \in Symbol, v \in T PROVE Append(v, c) \in T
  <2> DEFINE w == Append(v, c)
             N == Len(v)
  <2>1. /\ w \in Text /\ Len(w) = N + 1 /\ N \in Nat /\ (\A i \in 1 .. N : w[i] = v[i]) /\ w[N + 1] = c
        /\ DOMAIN v = 1 .. N
    BY AppendProperties, LenProperties DEF Text
  <2>2. DOMAIN w = 1 .. N + 1
    BY <2>1, LenProperties DEF Text
  <2>3. t \o w = Append(t \o v, c) /\ t \o v \in Text
    <3>1. t \in Seq(Symbol) /\ v \in Seq(Symbol)
      BY DEF Text
    <3>2. t \o v \in Seq(Symbol)
      BY <3>1, ConcatProperties
    <3>3. t \o Append(v, c) = Append(t \o v, c)
      BY <3>1, ConcatAppend
    <3> QED BY <3>2, <3>3 DEF Text
  <2> HIDE DEF w
  <2> SUFFICES ASSUME ~Has(w, Special) PROVE \E m \in {"none", "bare"} : Reads(t \o w, m, w, r, rs)
    <3> HIDE DEF Special
    <3> QED BY <2>1 DEF w
  <2>4. c \notin Special /\ ~Has(v, Special)
    <3>1. N + 1 \in DOMAIN w /\ \A i \in DOMAIN v : i \in DOMAIN w /\ w[i] = v[i]
      BY <2>1, <2>2
    <3> HIDE DEF Special
    <3> QED BY <2>1, <3>1 DEF Has
  <2>5. PICK m \in {"none", "bare"} : Reads(t \o v, m, v, r, rs)
    BY <1>2, <2>4
  <2>6. c \in Symbol \ ({Quote, Delimiter} \cup LineEnds)
    BY <2>4
  <2>7. Reads(Append(t \o v, c), "bare", Append(v, c), r, rs)
    BY <2>3, <2>5, <2>6, ReadsPlain
  <2> QED BY <2>3, <2>7 DEF w
<1> HIDE DEF T
<1>3. \A v \in Text : v \in T
  BY <1>1, <1>2, AppendInduction DEF Text
<1> QED BY <1>3 DEF T

\* The field that quoteField writes is read as the value it was written for.
LEMMA ReadsField ==
  ASSUME NEW t \in Text, NEW r, NEW rs, Reads(t, "none", <<>>, r, rs), NEW v \in Text
  PROVE  \E m : m # "quoted" /\ Reads(t \o QuoteField(v), m, v, r, rs)
<1>1. CASE ~Has(v, {Delimiter, Quote} \cup LineEnds)
  <2>1. QuoteField(v) = v
    BY <1>1 DEF QuoteField
  <2>2. PICK m \in {"none", "bare"} : Reads(t \o v, m, v, r, rs)
    BY <1>1, ReadsBare
  <2> QED BY <2>1, <2>2
<1>2. CASE Has(v, {Delimiter, Quote} \cup LineEnds)
  <2> DEFINE u == Append(t, Quote)
             d == Doubled(v)
  <2>1. QuoteField(v) = (<<Quote>> \o d) \o <<Quote>>
    BY <1>2 DEF QuoteField
  <2>2. /\ <<Quote>> \in Seq(Symbol) /\ d \in Seq(Symbol) /\ t \in Seq(Symbol)
        /\ u = t \o <<Quote>> /\ u \in Seq(Symbol)
    <3>1. Quote \in Symbol /\ d \in Seq(Symbol) /\ t \in Seq(Symbol)
      BY Words, DoubledType DEF Text
    <3>2. u = t \o <<Quote>> /\ u \in Seq(Symbol)
      BY <3>1, AppendProperties, AppendIsConcat
    <3> QED BY <3>1, <3>2
  <2>3. Reads(u, "quoted", <<>>, r, rs)
    BY ReadsOpening
  <2> HIDE DEF u
  <2>4. Reads(u \o d, "quoted", v, r, rs)
    BY <2>2, <2>3, ReadsPairs DEF Text
  <2> HIDE DEF d
  <2>5. u \o d \in Seq(Symbol) /\ <<Quote>> \o d \in Seq(Symbol)
    BY <2>2, ConcatProperties
  <2>6. Reads(Append(u \o d, Quote), "closed", v, r, rs)
    BY <2>4, <2>5, ReadsQuoted DEF Text
  <2>7. t \o ((<<Quote>> \o d) \o <<Quote>>) = (t \o (<<Quote>> \o d)) \o <<Quote>>
    BY <2>2, <2>5, ConcatAssociative
  <2>8. t \o (<<Quote>> \o d) = u \o d
    BY <2>2, ConcatAssociative
  <2>9. (u \o d) \o <<Quote>> = Append(u \o d, Quote)
    BY <2>5, Words, AppendIsConcat
  <2> QED BY <2>1, <2>6, <2>7, <2>8, <2>9
<1> QED BY <1>1, <1>2

\* A cell that spreadsheets do not take for a formula is written as it is.
Plain(v, safe) == safe => ~Risky(v)

\* Such a cell gets no apostrophe.
LEMMA PlainCell == \A v, safe : Plain(v, safe) => SpreadsheetCell(v, safe) = v
BY DEF Plain, SpreadsheetCell

\* A value more is a field more, behind a delimiter unless it is the first.
LEMMA LineItemsAppend ==
  ASSUME NEW values \in Seq(Text), NEW e \in Text, NEW safe
  PROVE  LineItems(Append(values, e), safe) =
           Append(LineItems(values, safe),
                  (IF values = <<>> THEN <<>> ELSE <<Delimiter>>) \o QuoteField(SpreadsheetCell(e, safe)))
<1> DEFINE t == Append(values, e)
           N == Len(values)
           a == LineItems(values, safe)
           b == LineItems(t, safe)
<1>1. /\ t \in Seq(Text) /\ Len(t) = N + 1 /\ N \in Nat /\ (\A i \in 1 .. N : t[i] = values[i]) /\ t[N + 1] = e
      /\ DOMAIN values = 1 .. N
  BY AppendProperties, LenProperties
<1>2. DOMAIN t = 1 .. N + 1
  BY <1>1, LenProperties
<1> HIDE DEF t
<1>3. a \in Seq(Seq(Symbol)) /\ b \in Seq(Seq(Symbol)) /\ Len(a) = N /\ Len(b) = N + 1
  BY <1>1, LineType
<1>4. \A i \in 1 .. N : b[i] = a[i]
  <2> TAKE i \in 1 .. N
  <2>1. i \in DOMAIN t /\ i \in DOMAIN values /\ t[i] = values[i]
    BY <1>1, <1>2
  <2> QED BY <2>1 DEF LineItems
<1>5. b[N + 1] = (IF values = <<>> THEN <<>> ELSE <<Delimiter>>) \o QuoteField(SpreadsheetCell(e, safe))
  <2>1. N + 1 \in DOMAIN t /\ t[N + 1] = e
    BY <1>1, <1>2
  <2>2. b[N + 1] = (IF N + 1 = 1 THEN <<>> ELSE <<Delimiter>>) \o QuoteField(SpreadsheetCell(e, safe))
    BY <2>1 DEF LineItems
  <2>3. N + 1 = 1 <=> values = <<>>
    <3>1. values # <<>> => Len(values) \in Nat \ {0}
      BY EmptySeq
    <3>2. Len(<<>>) = 0
      BY EmptySeq
    <3> QED BY <1>1, <3>1, <3>2
  <2> QED BY <2>2, <2>3
<1> HIDE DEF a, b
<1>6. b = Append(a, b[N + 1])
  <2>1. Len(b) = Len(a) + 1 /\ \A i \in 1 .. Len(a) : b[i] = a[i]
    BY <1>3, <1>4
  <2>2. b = Append(a, b[Len(a) + 1])
    BY <1>3, <2>1, OneMore
  <2> QED BY <1>3, <2>2
<1> QED BY <1>5, <1>6 DEF a, b, t

\* The fields of a line are read as its values, one by one.
LEMMA ReadsCells ==
  ASSUME NEW t \in Text, NEW rs, Reads(t, "none", <<>>, <<>>, rs), NEW safe
  PROVE  \A values \in Seq(Text) : \A e \in Text :
           (\A n \in DOMAIN values : Plain(values[n], safe)) /\ Plain(e, safe)
             => \E m : m # "quoted" /\ Reads(t \o FlattenSeq(LineItems(Append(values, e), safe)), m, e, values, rs)
<1> DEFINE AllPlain(values) == \A n \in DOMAIN values : Plain(values[n], safe)
           F(values) == FlattenSeq(LineItems(values, safe))
           IsRead(values, e) == \E m : m # "quoted" /\ Reads(t \o F(Append(values, e)), m, e, values, rs)
           T == {values \in Seq(Text) :
                   \A e \in Text : AllPlain(values) /\ Plain(e, safe) => IsRead(values, e)}
<1>1. \A values \in Seq(Text) : F(values) \in Seq(Symbol) /\ LineItems(values, safe) \in Seq(Seq(Symbol))
  BY LineType, FlattenType
<1>2. \A e \in Text : QuoteField(SpreadsheetCell(e, safe)) \in Seq(Symbol)
  BY QuoteFieldType DEF Text
<1>3. t \in Seq(Symbol)
  BY DEF Text
<1>4. <<>> \in T
  <2>1. <<>> \in Seq(Text)
    BY EmptySeq
  <2>2. ASSUME NEW e \in Text, Plain(e, safe) PROVE IsRead(<<>>, e)
    <3> DEFINE q == QuoteField(e)
    <3>1. SpreadsheetCell(e, safe) = e /\ q \in Seq(Symbol)
      BY <1>2, <2>2, PlainCell
    <3>2. LineItems(<<>>, safe) = <<>>
      BY DEF LineItems
    <3> HIDE DEF q
    <3>3. <<>> \in Seq(Seq(Symbol)) /\ <<>> \o q = q
      BY <3>1, EmptySeq, ConcatEmptySeq
    <3>4. LineItems(Append(<<>>, e), safe) = Append(<<>>, q)
      <4>1. LineItems(Append(<<>>, e), safe) =
              Append(LineItems(<<>>, safe),
                     (IF <<>> = <<>> THEN <<>> ELSE <<Delimiter>>) \o QuoteField(SpreadsheetCell(e, safe)))
        BY <2>1, LineItemsAppend
      <4>2. QuoteField(SpreadsheetCell(e, safe)) = q
        BY <3>1 DEF q
      <4> QED BY <3>2, <3>3, <4>1, <4>2
    <3>5. F(Append(<<>>, e)) = q
      BY <3>1, <3>3, <3>4, FlattenAppend, FlattenEmpty
    <3> HIDE DEF F
    <3>6. \E m : m # "quoted" /\ Reads(t \o q, m, e, <<>>, rs)
      BY ReadsField DEF q
    <3> QED BY <3>5, <3>6
  <2> HIDE DEF IsRead
  <2> QED BY <2>1, <2>2
<1>5. ASSUME NEW values \in Seq(Text), NEW last \in Text, values \in T PROVE Append(values, last) \in T
  <2> DEFINE front == Append(values, last)
             N == Len(values)
  <2>1. /\ front \in Seq(Text) /\ front # <<>> /\ Len(front) = N + 1 /\ N \in Nat /\ DOMAIN values = 1 .. N
        /\ (\A i \in 1 .. N : front[i] = values[i]) /\ front[N + 1] = last
    BY AppendProperties, LenProperties
  <2>2. DOMAIN front = 1 .. N + 1
    BY <2>1, LenProperties
  <2> HIDE DEF front
  <2>3. ASSUME NEW e \in Text, AllPlain(front), Plain(e, safe) PROVE IsRead(front, e)
    <3> DEFINE q == QuoteField(e)
               u == t \o F(front)
    <3>1. AllPlain(values) /\ Plain(last, safe)
      <4>1. N + 1 \in DOMAIN front /\ \A i \in DOMAIN values : i \in DOMAIN front /\ front[i] = values[i]
        BY <2>1, <2>2
      <4> QED BY <2>1, <2>3, <4>1
    <3>2. IsRead(values, last)
      <4> HIDE DEF IsRead, AllPlain
      <4> QED BY <1>5, <3>1
    <3>3. PICK m : m # "quoted" /\ Reads(u, m, last, values, rs)
      BY <3>2 DEF front
    <3>4. F(front) \in Seq(Symbol) /\ u \in Seq(Symbol)
      BY <1>1, <1>3, <2>1, ConcatProperties
    <3>5. SpreadsheetCell(e, safe) = e /\ q \in Seq(Symbol)
      BY <1>2, <2>3, PlainCell
    <3> HIDE DEF q
    <3>6. LineItems(Append(front, e), safe) = Append(LineItems(front, safe), <<Delimiter>> \o q)
      <4>1. LineItems(Append(front, e), safe) =
              Append(LineItems(front, safe),
                     (IF front = <<>> THEN <<>> ELSE <<Delimiter>>) \o QuoteField(SpreadsheetCell(e, safe)))
        BY <2>1, LineItemsAppend
      <4>2. QuoteField(SpreadsheetCell(e, safe)) = q
        BY <3>5 DEF q
      <4> QED BY <2>1, <4>1, <4>2
    <3>7. Delimiter \in Symbol /\ <<Delimiter>> \in Seq(Symbol)
      BY Words
    <3>8. <<Delimiter>> \o q \in Seq(Symbol)
      BY <3>5, <3>7, ConcatProperties
    <3>9. F(Append(front, e)) = F(front) \o (<<Delimiter>> \o q)
      BY <1>1, <2>1, <3>6, <3>8, FlattenAppend
    <3> HIDE DEF F
    <3>10. t \o F(Append(front, e)) = Append(u, Delimiter) \o q
      <4>1. t \o (F(front) \o (<<Delimiter>> \o q)) = u \o (<<Delimiter>> \o q)
        BY <1>3, <3>4, <3>8, ConcatAssociative
      <4> HIDE DEF u
      <4>2. u \o (<<Delimiter>> \o q) = (u \o <<Delimiter>>) \o q
        BY <3>4, <3>5, <3>7, ConcatAssociative
      <4>3. u \o <<Delimiter>> = Append(u, Delimiter)
        BY <3>4, <3>7, AppendIsConcat
      <4> QED BY <3>9, <4>1, <4>2, <4>3
    <3> HIDE DEF u
    <3>11. Reads(Append(u, Delimiter), "none", <<>>, front, rs) /\ Append(u, Delimiter) \in Text
      BY <3>3, <3>4, <3>7, ReadsDelimiter, AppendProperties DEF Text, front
    <3>12. \E n : n # "quoted" /\ Reads(Append(u, Delimiter) \o q, n, e, front, rs)
      BY <3>11, ReadsField DEF q
    <3> QED BY <3>10, <3>12
  <2> HIDE DEF IsRead
  <2> QED BY <2>1, <2>3 DEF front
<1> HIDE DEF T
<1>6. \A values \in Seq(Text) : values \in T
  BY <1>4, <1>5, AppendInduction
<1> QED BY <1>6 DEF T

\* A line is read as a row of its values.
LEMMA ReadsLine ==
  ASSUME NEW t \in Text, NEW rs, Reads(t, "none", <<>>, <<>>, rs), NEW safe,
         NEW values \in Seq(Text), Len(values) >= 2, \A n \in DOMAIN values : Plain(values[n], safe)
  PROVE  Reads(t \o Line(values, safe), "none", <<>>, <<>>, Append(rs, values)) /\ t \o Line(values, safe) \in Text
<1> DEFINE f == FlattenSeq(LineItems(values, safe))
           u == t \o f
<1>1. values # <<>>
  BY EmptySeq
<1>2. PICK front \in Seq(Text), last \in Text : values = Append(front, last)
  BY <1>1, SequenceEmptyOrAppend
<1>3. /\ Len(values) = Len(front) + 1 /\ Len(front) \in Nat /\ DOMAIN front = 1 .. Len(front)
      /\ DOMAIN values = 1 .. Len(values)
      /\ (\A i \in 1 .. Len(front) : values[i] = front[i]) /\ values[Len(front) + 1] = last
  BY <1>2, AppendProperties, LenProperties
<1>4. front # <<>>
  BY <1>3, EmptySeq
<1>5. (\A n \in DOMAIN front : Plain(front[n], safe)) /\ Plain(last, safe)
  <2>1. Len(front) + 1 \in DOMAIN values /\ \A i \in DOMAIN front : i \in DOMAIN values
    BY <1>3
  <2> QED BY <1>3, <2>1
<1>6. PICK m : m # "quoted" /\ Reads(u, m, last, front, rs)
  BY <1>2, <1>5, ReadsCells
<1>7. /\ f \in Seq(Symbol) /\ t \in Seq(Symbol) /\ Line(values, safe) = f \o <<Cr, Lf>>
      /\ Line(values, safe) \in Seq(Symbol)
  BY LineType, FlattenType DEF Text
<1> HIDE DEF f
<1>8. u \in Seq(Symbol)
  BY <1>7, ConcatProperties
<1>9. Cr \in Symbol /\ Lf \in Symbol /\ Cr \in LineEnds /\ Lf \in LineEnds /\ <<Cr, Lf>> \in Seq(Symbol)
  BY Words DEF LineEnds
<1>10. t \o Line(values, safe) = Append(Append(u, Cr), Lf)
  <2>1. t \o (f \o <<Cr, Lf>>) = u \o <<Cr, Lf>>
    <3>1. ASSUME NEW x \in Seq(Symbol), NEW y \in Seq(Symbol), NEW z \in Seq(Symbol)
          PROVE  x \o (y \o z) = (x \o y) \o z
      BY ConcatAssociative, SMTT(30)
    <3> QED BY <1>7, <1>9, <3>1
  <2> HIDE DEF u
  <2>2. u \o <<Cr, Lf>> = Append(Append(u, Cr), Lf)
    BY <1>8, <1>9, ConcatTwo
  <2> QED BY <1>7, <2>1, <2>2
<1> HIDE DEF u
<1>11. Reads(Append(u, Cr), "none", <<>>, <<>>, Append(rs, values)) /\ Append(u, Cr) \in Text
  <2>1. Rowed(rs, front, last) = Append(rs, values)
    BY <1>2, <1>4 DEF Rowed
  <2>2. Append(u, Cr) \in Text
    BY <1>8, <1>9, AppendProperties DEF Text
  <2>3. Reads(Append(u, Cr), "none", <<>>, <<>>, Rowed(rs, front, last))
    BY <1>6, <1>8, <1>9, ReadsLineEnd DEF Text
  <2> QED BY <2>1, <2>2, <2>3
<1>12. Reads(Append(Append(u, Cr), Lf), "none", <<>>, <<>>, Append(rs, values))
  <2>1. Rowed(Append(rs, values), <<>>, <<>>) = Append(rs, values)
    BY DEF Rowed
  <2>2. Reads(Append(Append(u, Cr), Lf), "none", <<>>, <<>>, Rowed(Append(rs, values), <<>>, <<>>))
    BY <1>9, <1>11, ReadsLineEnd
  <2> QED BY <2>1, <2>2
<1>13. Append(Append(u, Cr), Lf) \in Text
  BY <1>9, <1>11, AppendProperties DEF Text
<1> QED BY <1>10, <1>12, <1>13

\* The rows of rules, and their lines.
CellRows(items) == [k \in DOMAIN items |-> Cells(items[k])]
\* The lines of rules in the file.
CellLines(items, safe) == [k \in DOMAIN items |-> Line(Cells(items[k]), safe)]

\* A list that is made item by item, from one that was.
LEMMA MadeAppend ==
  ASSUME NEW S, NEW U, NEW f, \A x \in S : f[x] \in U, NEW s \in Seq(S), NEW e \in S
  PROVE  /\ [k \in DOMAIN s |-> f[s[k]]] \in Seq(U) /\ Len([k \in DOMAIN s |-> f[s[k]]]) = Len(s)
         /\ [k \in DOMAIN Append(s, e) |-> f[Append(s, e)[k]]] = Append([k \in DOMAIN s |-> f[s[k]]], f[e])
<1> DEFINE t == Append(s, e)
           N == Len(s)
           M(x) == [k \in DOMAIN x |-> f[x[k]]]
<1>1. /\ t \in Seq(S) /\ Len(t) = N + 1 /\ N \in Nat /\ (\A i \in 1 .. N : t[i] = s[i]) /\ t[N + 1] = e
      /\ DOMAIN s = 1 .. N
  BY AppendProperties, LenProperties
<1>2. DOMAIN t = 1 .. N + 1
  BY <1>1, LenProperties
<1>3. (\A i \in 1 .. N : s[i] \in S) /\ \A i \in 1 .. N + 1 : t[i] \in S
  <2> HIDE DEF t
  <2> QED BY <1>1, ElementOfSeq
<1> HIDE DEF t
<1>4. M(s) \in Seq(U) /\ Len(M(s)) = N /\ \A i \in 1 .. N : M(s)[i] = f[s[i]]
  <2>1. M(s) \in [1 .. N -> U] /\ \A i \in 1 .. N : M(s)[i] = f[s[i]]
    BY <1>1, <1>3
  <2> HIDE DEF M, N
  <2> QED BY <1>1, <2>1
<1>5. M(t) \in Seq(U) /\ Len(M(t)) = N + 1 /\ \A i \in 1 .. N + 1 : M(t)[i] = f[t[i]]
  <2>1. M(t) \in [1 .. N + 1 -> U] /\ \A i \in 1 .. N + 1 : M(t)[i] = f[t[i]]
    BY <1>2, <1>3
  <2> HIDE DEF M, N
  <2> QED BY <1>1, <2>1
<1> HIDE DEF M
<1>6. M(t) = Append(M(s), M(t)[N + 1])
  <2>1. \A i \in 1 .. N : i \in 1 .. N + 1
    BY <1>1
  <2>2. Len(M(t)) = Len(M(s)) + 1 /\ \A i \in 1 .. Len(M(s)) : M(t)[i] = M(s)[i]
    BY <1>1, <1>4, <1>5, <2>1
  <2>3. M(t) = Append(M(s), M(t)[Len(M(s)) + 1])
    BY <1>4, <1>5, <2>2, OneMore
  <2> QED BY <1>4, <2>3
<1>7. M(t)[N + 1] = f[e]
  BY <1>1, <1>5
<1> QED BY <1>4, <1>6, <1>7 DEF M, t

\* A rule more is a row of cells more,
LEMMA CellRowsAppend ==
  ASSUME NEW items \in Seq(Rule), NEW item \in Rule
  PROVE  /\ CellRows(items) \in Seq(Seq(Text)) /\ Len(CellRows(items)) = Len(items)
         /\ CellRows(Append(items, item)) = Append(CellRows(items), Cells(item))
<1> DEFINE f == [x \in Rule |-> Cells(x)]
           t == Append(items, item)
<1>1. \A x \in Rule : f[x] \in Seq(Text)
  BY CellsType
<1>2. (\A k \in DOMAIN items : items[k] \in Rule) /\ (\A k \in DOMAIN t : t[k] \in Rule)
  <2>1. t \in Seq(Rule)
    BY AppendProperties
  <2> QED BY <2>1, LenProperties
<1>3. /\ CellRows(items) = [k \in DOMAIN items |-> f[items[k]]]
      /\ CellRows(t) = [k \in DOMAIN t |-> f[t[k]]] /\ f[item] = Cells(item)
  <2> HIDE DEF t
  <2> QED BY <1>2 DEF CellRows
<1> HIDE DEF f
<1>4. /\ [k \in DOMAIN items |-> f[items[k]]] \in Seq(Seq(Text))
      /\ Len([k \in DOMAIN items |-> f[items[k]]]) = Len(items)
  BY <1>1, MadeAppend
<1>5. [k \in DOMAIN t |-> f[t[k]]] = Append([k \in DOMAIN items |-> f[items[k]]], f[item])
  BY <1>1, MadeAppend
<1> QED BY <1>3, <1>4, <1>5

\* and a line more.
LEMMA CellLinesAppend ==
  ASSUME NEW items \in Seq(Rule), NEW item \in Rule, NEW safe
  PROVE  /\ CellLines(items, safe) \in Seq(Seq(Symbol))
         /\ CellLines(Append(items, item), safe) = Append(CellLines(items, safe), Line(Cells(item), safe))
<1> DEFINE f == [x \in Rule |-> Line(Cells(x), safe)]
           t == Append(items, item)
<1>1. \A x \in Rule : f[x] \in Seq(Symbol)
  BY CellsType, LineType DEF Text
<1>2. (\A k \in DOMAIN items : items[k] \in Rule) /\ (\A k \in DOMAIN t : t[k] \in Rule)
  <2>1. t \in Seq(Rule)
    BY AppendProperties
  <2> QED BY <2>1, LenProperties
<1>3. /\ CellLines(items, safe) = [k \in DOMAIN items |-> f[items[k]]]
      /\ CellLines(t, safe) = [k \in DOMAIN t |-> f[t[k]]] /\ f[item] = Line(Cells(item), safe)
  <2> HIDE DEF t
  <2>1. \A x \in Rule : f[x] = Line(Cells(x), safe)
    OBVIOUS
  <2> HIDE DEF f
  <2> QED BY <1>2, <2>1 DEF CellLines
<1> HIDE DEF f
<1>4. /\ [k \in DOMAIN items |-> f[items[k]]] \in Seq(Seq(Symbol))
      /\ [k \in DOMAIN t |-> f[t[k]]] = Append([k \in DOMAIN items |-> f[items[k]]], f[item])
  <2>1. ASSUME NEW g, \A x \in Rule : g[x] \in Seq(Symbol)
        PROVE  /\ [k \in DOMAIN items |-> g[items[k]]] \in Seq(Seq(Symbol))
               /\ [k \in DOMAIN t |-> g[t[k]]] = Append([k \in DOMAIN items |-> g[items[k]]], g[item])
    BY <2>1, MadeAppend, SMTT(30)
  <2> HIDE DEF t
  <2> QED BY <1>1, <2>1
<1> QED BY <1>3, <1>4

\* Rules without formulas.
PlainRule(item, safe) == \A n \in DOMAIN Cells(item) : Plain(Cells(item)[n], safe)

\* Lines are read as rows, one by one.
LEMMA ReadsLines ==
  ASSUME NEW t \in Text, NEW rs \in Seq(Seq(Text)), Reads(t, "none", <<>>, <<>>, rs), NEW safe
  PROVE  \A items \in Seq(Rule) :
           (\A k \in DOMAIN items : PlainRule(items[k], safe))
             => Reads(t \o FlattenSeq(CellLines(items, safe)), "none", <<>>, <<>>, rs \o CellRows(items))
<1> DEFINE AllPlain(items) == \A k \in DOMAIN items : PlainRule(items[k], safe)
           F(items) == FlattenSeq(CellLines(items, safe))
           IsRead(items) == Reads(t \o F(items), "none", <<>>, <<>>, rs \o CellRows(items))
           T == {items \in Seq(Rule) : AllPlain(items) => IsRead(items)}
<1>1. t \in Seq(Symbol)
  BY DEF Text
<1>2. <<>> \in T
  <2>1. CellLines(<<>>, safe) = <<>> /\ CellRows(<<>>) = <<>> /\ <<>> \in Seq(Rule)
    BY EmptySeq DEF CellLines, CellRows
  <2>2. t \o <<>> = t /\ rs \o <<>> = rs
    BY <1>1, ConcatEmptySeq
  <2>3. IsRead(<<>>)
    BY <2>1, <2>2, FlattenEmpty
  <2> HIDE DEF IsRead
  <2> QED BY <2>1, <2>3
<1>3. ASSUME NEW items \in Seq(Rule), NEW item \in Rule, items \in T PROVE Append(items, item) \in T
  <2> DEFINE all == Append(items, item)
             N == Len(items)
             u == t \o F(items)
             l == Line(Cells(item), safe)
  <2>1. /\ all \in Seq(Rule) /\ Len(all) = N + 1 /\ N \in Nat /\ DOMAIN items = 1 .. N
        /\ (\A i \in 1 .. N : all[i] = items[i]) /\ all[N + 1] = item
    BY AppendProperties, LenProperties
  <2>2. DOMAIN all = 1 .. N + 1
    BY <2>1, LenProperties
  <2>3. /\ CellLines(items, safe) \in Seq(Seq(Symbol)) /\ CellLines(all, safe) = Append(CellLines(items, safe), l)
        /\ CellRows(items) \in Seq(Seq(Text)) /\ CellRows(all) = Append(CellRows(items), Cells(item))
    BY CellRowsAppend, CellLinesAppend
  <2> HIDE DEF all
  <2>4. Cells(item) \in Seq(Text) /\ Len(Cells(item)) >= 2 /\ l \in Seq(Symbol)
    <3>1. Cells(item) \in Seq(Text) /\ Len(Cells(item)) = 8
      BY CellsType
    <3>2. l \in Seq(Symbol)
      BY <3>1, LineType DEF Text
    <3> QED BY <3>1, <3>2
  <2>5. F(items) \in Seq(Symbol) /\ F(all) = F(items) \o l
    <3> HIDE DEF l
    <3> QED BY <2>3, <2>4, FlattenType, FlattenAppend
  <2> HIDE DEF F
  <2>6. u \in Seq(Symbol) /\ t \o F(all) = u \o l
    <3> HIDE DEF l
    <3>1. u \in Seq(Symbol)
      <4>1. ASSUME NEW x \in Seq(Symbol) PROVE t \o x \in Seq(Symbol)
        BY <1>1, ConcatProperties
      <4> QED BY <2>5, <4>1
    <3>2. ASSUME NEW x \in Seq(Symbol), NEW y \in Seq(Symbol) PROVE t \o (x \o y) = (t \o x) \o y
      BY <1>1, ConcatAssociative
    <3>3. t \o (F(items) \o l) = u \o l
      BY <2>4, <2>5, <3>2
    <3> QED BY <2>5, <3>1, <3>3
  <2>7. rs \o CellRows(all) = Append(rs \o CellRows(items), Cells(item))
    BY <2>3, <2>4, ConcatAppend, SMTT(30)
  <2>8. ASSUME AllPlain(all) PROVE IsRead(all)
    <3>1. AllPlain(items) /\ PlainRule(item, safe)
      <4>1. N + 1 \in DOMAIN all /\ \A i \in DOMAIN items : i \in DOMAIN all /\ all[i] = items[i]
        BY <2>1, <2>2
      <4> QED BY <2>1, <2>8, <4>1
    <3>2. Reads(u, "none", <<>>, <<>>, rs \o CellRows(items))
      <4>1. IsRead(items)
        <5> HIDE DEF IsRead, AllPlain
        <5> QED BY <1>3, <3>1
      <4> QED BY <4>1
    <3> HIDE DEF u
    <3>3. Reads(u \o l, "none", <<>>, <<>>, Append(rs \o CellRows(items), Cells(item)))
      BY <2>4, <2>6, <3>1, <3>2, ReadsLine DEF Text, PlainRule
    <3> QED BY <2>6, <2>7, <3>3
  <2> HIDE DEF IsRead, AllPlain
  <2> QED BY <2>1, <2>8 DEF all
<1> HIDE DEF T
<1>4. \A items \in Seq(Rule) : items \in T
  BY <1>2, <1>3, AppendInduction
<1> QED BY <1>4 DEF T

\* The words of the header are no formulas.
LEMMA PlainColumns ==
  ASSUME NEW safe, NEW n \in DOMAIN ColumnLine
  PROVE  Plain(ColumnLine[n], safe)
<1>1. DOMAIN ColumnNames = 1 .. 8
  BY DEF ColumnNames
<1>2. n \in 1 .. 8 /\ ColumnLine[n] = <<ColumnNames[n]>>
  BY <1>1 DEF ColumnLine
<1>3. ColumnNames[n] \notin FormulaSigns
  BY <1>2 DEF ColumnNames, FormulaSigns
<1> DEFINE v == <<ColumnNames[n]>>
           ink == {i \in DOMAIN v : v[i] \notin Whitespace}
<1>4. DOMAIN v = {1} /\ v[1] = ColumnNames[n]
  OBVIOUS
<1>5. ink # {} => Min(ink) = 1
  <2> SUFFICES ASSUME ink # {} PROVE Min(ink) = 1
    OBVIOUS
  <2>1. ink = {1}
    BY <1>4
  <2>2. Min({1}) \in {1}
    <3>1. {1} \in SUBSET Nat
      OBVIOUS
    <3> QED BY <3>1, MinIsLeast
  <2> QED BY <2>1, <2>2
<1>6. ~Risky(v)
  <2> HIDE DEF v
  <2> QED BY <1>3, <1>4, <1>5 DEF Risky
<1> QED BY <1>2, <1>6 DEF Plain

\* The table of rules that are exported is the header and their rows.
LEMMA ExportedIsTable ==
  ASSUME NEW items \in Seq(Rule), NEW safe, \A k \in DOMAIN items : PlainRule(items[k], safe)
  PROVE  /\ WellFormed(Exported(items, safe))
         /\ Table(Exported(items, safe)) = <<ColumnLine>> \o CellRows(items)
<1> DEFINE a == Line(ColumnLine, safe)
           b == FlattenSeq(CellLines(items, safe))
           t == Exported(items, safe)
           rs == Append(<<>>, ColumnLine) \o CellRows(items)
<1>1. ColumnLine \in Seq(Text) /\ Len(ColumnLine) >= 2
  BY ColumnLineType
<1>2. t \in Text /\ CellLines(items, safe) \in Seq(Seq(Symbol)) /\ CellRows(items) \in Seq(Seq(Text))
  <2>1. CellLines(items, safe) \in Seq(Seq(Symbol))
    BY ExportedType DEF CellLines
  <2>2. \A k \in DOMAIN items : Cells(items[k]) \in Seq(Text)
    BY CellsType, LenProperties
  <2>3. CellRows(items) \in Seq(Seq(Text))
    <3>1. Len(items) \in Nat /\ CellRows(items) \in [1 .. Len(items) -> Seq(Text)]
      BY <2>2, LenProperties DEF CellRows
    <3> QED BY <3>1
  <2>4. t \in Text
    BY ExportedType
  <2> QED BY <2>1, <2>3, <2>4
<1>3. a \in Seq(Symbol) /\ b \in Seq(Symbol) /\ <<Bom>> \in Seq(Symbol)
  BY <1>1, <1>2, LineType, FlattenType, Words DEF Text
<1>4. t = (<<Bom>> \o a) \o b
  BY DEF Exported, CellLines
<1>5. Reads(a, "none", <<>>, <<>>, Append(<<>>, ColumnLine))
  <2>1. <<>> \in Text /\ <<>> \o a = a
    BY <1>3, EmptySeq, ConcatEmptySeq DEF Text
  <2>2. Reads(<<>> \o a, "none", <<>>, <<>>, Append(<<>>, ColumnLine))
    BY <1>1, <2>1, ReadsNothing, ReadsLine, PlainColumns
  <2> QED BY <2>1, <2>2
<1> HIDE DEF a, t
<1>6. Append(<<>>, ColumnLine) \in Seq(Seq(Text))
  BY <1>1, EmptySeq, AppendProperties
<1>7. Reads(a \o b, "none", <<>>, <<>>, rs)
  BY <1>3, <1>5, <1>6, ReadsLines DEF Text
<1> HIDE DEF b, rs
<1>8. Body(t) = a \o b
  <2>1. a \o b \in Seq(Symbol) /\ t = <<Bom>> \o (a \o b)
    BY <1>3, <1>4, ConcatProperties, ConcatAssociative
  <2> DEFINE ab == a \o b
  <2> HIDE DEF ab
  <2>2. ab \in Seq(Symbol) /\ t = <<Bom>> \o ab
    BY <2>1 DEF ab
  <2>3. /\ t \in Seq(Symbol) /\ Len(t) = 1 + Len(ab) /\ Len(ab) \in Nat
        /\ \A i \in 1 .. 1 + Len(ab) : t[i] = IF i <= 1 THEN <<Bom>>[i] ELSE ab[i - 1]
    <3>1. Len(<<Bom>>) = 1
      OBVIOUS
    <3> QED BY <1>3, <2>2, <3>1, ConcatProperties, LenProperties
  <2>4. t # <<>> /\ t[1] = Bom
    BY <2>3, EmptySeq
  <2>5. Tail(t) \in Seq(Symbol) /\ Len(Tail(t)) = Len(ab) /\ \A i \in 1 .. Len(ab) : Tail(t)[i] = ab[i]
    BY <2>3, <2>4
  <2>6. Tail(t) = ab
    BY <2>2, <2>5, SeqEqual
  <2> QED BY <2>4, <2>6 DEF Body, ab
<1>9. a \o b \in Text
  BY <1>3, ConcatProperties DEF Text
<1>10. /\ \A line \in ToSet(Lines(a \o b)) : Regular(line)
       /\ RowsOf(Lines(a \o b)) = Rowed(rs, <<>>, <<>>)
  BY <1>7, <1>9, ReadsEnd
<1>11. Append(<<>>, ColumnLine) = <<ColumnLine>>
  OBVIOUS
<1> QED BY <1>8, <1>10, <1>11 DEF WellFormed, Table, Rowed, t, rs

(***************************************************************************)
(* A list in a cell.                                                       *)
(***************************************************************************)
\* The values of a list, each with the bar before it.
JoinItems(list) ==
  [n \in DOMAIN list |-> (IF \A m \in 1 .. n - 1 : list[m] = <<>> THEN <<>> ELSE <<Bar>>) \o list[n]]

\* A value that survives being listed, its blanks aside.
Listable(v) == v # <<>> /\ ~Has(v, {Bar})

\* A value more comes behind a bar, unless it is the first.
LEMMA JoinAppend ==
  ASSUME NEW list \in Seq(Text), NEW e \in Text, \A n \in DOMAIN list : list[n] # <<>>
  PROVE  Join(Append(list, e)) = Join(list) \o ((IF list = <<>> THEN <<>> ELSE <<Bar>>) \o e)
<1> DEFINE t == Append(list, e)
           N == Len(list)
           a == JoinItems(list)
           b == JoinItems(t)
           w == (IF list = <<>> THEN <<>> ELSE <<Bar>>) \o e
<1>1. /\ t \in Seq(Text) /\ Len(t) = N + 1 /\ N \in Nat /\ (\A i \in 1 .. N : t[i] = list[i]) /\ t[N + 1] = e
      /\ DOMAIN list = 1 .. N
  BY AppendProperties, LenProperties
<1>2. DOMAIN t = 1 .. N + 1
  BY <1>1, LenProperties
<1>3. <<>> \in Seq(Symbol) /\ <<Bar>> \in Seq(Symbol) /\ e \in Seq(Symbol)
  BY EmptySeq, Words DEF Text
<1>4. ASSUME NEW l \in Seq(Text)
      PROVE  JoinItems(l) \in Seq(Seq(Symbol)) /\ Len(JoinItems(l)) = Len(l)
  <2> DEFINE Item(n) == (IF \A m \in 1 .. n - 1 : l[m] = <<>> THEN <<>> ELSE <<Bar>>) \o l[n]
             ss == [n \in DOMAIN l |-> Item(n)]
  <2>1. DOMAIN l = 1 .. Len(l) /\ Len(l) \in Nat /\ \A n \in 1 .. Len(l) : l[n] \in Seq(Symbol)
    BY LenProperties DEF Text
  <2>2. \A n \in 1 .. Len(l) : Item(n) \in Seq(Symbol)
    BY <1>3, <2>1, ConcatProperties
  <2> HIDE DEF Item
  <2>3. ss \in [1 .. Len(l) -> Seq(Symbol)]
    BY <2>1, <2>2
  <2>4. ss \in Seq(Seq(Symbol)) /\ Len(ss) = Len(l)
    BY <2>1, <2>3
  <2>5. JoinItems(l) = ss
    BY DEF JoinItems, Item
  <2> QED BY <2>4, <2>5
<1> HIDE DEF t
<1>5. a \in Seq(Seq(Symbol)) /\ b \in Seq(Seq(Symbol)) /\ Len(a) = N /\ Len(b) = N + 1
  BY <1>1, <1>4
<1>6. \A i \in 1 .. N : b[i] = a[i]
  <2> TAKE i \in 1 .. N
  <2>1. i \in DOMAIN t /\ i \in DOMAIN list /\ t[i] = list[i] /\ \A m \in 1 .. i - 1 : t[m] = list[m]
    BY <1>1, <1>2
  <2> QED BY <2>1 DEF JoinItems
<1>7. b[N + 1] = w
  <2>1. N + 1 \in DOMAIN t /\ t[N + 1] = e /\ (N + 1) - 1 = N
    BY <1>1, <1>2
  <2>2. (\A m \in 1 .. N : t[m] = <<>>) <=> list = <<>>
    <3>1. list # <<>> => Len(list) \in Nat \ {0}
      BY EmptySeq
    <3>2. list # <<>> => 1 \in 1 .. N /\ 1 \in DOMAIN list /\ t[1] = list[1]
      BY <1>1, <3>1
    <3>3. list = <<>> => N = 0
      BY EmptySeq
    <3> QED BY <3>2, <3>3
  <2> QED BY <2>1, <2>2 DEF JoinItems
<1> HIDE DEF a, b
<1>8. b = Append(a, w)
  <2>1. Len(b) = Len(a) + 1 /\ \A i \in 1 .. Len(a) : b[i] = a[i]
    BY <1>5, <1>6
  <2>2. b = Append(a, b[Len(a) + 1])
    BY <1>5, <2>1, OneMore
  <2> QED BY <1>5, <1>7, <2>2
<1>9. w \in Seq(Symbol)
  BY <1>3, ConcatProperties
<1> HIDE DEF w
<1>10. FlattenSeq(b) = FlattenSeq(a) \o w
  BY <1>5, <1>8, <1>9, FlattenAppend
<1>11. Join(list) = FlattenSeq(a) /\ Join(t) = FlattenSeq(b)
  BY DEF Join, JoinItems, a, b
<1> QED BY <1>10, <1>11 DEF t, w

\* The pieces between bars.
Parted(s) == Pieces(s, {i \in DOMAIN s : s[i] = Bar})

\* How the pieces grow: a bar begins one, and everything else makes the last one longer.
LEMMA PartedAppend ==
  ASSUME NEW s \in Text, NEW c \in Symbol, NEW done \in Seq(Text), NEW last \in Text, Parted(s) = Append(done, last)
  PROVE  Parted(Append(s, c)) =
           IF c = Bar THEN Append(Append(done, last), <<>>) ELSE Append(done, Append(last, c))
<1> DEFINE t == Append(s, c)
           N == Len(s)
           Cuts(x) == {i \in DOMAIN x : x[i] = Bar}
<1>1. /\ t \in Text /\ Len(t) = N + 1 /\ N \in Nat /\ (\A i \in 1 .. N : t[i] = s[i]) /\ t[N + 1] = c
      /\ DOMAIN s = 1 .. N
  BY AppendProperties, LenProperties DEF Text
<1>2. DOMAIN t = 1 .. N + 1
  BY <1>1, LenProperties DEF Text
<1>3. \A n \in 1 .. N : n \in Cuts(s) <=> n \in Cuts(t)
  <2> HIDE DEF t
  <2> TAKE n \in 1 .. N
  <2>1. n \in DOMAIN t /\ n \in DOMAIN s /\ t[n] = s[n]
    BY <1>1, <1>2
  <2> QED BY <2>1
<1>4. N + 1 \in Cuts(t) <=> c = Bar
  <2> HIDE DEF t
  <2> QED BY <1>1, <1>2
<1> HIDE DEF Cuts
<1>5. Pieces(t, Cuts(t)) =
        IF N + 1 \in Cuts(t) THEN Append(Pieces(s, Cuts(s)), <<>>) ELSE Longer(Pieces(s, Cuts(s)), c)
  BY <1>3, PiecesAppend DEF Text
<1>6. Longer(Append(done, last), c) = Append(done, Append(last, c))
  BY LongerLast DEF Text
<1>7. Parted(s) = Pieces(s, Cuts(s)) /\ Parted(t) = Pieces(t, Cuts(t))
  BY DEF Parted, Cuts
<1> QED BY <1>4, <1>5, <1>6, <1>7

\* A value without bars makes the last piece longer.
LEMMA PartedWord ==
  ASSUME NEW s \in Text, NEW done \in Seq(Text), Parted(s) = Append(done, <<>>)
  PROVE  \A e \in Text : ~Has(e, {Bar}) => Parted(s \o e) = Append(done, e)
<1> DEFINE T == {e \in Text : ~Has(e, {Bar}) => Parted(s \o e) = Append(done, e)}
<1>1. s \in Seq(Symbol)
  BY DEF Text
<1>2. <<>> \in T
  <2>1. <<>> \in Text /\ s \o <<>> = s
    BY <1>1, EmptySeq, ConcatEmptySeq DEF Text
  <2> QED BY <2>1
<1>3. ASSUME NEW e \in Text, NEW c \in Symbol, e \in T PROVE Append(e, c) \in T
  <2> DEFINE w == Append(e, c)
             N == Len(e)
  <2>1. /\ w \in Text /\ Len(w) = N + 1 /\ N \in Nat /\ (\A i \in 1 .. N : w[i] = e[i]) /\ w[N + 1] = c
        /\ DOMAIN e = 1 .. N
    BY AppendProperties, LenProperties DEF Text
  <2>2. DOMAIN w = 1 .. N + 1
    BY <2>1, LenProperties DEF Text
  <2>3. s \o w = Append(s \o e, c) /\ s \o e \in Text
    <3>1. e \in Seq(Symbol)
      BY DEF Text
    <3>2. s \o e \in Seq(Symbol)
      BY <1>1, <3>1, ConcatProperties
    <3>3. s \o Append(e, c) = Append(s \o e, c)
      BY <1>1, <3>1, ConcatAppend
    <3> QED BY <3>2, <3>3 DEF Text
  <2> HIDE DEF w
  <2>4. ASSUME ~Has(w, {Bar}) PROVE Parted(s \o w) = Append(done, w)
    <3>1. N + 1 \in DOMAIN w /\ \A i \in DOMAIN e : i \in DOMAIN w /\ w[i] = e[i]
      BY <2>1, <2>2
    <3>2. c # Bar /\ ~Has(e, {Bar})
      BY <2>1, <2>4, <3>1 DEF Has
    <3>3. Parted(s \o e) = Append(done, e)
      BY <1>3, <3>2
    <3>4. Parted(Append(s \o e, c)) = Append(done, Append(e, c))
      BY <2>3, <3>2, <3>3, PartedAppend
    <3> QED BY <2>3, <3>4 DEF w
  <2> QED BY <2>1, <2>4 DEF w
<1> HIDE DEF T
<1>4. \A e \in Text : e \in T
  BY <1>2, <1>3, AppendInduction DEF Text
<1> QED BY <1>4 DEF T

\* The pieces of values that are listed are the values.
LEMMA PartedJoin ==
  \A list \in Seq(Text) : \A e \in Text :
    (\A n \in DOMAIN list : Listable(list[n])) /\ Listable(e) => Parted(Join(Append(list, e))) = Append(list, e)
<1> DEFINE AllListable(list) == \A n \in DOMAIN list : Listable(list[n])
           IsParted(list, e) == Parted(Join(Append(list, e))) = Append(list, e)
           T == {list \in Seq(Text) : \A e \in Text : AllListable(list) /\ Listable(e) => IsParted(list, e)}
<1>1. <<>> \in T
  <2>1. <<>> \in Seq(Text) /\ <<>> \in Text /\ Join(<<>>) = <<>>
    <3>1. [n \in DOMAIN <<>> |-> (IF \A m \in 1 .. n - 1 : <<>>[m] = <<>> THEN <<>> ELSE <<Bar>>) \o <<>>[n]] = <<>>
      OBVIOUS
    <3> QED BY <3>1, EmptySeq, FlattenEmpty DEF Join, Text
  <2>2. ASSUME NEW e \in Text, Listable(e) PROVE IsParted(<<>>, e)
    <3>1. Join(Append(<<>>, e)) = Join(<<>>) \o ((IF <<>> = <<>> THEN <<>> ELSE <<Bar>>) \o e)
      <4>1. ASSUME NEW list \in Seq(Text), list = <<>>
            PROVE  Join(Append(list, e)) = Join(list) \o ((IF list = <<>> THEN <<>> ELSE <<Bar>>) \o e)
        <5>1. \A n \in DOMAIN list : list[n] # <<>>
          BY <4>1
        <5> QED BY <5>1, JoinAppend
      <4> QED BY <2>1, <4>1
    <3>2. <<>> \o e = e
      <4>1. e \in Seq(Symbol)
        BY DEF Text
      <4> QED BY <4>1, ConcatEmptySeq
    <3>3. Join(Append(<<>>, e)) = <<>> \o e
      BY <2>1, <3>1, <3>2
    <3>4. Parted(<<>>) = Append(<<>>, <<>>)
      BY PiecesEmpty DEF Parted
    <3>5. Parted(<<>> \o e) = Append(<<>>, e)
      BY <2>1, <2>2, <3>4, PartedWord DEF Listable
    <3> QED BY <3>3, <3>5
  <2> HIDE DEF IsParted
  <2> QED BY <2>1, <2>2
<1>2. ASSUME NEW list \in Seq(Text), NEW last \in Text, list \in T PROVE Append(list, last) \in T
  <2> DEFINE all == Append(list, last)
             N == Len(list)
  <2>1. /\ all \in Seq(Text) /\ all # <<>> /\ Len(all) = N + 1 /\ N \in Nat /\ DOMAIN list = 1 .. N
        /\ (\A i \in 1 .. N : all[i] = list[i]) /\ all[N + 1] = last
    BY AppendProperties, LenProperties
  <2>2. DOMAIN all = 1 .. N + 1
    BY <2>1, LenProperties
  <2> HIDE DEF all
  <2>3. ASSUME NEW e \in Text, AllListable(all), Listable(e) PROVE IsParted(all, e)
    <3> DEFINE s == Join(all)
    <3>1. AllListable(list) /\ Listable(last)
      <4>1. N + 1 \in DOMAIN all /\ \A i \in DOMAIN list : i \in DOMAIN all /\ all[i] = list[i]
        BY <2>1, <2>2
      <4> QED BY <2>1, <2>3, <4>1
    <3>2. IsParted(list, last)
      <4> HIDE DEF IsParted, AllListable
      <4> QED BY <1>2, <3>1
    <3>3. Parted(s) = Append(list, last) /\ s \in Text
      BY <2>1, <3>2, JoinType DEF all
    <3>4. Join(Append(all, e)) = s \o (<<Bar>> \o e)
      <4>1. \A n \in DOMAIN all : all[n] # <<>>
        BY <2>3 DEF Listable
      <4>2. Join(Append(all, e)) = Join(all) \o ((IF all = <<>> THEN <<>> ELSE <<Bar>>) \o e)
        BY <2>1, <4>1, JoinAppend
      <4> QED BY <2>1, <4>2
    <3> HIDE DEF s
    <3>5. s \in Seq(Symbol) /\ <<Bar>> \in Seq(Symbol) /\ e \in Seq(Symbol) /\ Bar \in Symbol
      BY <3>3, Words DEF Text
    <3>6. s \o (<<Bar>> \o e) = Append(s, Bar) \o e
      <4>1. s \o (<<Bar>> \o e) = (s \o <<Bar>>) \o e
        BY <3>5, ConcatAssociative
      <4>2. s \o <<Bar>> = Append(s, Bar)
        BY <3>5, AppendIsConcat
      <4> QED BY <4>1, <4>2
    <3>7. Parted(Append(s, Bar)) = Append(all, <<>>) /\ Append(s, Bar) \in Text
      <4>1. Append(s, Bar) \in Text
        BY <3>5, AppendProperties DEF Text
      <4>2. Parted(Append(s, Bar)) = Append(Append(list, last), <<>>)
        BY <3>3, <3>5, PartedAppend
      <4> QED BY <4>1, <4>2 DEF all
    <3>8. Parted(Append(s, Bar) \o e) = Append(all, e)
      BY <2>1, <2>3, <3>7, PartedWord DEF Listable
    <3> QED BY <3>4, <3>6, <3>8
  <2> HIDE DEF IsParted
  <2> QED BY <2>1, <2>3 DEF all
<1> HIDE DEF T
<1>3. \A list \in Seq(Text) : list \in T
  BY <1>1, <1>2, AppendInduction
<1> QED BY <1>3 DEF T

\* All of a list is the list.
LEMMA OnlyAll ==
  ASSUME NEW S
  PROVE  \A s \in Seq(S) : Only(s, DOMAIN s) = s
<1> DEFINE T == {s \in Seq(S) : Only(s, DOMAIN s) = s}
<1>1. <<>> \in T
  BY EmptySeq, OnlyEmpty
<1>2. ASSUME NEW s \in Seq(S), NEW e \in S, s \in T PROVE Append(s, e) \in T
  <2>1. /\ Append(s, e) \in Seq(S) /\ Len(Append(s, e)) = Len(s) + 1 /\ Len(s) \in Nat
        /\ DOMAIN s = 1 .. Len(s)
    BY AppendProperties, LenProperties
  <2>2. DOMAIN Append(s, e) = 1 .. Len(s) + 1
    BY <2>1, LenProperties
  <2>3. (\A n \in 1 .. Len(s) : n \in DOMAIN s <=> n \in DOMAIN Append(s, e)) /\ Len(s) + 1 \in DOMAIN Append(s, e)
    BY <2>1, <2>2
  <2>4. Only(s, DOMAIN s) = s
    BY <1>2
  <2>5. ASSUME NEW x, NEW y, \A n \in 1 .. Len(s) : n \in x <=> n \in y, Len(s) + 1 \in y
        PROVE  Only(Append(s, e), y) = Append(Only(s, x), e)
    BY <2>5, OnlyAppend
  <2>6. Only(Append(s, e), DOMAIN Append(s, e)) = Append(s, e)
    BY <2>3, <2>4, <2>5
  <2> QED BY <2>1, <2>6
<1> HIDE DEF T
<1>3. \A s \in Seq(S) : s \in T
  BY <1>1, <1>2, AppendInduction
<1> QED BY <1>3 DEF T

\* splitList undoes joinJsonArray.
LEMMA SplitJoin ==
  ASSUME NEW list \in Seq(Text), ListOK(list)
  PROVE  Split(Join(list)) = list
<1> DEFINE V(pieces) == [n \in DOMAIN pieces |-> Trim(pieces[n])]
           K(values) == {n \in DOMAIN values : values[n] # <<>>}
<1>1. \A s : Split(s) = Only(V(Parted(s)), K(V(Parted(s))))
  BY DEF Split, Parted
<1>2. DOMAIN list = 1 .. Len(list) /\ Len(list) \in Nat
  BY LenProperties
<1>3. \A n \in DOMAIN list : Listable(list[n]) /\ Trim(list[n]) = list[n]
  BY DEF ListOK, ToSet, Listable
<1>4. CASE list = <<>>
  <2>1. Join(<<>>) = <<>>
    <3>1. [n \in DOMAIN <<>> |-> (IF \A m \in 1 .. n - 1 : <<>>[m] = <<>> THEN <<>> ELSE <<Bar>>) \o <<>>[n]] = <<>>
      OBVIOUS
    <3> QED BY <3>1, FlattenEmpty DEF Join
  <2>2. Parted(<<>>) = <<<<>>>>
    BY PiecesEmpty DEF Parted
  <2>3. Trim(<<>>) = <<>>
    <3>1. {i \in DOMAIN <<>> : <<>>[i] \notin Whitespace} = {}
      OBVIOUS
    <3> QED BY <3>1 DEF Trim
  <2>4. V(<<<<>>>>) = Append(<<>>, <<>>)
    BY <2>3
  <2>5. K(Append(<<>>, <<>>)) = {}
    OBVIOUS
  <2> HIDE DEF V, K
  <2>6. Only(Append(<<>>, <<>>), {}) = <<>>
    <3>1. <<>> \in Seq({<<>>}) /\ Len(<<>>) = 0 /\ Only(<<>>, {}) = <<>>
      BY EmptySeq, OnlyEmpty
    <3>2. ASSUME NEW s \in Seq({<<>>}), NEW e \in {<<>>} PROVE Only(Append(s, e), {}) = Only(s, {})
      <4>1. \A n \in 1 .. Len(s) : n \in {} <=> n \in {}
        OBVIOUS
      <4>2. ASSUME NEW x, NEW y, \A n \in 1 .. Len(s) : n \in x <=> n \in y, Len(s) + 1 \notin y
            PROVE  Only(Append(s, e), y) = Only(s, x)
        BY <4>2, OnlyAppend
      <4> QED BY <4>1, <4>2
    <3> QED BY <3>1, <3>2
  <2> QED BY <1>1, <1>4, <2>1, <2>2, <2>4, <2>5, <2>6
<1>5. CASE list # <<>>
  <2>1. PICK front \in Seq(Text), last \in Text : list = Append(front, last)
    BY <1>5, SequenceEmptyOrAppend
  <2>2. /\ DOMAIN front = 1 .. Len(front) /\ Len(front) \in Nat /\ Len(list) = Len(front) + 1
        /\ (\A i \in 1 .. Len(front) : list[i] = front[i]) /\ list[Len(front) + 1] = last
    BY <2>1, AppendProperties, LenProperties
  <2>3. Len(front) + 1 \in DOMAIN list /\ \A n \in DOMAIN front : n \in DOMAIN list /\ list[n] = front[n]
    BY <1>2, <2>2
  <2>4. Parted(Join(list)) = list
    BY <1>3, <2>1, <2>2, <2>3, PartedJoin
  <2>5. V(list) = list
    <3>1. V(list) = [n \in DOMAIN list |-> list[n]]
      BY <1>3
    <3>2. list = [n \in DOMAIN list |-> list[n]]
      BY LenProperties
    <3> QED BY <3>1, <3>2
  <2>6. K(list) = DOMAIN list
    BY <1>3 DEF Listable
  <2> HIDE DEF V, K
  <2>7. Only(list, DOMAIN list) = list
    BY OnlyAll
  <2> QED BY <1>1, <2>4, <2>5, <2>6, <2>7
<1> QED BY <1>4, <1>5

(***************************************************************************)
(* What is exported, imported.                                             *)
(***************************************************************************)
\* A word of one symbol has no blanks around it, and case does not change it.
LEMMA WordStays ==
  ASSUME NEW c \in Symbol, c \notin Whitespace, c \notin DOMAIN Lower
  PROVE  Trim(<<c>>) = <<c>> /\ Fold(<<c>>) = <<c>>
<1> DEFINE s == <<c>>
           ink == {i \in DOMAIN s : s[i] \notin Whitespace}
<1>1. s \in Seq(Symbol) /\ Len(s) = 1 /\ DOMAIN s = {1} /\ s[1] = c
  OBVIOUS
<1>2. ink = {1}
  BY <1>1
<1>3. Min({1}) = 1 /\ Max({1}) = 1
  <2>1. {1} \in SUBSET Nat /\ {1} \in SUBSET (0 .. 1) /\ {1} # {} /\ 1 \in Nat
    OBVIOUS
  <2> QED BY <2>1, MinIsLeast, MaxIsGreatest
<1>4. SubSeq(s, 1, 1) = s
  BY <1>1, SubSeqFull
<1>5. Trim(s) = s
  <2>1. Trim(s) = IF ink = {} THEN <<>> ELSE SubSeq(s, Min(ink), Max(ink))
    BY DEF Trim
  <2> QED BY <1>2, <1>3, <1>4, <2>1
<1>6. Fold(s) = s
  <2>1. s = [i \in DOMAIN s |-> s[i]]
    OBVIOUS
  <2>2. \A i \in DOMAIN s : s[i] \notin DOMAIN Lower
    BY <1>1
  <2>3. Fold(s) = [i \in DOMAIN s |-> s[i]]
    BY <2>2 DEF Fold
  <2> QED BY <2>1, <2>3
<1> QED BY <1>5, <1>6

\* The names of the columns are such words, and they differ.
LEMMA ColumnWords ==
  /\ DOMAIN ColumnNames = 1 .. 8
  /\ \A n \in 1 .. 8 : /\ ColumnNames[n] \in Symbol
                       /\ Trim(<<ColumnNames[n]>>) = <<ColumnNames[n]>>
                       /\ Fold(<<ColumnNames[n]>>) = <<ColumnNames[n]>>
  /\ \A m, n \in 1 .. 8 : <<ColumnNames[m]>> = <<ColumnNames[n]>> => m = n
<1>1. DOMAIN ColumnNames = 1 .. 8
  BY DEF ColumnNames
<1>2. \A n \in 1 .. 8 : ColumnNames[n] \in ToSet(ColumnNames)
  BY <1>1 DEF ToSet
<1>3. \A n \in 1 .. 8 : ColumnNames[n] \in Symbol /\ ColumnNames[n] \notin DOMAIN Lower
  BY <1>2, ExchangeConstants
<1>4. \A n \in 1 .. 8 : n \in {1, 2, 3, 4, 5, 6, 7, 8}
  OBVIOUS
<1>5. \A n \in 1 .. 8 : ColumnNames[n] \notin Whitespace
  <2>1. \A n \in 1 .. 8 : ColumnNames[n] \in {"id", "enabled", "trigger", "replacement", "group", "activation",
                                           "languages", "extrajson"}
    BY <1>4 DEF ColumnNames
  <2>2. {"id", "enabled", "trigger", "replacement", "group", "activation", "languages", "extrajson"}
          \cap {" ", "\t", "CR", "LF"} = {}
    OBVIOUS
  <2> QED BY <2>1, <2>2 DEF Whitespace, LineEnds, Cr, Lf
<1>6. \A m, n \in 1 .. 8 : ColumnNames[m] = ColumnNames[n] => m = n
  BY <1>4 DEF ColumnNames
<1> QED BY <1>1, <1>3, <1>5, <1>6, WordStays

\* The header of a file that was exported.
LEMMA ExportedHeader ==
  ASSUME rows # <<>>, rows[1] = ColumnLine
  PROVE  Header = ColumnLine /\ HeaderOK
<1>1. DOMAIN ColumnLine = 1 .. 8 /\ \A n \in 1 .. 8 : ColumnLine[n] = <<ColumnNames[n]>>
  BY ColumnWords DEF ColumnLine
<1>2. Header = [n \in 1 .. 8 |-> <<ColumnNames[n]>>]
  BY <1>1, ColumnWords DEF Header
<1>3. Header = ColumnLine
  BY <1>2, ColumnWords DEF ColumnLine
<1>4. \A m, n \in DOMAIN Header : Header[m] # <<>> /\ (Header[m] = Header[n] => m = n)
  BY <1>1, <1>3, ColumnWords
<1>5. <<"trigger">> \in ToSet(Header) /\ <<"replacement">> \in ToSet(Header)
  <2>1. Header[3] = <<"trigger">> /\ Header[4] = <<"replacement">> /\ 3 \in DOMAIN Header /\ 4 \in DOMAIN Header
    BY <1>2 DEF ColumnNames
  <2> QED BY <2>1 DEF ToSet
<1> QED BY <1>3, <1>4, <1>5 DEF HeaderOK

\* Its cells are those of the rule, under the names of their columns.
LEMMA ExportedCells ==
  ASSUME rows # <<>>, rows[1] = ColumnLine, NEW item \in Rule
  PROVE  /\ Cell(Cells(item), "id") = item.id
         /\ Cell(Cells(item), "enabled") = IF item.enabled THEN True ELSE False
         /\ Cell(Cells(item), "trigger") = item.trigger
         /\ Cell(Cells(item), "replacement") = item.replacement
         /\ Cell(Cells(item), "group") = item.group
         /\ Cell(Cells(item), "activation") = Join(item.activation)
         /\ Cell(Cells(item), "languages") = Join(item.languages)
         /\ Cell(Cells(item), "extrajson") = item.extra
<1> DEFINE r == Cells(item)
<1>1. Header = ColumnLine /\ DOMAIN Header = 1 .. 8 /\ \A n \in 1 .. 8 : Header[n] = <<ColumnNames[n]>>
  BY ExportedHeader, ColumnWords DEF ColumnLine
<1>2. DOMAIN r = 1 .. 8
  BY CellsType, LenProperties
<1> HIDE DEF r
<1>3. ASSUME NEW n \in 1 .. 8 PROVE Cell(r, ColumnNames[n]) = r[n]
  <2> DEFINE at == {m \in DOMAIN Header \cap DOMAIN r : Header[m] = <<ColumnNames[n]>>}
  <2>1. \A m \in 1 .. 8 : Header[m] = <<ColumnNames[n]>> <=> m = n
    BY <1>1, ColumnWords
  <2>2. at = {n}
    BY <1>1, <1>2, <2>1
  <2>3. Cell(r, ColumnNames[n]) = IF at = {} THEN <<>> ELSE r[CHOOSE m \in at : TRUE]
    BY DEF Cell
  <2> HIDE DEF at
  <2>4. (CHOOSE m \in at : TRUE) = n
    BY <2>2
  <2> QED BY <2>2, <2>3, <2>4
<1>4. /\ Cell(r, "id") = r[1] /\ Cell(r, "enabled") = r[2] /\ Cell(r, "trigger") = r[3]
      /\ Cell(r, "replacement") = r[4] /\ Cell(r, "group") = r[5] /\ Cell(r, "activation") = r[6]
      /\ Cell(r, "languages") = r[7] /\ Cell(r, "extrajson") = r[8]
  <2>1. /\ ColumnNames[1] = "id" /\ ColumnNames[2] = "enabled" /\ ColumnNames[3] = "trigger"
        /\ ColumnNames[4] = "replacement" /\ ColumnNames[5] = "group" /\ ColumnNames[6] = "activation"
        /\ ColumnNames[7] = "languages" /\ ColumnNames[8] = "extrajson"
    BY DEF ColumnNames
  <2>2. 1 \in 1 .. 8 /\ 2 \in 1 .. 8 /\ 3 \in 1 .. 8 /\ 4 \in 1 .. 8 /\ 5 \in 1 .. 8 /\ 6 \in 1 .. 8
        /\ 7 \in 1 .. 8 /\ 8 \in 1 .. 8
    OBVIOUS
  <2>3. /\ Cell(r, ColumnNames[1]) = r[1] /\ Cell(r, ColumnNames[2]) = r[2] /\ Cell(r, ColumnNames[3]) = r[3]
        /\ Cell(r, ColumnNames[4]) = r[4]
    BY <1>3, <2>2
  <2>4. /\ Cell(r, ColumnNames[5]) = r[5] /\ Cell(r, ColumnNames[6]) = r[6]
        /\ Cell(r, ColumnNames[7]) = r[7] /\ Cell(r, ColumnNames[8]) = r[8]
    BY <1>3, <2>2
  <2> QED BY <2>1, <2>3, <2>4
<1>5. /\ r[1] = item.id /\ r[2] = (IF item.enabled THEN True ELSE False) /\ r[3] = item.trigger
      /\ r[4] = item.replacement /\ r[5] = item.group /\ r[6] = Join(item.activation)
      /\ r[7] = Join(item.languages) /\ r[8] = item.extra
  BY DEF r, Cells
<1> QED BY <1>4, <1>5 DEF r

\* A list with values is not the empty text.
LEMMA JoinNotEmpty ==
  ASSUME NEW list \in Seq(Text), ListOK(list), list # <<>>
  PROVE  Join(list) # <<>>
<1>1. Split(Join(list)) = list
  BY SplitJoin
<1>2. <<>> \in Seq(Text) /\ ListOK(<<>>) /\ Join(<<>>) = <<>>
  <2>1. [n \in DOMAIN <<>> |-> (IF \A m \in 1 .. n - 1 : <<>>[m] = <<>> THEN <<>> ELSE <<Bar>>) \o <<>>[n]] = <<>>
    OBVIOUS
  <2> QED BY <2>1, EmptySeq, FlattenEmpty DEF Join, ListOK, ToSet
<1>3. Split(<<>>) = <<>>
  BY <1>2, SplitJoin
<1> QED BY <1>1, <1>3

\* The rule of an exported row is the rule that was exported.
LEMMA ExportedRule ==
  ASSUME rows # <<>>, rows[1] = ColumnLine, NEW item \in Rule, Exchangeable(item),
         item.trigger # <<>>, item.replacement # <<>>, item.activation # <<>>
  PROVE  LET r == Cells(item)
         IN /\ ~Empty(r) /\ RuleOfRow(r) = item
            /\ item.id \notin ExistingIds => RowOK(r)
<1> DEFINE r == Cells(item)
<1>1. /\ Cell(r, "id") = item.id /\ Cell(r, "enabled") = (IF item.enabled THEN True ELSE False)
      /\ Cell(r, "trigger") = item.trigger /\ Cell(r, "replacement") = item.replacement
      /\ Cell(r, "group") = item.group /\ Cell(r, "activation") = Join(item.activation)
      /\ Cell(r, "languages") = Join(item.languages) /\ Cell(r, "extrajson") = item.extra
  BY ExportedCells
<1> HIDE DEF r
<1>2. /\ item.id # <<>> /\ item.group = Trim(item.group) /\ item.extra = Trim(item.extra)
      /\ item.extra \in Objects \cup {<<>>}
      /\ ListOK(item.activation) /\ (\A v \in ToSet(item.activation) : v = Fold(v)) /\ ListOK(item.languages)
      /\ item.activation \in Seq(Text) /\ item.languages \in Seq(Text) /\ item.enabled \in BOOLEAN
  BY DEF Exchangeable, Rule
<1>3. RowId(r) = item.id
  BY <1>1, <1>2 DEF RowId
<1>4. /\ Word(True) = True /\ Word(False) = False /\ True # <<>> /\ False # <<>>
      /\ True \in TrueWords /\ False \in FalseWords /\ False \notin TrueWords
  <2>1. "true" \in Symbol /\ "false" \in Symbol /\ "true" \notin DOMAIN Lower /\ "false" \notin DOMAIN Lower
    BY ExchangeConstants, Words
  <2>2. "true" \notin Whitespace /\ "false" \notin Whitespace
    BY DEF Whitespace, LineEnds, Cr, Lf
  <2>3. Word(True) = True /\ Word(False) = False
    BY <2>1, <2>2, WordStays DEF True, False, Word
  <2>4. True # <<>> /\ False # <<>> /\ False \notin TrueWords
    <3>1. /\ <<"false">>[1] # <<"true">>[1] /\ <<"false">>[1] # <<"1">>[1]
         /\ <<"false">>[1] # <<"yes">>[1] /\ <<"false">>[1] # <<"on">>[1]
      OBVIOUS
    <3>2. Len(<<"true">>) = 1 /\ Len(<<"false">>) = 1 /\ Len(<<>>) = 0
      OBVIOUS
    <3> QED BY <3>1, <3>2 DEF True, False, TrueWords
  <2> QED BY <2>3, <2>4 DEF TrueWords, FalseWords
<1>5. IsBoolean(Cell(r, "enabled")) /\ Boolean(Cell(r, "enabled"), TRUE) = item.enabled
  <2>1. CASE item.enabled
    BY <1>1, <1>2, <1>4, <2>1 DEF IsBoolean, Boolean
  <2>2. CASE ~item.enabled
    <3>1. Word(Cell(r, "enabled")) = False
      BY <1>1, <1>4, <2>2
    <3>2. IsBoolean(Cell(r, "enabled"))
      BY <1>4, <3>1 DEF IsBoolean
    <3>3. Boolean(Cell(r, "enabled"), TRUE) = (False \in TrueWords)
      BY <1>4, <3>1 DEF Boolean
    <3>4. (False \in TrueWords) = FALSE
      BY <1>4
    <3>5. item.enabled = FALSE
      BY <1>2, <2>2
    <3> QED BY <3>2, <3>3, <3>4, <3>5
  <2> QED BY <2>1, <2>2
<1>6. Split(Cell(r, "languages")) = item.languages
  BY <1>1, <1>2, SplitJoin
<1>7. Activation(Cell(r, "activation")) = item.activation
  <2>1. Join(item.activation) # <<>> /\ Split(Join(item.activation)) = item.activation
    BY <1>2, JoinNotEmpty, SplitJoin
  <2>2. Activation(Join(item.activation)) = [n \in DOMAIN item.activation |-> Fold(item.activation[n])]
    BY <2>1 DEF Activation
  <2>3. \A n \in DOMAIN item.activation : Fold(item.activation[n]) = item.activation[n]
    BY <1>2 DEF ToSet
  <2>4. item.activation = [n \in DOMAIN item.activation |-> item.activation[n]]
    BY <1>2, LenProperties
  <2> QED BY <1>1, <2>2, <2>3, <2>4
<1>8. RuleOfRow(r) = [id |-> item.id, enabled |-> item.enabled, trigger |-> item.trigger,
                      replacement |-> item.replacement, group |-> item.group,
                      activation |-> item.activation, languages |-> item.languages, extra |-> item.extra]
  BY <1>1, <1>2, <1>3, <1>5, <1>6, <1>7 DEF RuleOfRow
<1>9. RuleOfRow(r) = item
  BY <1>8 DEF Rule
<1>10. ~Empty(r)
  BY <1>1 DEF Empty
<1>11. item.id \notin ExistingIds => RowOK(r)
  BY <1>1, <1>2, <1>3, <1>5 DEF RowOK
<1> QED BY <1>9, <1>10, <1>11 DEF r

\* The import of an exported file that can be had back: the rules that were
\* taken are the first ones that were exported.
HadBack == Lossless /\ mode = "replace"

\* The rules of the rows that have been looked at, all of them.
Regained ==
  /\ rowIndex \in 2 .. Len(source.items) + 2
  /\ imported = SubSeq(source.items, 1, rowIndex - 2)

\* What holds throughout an import of an exported file.
ExportInv ==
  /\ ImportInv
  /\ source.items # <<>> => source.items \in Seq(Rule) /\ text = Exported(source.items, source.safe)
  /\ phase = "rows" /\ HadBack => Regained

\* Its rules can be written, and read again.
LEMMA LosslessRules ==
  ASSUME ExportInv, Lossless
  PROVE  /\ source.items \in Seq(Rule) /\ Len(source.items) \in Nat \ {0}
         /\ DOMAIN source.items = 1 .. Len(source.items)
         /\ \A i, j \in 1 .. Len(source.items) : source.items[i].id = source.items[j].id => i = j
         /\ \A k \in 1 .. Len(source.items) :
              /\ source.items[k] \in Rule /\ PlainRule(source.items[k], source.safe)
              /\ Exchangeable(source.items[k]) /\ source.items[k].trigger # <<>>
              /\ source.items[k].replacement # <<>> /\ source.items[k].activation # <<>>
<1> DEFINE items == source.items
           d == [items |-> items, groups |-> <<>>]
<1>1. items # <<>> /\ items \in Seq(Rule) /\ Accepted(d)
  BY DEF ExportInv, Lossless
<1>2. DOMAIN items = 1 .. Len(items) /\ Len(items) \in Nat \ {0}
  BY <1>1, LenProperties, EmptySeq
<1>3. \A i, j \in 1 .. Len(items) : items[i].id = items[j].id => i = j
  <2>1. \A i, j \in DOMAIN d.items : d.items[i].id = d.items[j].id => i = j
    BY <1>1, AcceptedIds
  <2> QED BY <1>2, <2>1
<1>4. ASSUME NEW k \in 1 .. Len(items)
      PROVE  /\ items[k] \in Rule /\ PlainRule(items[k], source.safe)
             /\ Exchangeable(items[k]) /\ items[k].trigger # <<>>
             /\ items[k].replacement # <<>> /\ items[k].activation # <<>>
  <2>1. items[k] \in Rule
    BY <1>1, <1>2, ElementOfSeq
  <2>2. Exchangeable(items[k]) /\ (source.safe => \A v \in ToSet(Cells(items[k])) : ~Risky(v))
    BY <1>2 DEF Lossless
  <2>3. PlainRule(items[k], source.safe)
    BY <2>2 DEF PlainRule, Plain, ToSet
  <2>4. items[k].trigger # <<>>
    <3> DEFINE e == [groups |-> d.groups,
                     items |-> [i \in DOMAIN d.items |->
                                 [id |-> d.items[i].id, trigger |-> d.items[i].trigger,
                                  immediate |-> Immediate \in ToSet(d.items[i].activation)]]]
    <3>1. Valid(e)
      BY <1>1 DEF Accepted
    <3>2. DOMAIN e.items = 1 .. Len(items) /\ e.items[k].trigger = items[k].trigger
      BY <1>2
    <3> HIDE DEF e
    <3> QED BY <3>1, <3>2 DEF Valid
  <2>5. items[k].replacement # <<>> /\ ToSet(items[k].activation) \cap Supported # {}
    <3>1. \A i \in DOMAIN d.items : d.items[i].replacement # <<>> /\ ToSet(d.items[i].activation) \cap Supported # {}
      BY <1>1 DEF Accepted
    <3> QED BY <1>2, <3>1
  <2>6. items[k].activation # <<>>
    <3>1. ToSet(<<>>) = {}
      BY DEF ToSet
    <3> QED BY <2>5, <3>1
  <2> QED BY <2>1, <2>2, <2>3, <2>4, <2>5, <2>6
<1> QED BY <1>1, <1>2, <1>3, <1>4

\* The text is one of the grammar, and its rows are those of the rules.
LEMMA LosslessRows ==
  ASSUME ExportInv, Lossless
  PROVE  /\ WellFormed(text)
         /\ phase \in {"parsed", "rows"} =>
              /\ Len(rows) = Len(source.items) + 1 /\ rows # <<>> /\ rows[1] = ColumnLine
              /\ \A k \in 1 .. Len(source.items) : rows[k + 1] = Cells(source.items[k])
<1> DEFINE items == source.items
           cells == CellRows(items)
<1>1. /\ items \in Seq(Rule) /\ Len(items) \in Nat \ {0} /\ DOMAIN items = 1 .. Len(items)
      /\ \A k \in 1 .. Len(items) : PlainRule(items[k], source.safe)
  BY LosslessRules
<1>2. text = Exported(items, source.safe)
  BY DEF ExportInv, Lossless
<1>3. WellFormed(text) /\ Table(text) = <<ColumnLine>> \o cells
  BY <1>1, <1>2, ExportedIsTable
<1>4. cells \in Seq(Seq(Text)) /\ Len(cells) = Len(items) /\ \A k \in 1 .. Len(items) : cells[k] = Cells(items[k])
  <2>1. \A k \in 1 .. Len(items) : Cells(items[k]) \in Seq(Text)
    BY <1>1, ElementOfSeq, CellsType
  <2>2. cells = [k \in 1 .. Len(items) |-> Cells(items[k])]
    BY <1>1 DEF CellRows
  <2> HIDE DEF cells, items
  <2> QED BY <1>1, <2>1, <2>2
<1>5. <<ColumnLine>> \in Seq(Seq(Text)) /\ Len(<<ColumnLine>>) = 1 /\ <<ColumnLine>>[1] = ColumnLine
  BY ColumnLineType
<1> HIDE DEF items, cells
<1> DEFINE t == <<ColumnLine>> \o cells
<1>6. t \in Seq(Seq(Text)) /\ Len(t) = 1 + Len(cells)
      /\ \A i \in 1 .. 1 + Len(cells) : t[i] = IF i <= 1 THEN <<ColumnLine>>[i] ELSE cells[i - 1]
  BY <1>4, <1>5, ConcatProperties
<1> HIDE DEF t
<1>7. Len(t) = Len(items) + 1 /\ t # <<>> /\ t[1] = ColumnLine
  <2>1. Len(t) = Len(items) + 1 /\ t[1] = ColumnLine
    BY <1>1, <1>4, <1>5, <1>6
  <2> QED BY <1>1, <2>1, EmptySeq
<1>8. \A k \in 1 .. Len(items) : t[k + 1] = Cells(items[k])
  <2> TAKE k \in 1 .. Len(items)
  <2>1. k + 1 \in 1 .. 1 + Len(cells) /\ ~(k + 1 <= 1) /\ (k + 1) - 1 = k
    BY <1>1, <1>4
  <2> QED BY <1>4, <1>6, <2>1
<1>9. phase \in {"parsed", "rows"} => rows = t
  BY <1>3, RowsType DEF ExportInv, ImportInv, t
<1> QED BY <1>3, <1>7, <1>8, <1>9 DEF items

\* The row that is next becomes the rule that is next.
LEMMA NextRowIsRule ==
  ASSUME ExportInv, HadBack, AtRow
  PROVE  /\ ~Empty(rows[rowIndex]) /\ RowOK(rows[rowIndex])
         /\ rowIndex - 1 \in 1 .. Len(source.items)
         /\ RuleOfRow(rows[rowIndex]) = source.items[rowIndex - 1]
<1> DEFINE items == source.items
           k == rowIndex - 1
           item == items[k]
<1>1. phase = "rows" /\ Lossless /\ mode = "replace" /\ Regained /\ rowIndex <= Len(rows)
  BY DEF AtRow, HadBack, ExportInv
<1>2. /\ items \in Seq(Rule) /\ Len(items) \in Nat /\ DOMAIN items = 1 .. Len(items)
      /\ \A i, j \in 1 .. Len(items) : items[i].id = items[j].id => i = j
  BY <1>1, LosslessRules
<1>3. /\ Len(rows) = Len(items) + 1 /\ rows # <<>> /\ rows[1] = ColumnLine
      /\ \A n \in 1 .. Len(items) : rows[n + 1] = Cells(items[n])
  BY <1>1, LosslessRows
<1>4. /\ rowIndex \in 2 .. Len(items) + 1 /\ imported = SubSeq(items, 1, rowIndex - 2)
  BY <1>1, <1>2, <1>3 DEF Regained
<1> HIDE DEF items
<1>5. k \in 1 .. Len(items) /\ k + 1 = rowIndex /\ rowIndex - 2 = k - 1
  BY <1>2, <1>4
<1> HIDE DEF k
<1>6. rows[rowIndex] = Cells(item)
  BY <1>3, <1>5
<1>7. /\ item \in Rule /\ Exchangeable(item) /\ item.trigger # <<>>
      /\ item.replacement # <<>> /\ item.activation # <<>>
  BY <1>1, <1>5, LosslessRules DEF items
<1>8. item.id \notin ExistingIds
  <2>1. ExistingIds = Ids(imported)
    BY <1>1 DEF ExistingIds
  <2>2. \A i \in 1 .. k - 1 : items[i] \in Rule
    BY <1>2, <1>5, ElementOfSeq
  <2>3. Len(imported) = k - 1 /\ imported \in Seq(Rule) /\ \A i \in 1 .. k - 1 : imported[i] = items[i]
    BY <1>2, <1>4, <1>5, <2>2, SubSeqProperties
  <2>4. DOMAIN imported = 1 .. k - 1
    BY <2>3, LenProperties
  <2>5. \A i \in DOMAIN imported : imported[i].id # item.id
    BY <1>2, <1>5, <2>3, <2>4
  <2> QED BY <2>1, <2>5 DEF Ids
<1>9. ~Empty(Cells(item)) /\ RuleOfRow(Cells(item)) = item /\ RowOK(Cells(item))
  BY <1>3, <1>7, <1>8, ExportedRule
<1> QED BY <1>5, <1>6, <1>9 DEF k, items

\* With all of them read, the draft has the rules and is accepted.
LEMMA AllRegained ==
  ASSUME ExportInv, HadBack, AllRead
  PROVE  Merged.items = source.items /\ Mergeable
<1> DEFINE items == source.items
<1>1. phase = "rows" /\ Lossless /\ mode = "replace" /\ Regained /\ rowIndex > Len(rows)
  BY DEF AllRead, HadBack, ExportInv
<1>2. items \in Seq(Rule) /\ Len(items) \in Nat \ {0}
  BY <1>1, LosslessRules
<1>3. Len(rows) = Len(items) + 1
  BY <1>1, LosslessRows
<1>4. imported = items
  <2>1. rowIndex \in 2 .. Len(items) + 2 /\ imported = SubSeq(items, 1, rowIndex - 2)
    BY <1>1 DEF Regained
  <2>2. rowIndex - 2 = Len(items)
    BY <1>1, <1>2, <1>3, <2>1
  <2> QED BY <1>2, <2>1, <2>2, SubSeqFull
<1>5. Merged.items = items /\ ProperGroups(Merged.groups)
  <2>1. Merged.items = <<>> \o imported /\ ProperGroups(Merged.groups)
    BY <1>1, MergedProperties DEF ExportInv
  <2> QED BY <1>2, <1>4, <2>1, ConcatEmptySeq
<1>6. imported # <<>>
  BY <1>2, <1>4, EmptySeq
<1>7. Accepted(Merged)
  <2> DEFINE Checked(x) == [i \in DOMAIN x |-> [id |-> x[i].id, trigger |-> x[i].trigger,
                                               immediate |-> Immediate \in ToSet(x[i].activation)]]
             d == [items |-> items, groups |-> <<>>]
             e == [groups |-> <<>>, items |-> Checked(items)]
             m == [groups |-> Merged.groups, items |-> Checked(items)]
  <2>1. Accepted(d)
    BY <1>1 DEF Lossless
  <2>2. Valid(e)
    BY <2>1 DEF Accepted
  <2>3. Valid(m)
    <3> HIDE DEF Checked
    <3> QED BY <1>5, <2>2 DEF Valid, ProperGroups
  <2>4. \A i \in DOMAIN items :
          /\ items[i].trigger = Trim(items[i].trigger) /\ items[i].replacement # <<>>
          /\ ToSet(items[i].activation) \cap Supported # {}
    BY <2>1 DEF Accepted
  <2> HIDE DEF d
  <2> QED BY <1>5, <2>3, <2>4 DEF Accepted
<1> QED BY <1>5, <1>6, <1>7 DEF Mergeable

\* Nothing has been exported at first.
LEMMA ExportInitially == Init => ExportInv
<1> SUFFICES ASSUME Init PROVE ExportInv
  OBVIOUS
<1>1. ImportInv
  BY ImportInitially
<1>2. phase = "idle" /\ source.items = <<>>
  BY DEF Init, Idle, NoSource
<1> QED BY <1>1, <1>2 DEF ExportInv

\* What is exported from is remembered with the text, and only then.
LEMMA ReadSource ==
  ASSUME NEW m, ReadText(m) \/ ReadExported(m)
  PROVE  /\ phase' = "parsing"
         /\ source'.items # <<>> => source'.items \in Seq(Rule) /\ text' = Exported(source'.items, source'.safe)
<1>1. CASE ReadText(m)
  BY <1>1 DEF ReadText, Read, NoSource
<1>2. CASE ReadExported(m)
  <2>1. PICK d \in Drafts, safe \in BOOLEAN :
          Read(Exported(d.items, safe), [items |-> d.items, safe |-> safe], m)
    BY <1>2 DEF ReadExported
  <2>2. d.items \in Seq(Rule)
    BY ExchangeConstants
  <2>3. phase' = "parsing" /\ text' = Exported(d.items, safe) /\ source' = [items |-> d.items, safe |-> safe]
    BY <2>1 DEF Read
  <2> QED BY <2>2, <2>3
<1> QED BY <1>1, <1>2

\* Every step keeps it: no row is passed over or refused, and each gives its rule back.
LEMMA ExportStep == ExportInv /\ [Next]_vars => ExportInv'
<1> SUFFICES ASSUME ExportInv, [Next]_vars PROVE ExportInv'
  OBVIOUS
<1> DEFINE FromSource == source.items # <<>> => source.items \in Seq(Rule) /\ text = Exported(source.items, source.safe)
<1>0. ImportInv' /\ FromSource
  BY ImportStep DEF ExportInv
<1>1. ASSUME source' = source, text' = text, phase' # "rows" PROVE ExportInv'
  BY <1>0, <1>1 DEF ExportInv
<1>2. ASSUME NEW d \in Drafts, Open(d) PROVE ExportInv'
  <2>1. source' = source /\ text' = text /\ phase' # "rows"
    BY <1>2 DEF Open
  <2> QED BY <1>1, <2>1
<1>3. ASSUME NEW m \in {"append", "replace"}, ReadText(m) \/ ReadExported(m) PROVE ExportInv'
  BY <1>0, <1>3, ReadSource DEF ExportInv
<1>4. CASE Parse \/ RefuseHeader \/ RefuseRow \/ RefuseRules
  <2>1. source' = source /\ text' = text /\ phase' # "rows"
    BY <1>4 DEF Parse, DoubledQuote, ClosingQuote, QuotedCharacter, CharacterAfterQuote, QuoteInField,
         OpeningQuote, FieldEnd, RowEnd, PlainCharacter, EndInQuotes, EndOfText,
         Looking, Outside, ReadOn, Fail, RefuseHeader, RefuseRow, RefuseRules
  <2> QED BY <1>1, <2>1
<1>5. ASSUME source' = source, text' = text, mode' = mode, HadBack => Regained' PROVE ExportInv'
  <2>1. HadBack' <=> HadBack
    BY <1>5 DEF HadBack, Lossless
  <2> QED BY <1>0, <1>5, <2>1 DEF ExportInv
<1>6. CASE AcceptHeader
  <2>1. source' = source /\ text' = text /\ mode' = mode /\ phase = "parsed" /\ imported' = imported /\ rowIndex' = 2
    BY <1>6 DEF AcceptHeader
  <2>2. ASSUME HadBack PROVE Regained'
    <3>1. Len(source.items) \in Nat
      BY <2>2, LosslessRules DEF HadBack
    <3>2. imported = <<>>
      BY <2>1 DEF ExportInv, ImportInv
    <3>3. SubSeq(source.items, 1, 2 - 2) = <<>>
      BY SubSeqEmpty
    <3> QED BY <2>1, <3>1, <3>2, <3>3 DEF Regained
  <2> QED BY <1>5, <2>1, <2>2
<1>7. CASE SkipRow
  <2>1. source' = source /\ text' = text /\ mode' = mode /\ AtRow /\ Empty(rows[rowIndex])
    BY <1>7 DEF SkipRow
  <2>2. ~HadBack
    BY <2>1, NextRowIsRule
  <2> QED BY <1>5, <2>1, <2>2
<1>8. CASE TakeRow
  <2> DEFINE items == source.items
             k == rowIndex - 1
  <2>1. /\ source' = source /\ text' = text /\ mode' = mode /\ AtRow /\ rowIndex' = rowIndex + 1
        /\ imported' = Append(imported, RuleOfRow(rows[rowIndex]))
    BY <1>8 DEF TakeRow
  <2>2. ASSUME HadBack PROVE Regained'
    <3>1. k \in 1 .. Len(items) /\ RuleOfRow(rows[rowIndex]) = items[k]
      BY <2>1, <2>2, NextRowIsRule
    <3>2. rowIndex \in 2 .. Len(items) + 2 /\ imported = SubSeq(items, 1, rowIndex - 2)
      BY <2>1, <2>2 DEF ExportInv, AtRow, Regained
    <3>3. items \in Seq(Rule) /\ Len(items) \in Nat
      BY <2>2, LosslessRules DEF HadBack
    <3> HIDE DEF items
    <3>4. rowIndex' - 2 = k /\ rowIndex - 2 = k - 1 /\ rowIndex' \in 2 .. Len(items) + 2
      BY <2>1, <3>1, <3>2, <3>3
    <3> HIDE DEF k
    <3>5. SubSeq(items, 1, k) = Append(SubSeq(items, 1, k - 1), items[k])
      <4>1. \A i \in 1 .. k : items[i] \in Rule
        BY <3>1, <3>3, ElementOfSeq
      <4>2. items[k] \in Rule
        BY <3>1, <4>1
      <4> DEFINE s == SubSeq(items, 1, k - 1)
                 t == SubSeq(items, 1, k)
      <4>3. s \in Seq(Rule) /\ Len(s) = k - 1 /\ \A i \in 1 .. k - 1 : s[i] = items[i]
        BY <3>1, <3>3, <4>1, SubSeqProperties
      <4>4. t \in Seq(Rule) /\ Len(t) = k /\ \A i \in 1 .. k : t[i] = items[i]
        BY <3>1, <3>3, <4>1, SubSeqProperties
      <4> HIDE DEF s, t
      <4>5. t = Append(s, t[Len(s) + 1])
        <5>1. Len(t) = Len(s) + 1 /\ \A i \in 1 .. Len(s) : t[i] = s[i]
          BY <3>1, <3>3, <4>3, <4>4
        <5> QED BY <4>3, <4>4, <5>1, OneMore
      <4>6. t[Len(s) + 1] = items[k]
        BY <3>1, <3>3, <4>3, <4>4
      <4> QED BY <4>5, <4>6 DEF s, t
    <3>6. imported' = SubSeq(items, 1, k)
      BY <2>1, <3>1, <3>2, <3>4, <3>5
    <3> QED BY <2>1, <3>4, <3>6 DEF Regained, items
  <2> QED BY <1>5, <2>1, <2>2
<1>9. CASE Merge \/ Return
  <2>1. source'.items = <<>> /\ phase' = "idle"
    BY <1>9 DEF Merge, Return, Forget, NoSource
  <2> QED BY <1>0, <2>1 DEF ExportInv
<1>10. CASE UNCHANGED vars
  <2>1. source' = source /\ text' = text /\ mode' = mode /\ phase' = phase /\ rowIndex' = rowIndex /\ imported' = imported
    BY <1>10 DEF vars
  <2>2. Regained' <=> Regained
    BY <2>1 DEF Regained
  <2>3. phase = "rows" /\ HadBack => Regained
    BY DEF ExportInv
  <2>4. phase' # "rows" => ExportInv'
    BY <1>1, <2>1
  <2>5. phase' = "rows" => ExportInv'
    BY <1>5, <2>1, <2>2, <2>3
  <2> QED BY <2>4, <2>5
<1> QED BY <1>2, <1>3, <1>4, <1>6, <1>7, <1>8, <1>9, <1>10 DEF Next, Import

\* The rules of a valid draft, exported and imported in place of any others, are
\* the same rules, whatever separators, quotes and line breaks are in them; and
\* no row of the file is refused (exportDelimited against importDelimited).
THEOREM ExportComesBack == Spec => ExportIsLossless
<1> DEFINE Back == Lossless /\ mode = "replace" =>
                     /\ phase' \notin {"malformed", "refused"}
                     /\ AllRead => draft'.items = source.items
<1>1. Spec => []ExportInv
  BY ExportInitially, ExportStep, PTL DEF Spec
<1>2. ASSUME ExportInv, Next, HadBack PROVE Back
  <2>1. CASE phase \in {"malformed", "refused"}
    <3>1. Return
      BY <1>2, <2>1 DEF Next, Open, ReadText, ReadExported, Choosing, Parse, DoubledQuote, ClosingQuote,
           QuotedCharacter, CharacterAfterQuote, QuoteInField, OpeningQuote, FieldEnd, RowEnd,
           PlainCharacter, EndInQuotes, EndOfText, Looking, Outside, Import, RefuseHeader, AcceptHeader,
           SkipRow, RefuseRow, TakeRow, RefuseRules, Merge, AtRow, AllRead
    <3> QED BY <2>1, <3>1 DEF Return, Forget, AllRead
  <2>2. CASE phase = "idle"
    <3>1. (\E d \in Drafts : Open(d)) \/ \E m \in {"append", "replace"} : ReadText(m) \/ ReadExported(m)
      BY <1>2, <2>2 DEF Next, Parse, DoubledQuote, ClosingQuote,
           QuotedCharacter, CharacterAfterQuote, QuoteInField, OpeningQuote, FieldEnd, RowEnd,
           PlainCharacter, EndInQuotes, EndOfText, Looking, Outside, Import, RefuseHeader, AcceptHeader,
           SkipRow, RefuseRow, TakeRow, RefuseRules, Merge, Return, AtRow, AllRead
    <3>2. phase' \in {"idle", "parsing"}
      BY <2>2, <3>1, ReadSource DEF Open
    <3> QED BY <2>2, <3>2 DEF AllRead
  <2>3. CASE phase = "parsing"
    <3>1. Parse
      BY <1>2, <2>3 DEF Next, Open, ReadText, ReadExported, Choosing, Import, RefuseHeader, AcceptHeader,
           SkipRow, RefuseRow, TakeRow, RefuseRules, Merge, Return, AtRow, AllRead
    <3>2. text' = text /\ phase' \in {"parsing", "parsed", "malformed"}
      BY <2>3, <3>1 DEF Parse, DoubledQuote, ClosingQuote, QuotedCharacter, CharacterAfterQuote, QuoteInField,
           OpeningQuote, FieldEnd, RowEnd, PlainCharacter, EndInQuotes, EndOfText, ReadOn, Fail
    <3>3. phase' = "malformed" => ~WellFormed(text')
      BY <1>2, ParserStep DEF ExportInv, ImportInv, ParserInv, ParserIsGrammar
    <3>4. WellFormed(text)
      BY <1>2, LosslessRows DEF HadBack
    <3>5. phase' # "malformed"
      BY <3>2, <3>3, <3>4
    <3> QED BY <2>3, <3>2, <3>5 DEF AllRead
  <2>4. CASE phase = "parsed"
    <3>1. HeaderOK
      BY <1>2, <2>4, LosslessRows, ExportedHeader DEF HadBack
    <3>2. AcceptHeader
      BY <1>2, <2>4, <3>1 DEF Next, Open, ReadText, ReadExported, Choosing, Parse, DoubledQuote, ClosingQuote,
           QuotedCharacter, CharacterAfterQuote, QuoteInField, OpeningQuote, FieldEnd, RowEnd,
           PlainCharacter, EndInQuotes, EndOfText, Looking, Outside, Import, RefuseHeader,
           SkipRow, RefuseRow, TakeRow, RefuseRules, Merge, Return, AtRow, AllRead
    <3> QED BY <2>4, <3>2 DEF AcceptHeader, AllRead
  <2>5. CASE phase = "rows"
    <3>1. AtRow \/ AllRead
      BY <1>2, <2>5, LosslessRows, LosslessRules DEF HadBack, ExportInv, Regained, AtRow, AllRead
    <3>2. CASE AtRow
      <4>1. ~AllRead
        BY <1>2, <2>5, <3>2, LosslessRows, LosslessRules DEF HadBack, ExportInv, Regained, AtRow, AllRead
      <4>2. TakeRow
        BY <1>2, <2>5, <3>2, <4>1, NextRowIsRule DEF Next, Open, ReadText, ReadExported, Choosing, Parse,
             DoubledQuote, ClosingQuote, QuotedCharacter, CharacterAfterQuote, QuoteInField, OpeningQuote,
             FieldEnd, RowEnd, PlainCharacter, EndInQuotes, EndOfText, Looking, Outside, Import, RefuseHeader,
             AcceptHeader, SkipRow, RefuseRow, RefuseRules, Merge, Return
      <4> QED BY <2>5, <4>1, <4>2 DEF TakeRow
    <3>3. CASE AllRead
      <4>1. ~AtRow
        BY <1>2, <2>5, <3>3, LosslessRows, LosslessRules DEF HadBack, ExportInv, Regained, AtRow, AllRead
      <4>2. Merged.items = source.items /\ Mergeable
        BY <1>2, <3>3, AllRegained
      <4>3. Merge
        BY <1>2, <2>5, <4>1, <4>2 DEF Next, Open, ReadText, ReadExported, Choosing, Parse,
             DoubledQuote, ClosingQuote, QuotedCharacter, CharacterAfterQuote, QuoteInField, OpeningQuote,
             FieldEnd, RowEnd, PlainCharacter, EndInQuotes, EndOfText, Looking, Outside, Import, RefuseHeader,
             AcceptHeader, SkipRow, RefuseRow, TakeRow, RefuseRules, Return
      <4> QED BY <4>2, <4>3 DEF Merge, Forget
    <3> QED BY <3>1, <3>2, <3>3
  <2>6. phase \in Phases
    BY <1>2 DEF ExportInv, ImportInv, ParserInv
  <2> QED BY <2>1, <2>2, <2>3, <2>4, <2>5, <2>6 DEF Phases
<1>3. ExportInv /\ [Next]_vars => [Lossless /\ mode = "replace" =>
                                     /\ phase' \notin {"malformed", "refused"}
                                     /\ AllRead => draft'.items = source.items]_vars
  BY <1>2 DEF HadBack
<1> QED BY <1>1, <1>3, PTL DEF Spec, ExportIsLossless
=============================================================================
