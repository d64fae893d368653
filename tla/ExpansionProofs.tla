-------------------------- MODULE ExpansionProofs ---------------------------
(***************************************************************************)
(* Proofs about Expansion for documents, rules, sessions and numbers of    *)
(* carets of any size: each variable keeps its type, what                  *)
(* adjustTabstopPositions makes of a tabstop keeps it where it is in the   *)
(* text, a session visits its tabstops in their order, and replacements at *)
(* several carets, made from the last to the first, leave each text and    *)
(* each caret where it belongs.                                            *)
(***************************************************************************)
EXTENDS Expansion, ListLemmas

(***************************************************************************)
(* Sequences.                                                              *)
(***************************************************************************)
\* The part of a sequence up to a position, and the part after one.
LEMMA Parts ==
  ASSUME NEW S, NEW d \in Seq(S), NEW a \in 0 .. Len(d)
  PROVE  /\ SubSeq(d, 1, a) \in Seq(S) /\ Len(SubSeq(d, 1, a)) = a
         /\ \A i \in 1 .. a : SubSeq(d, 1, a)[i] = d[i]
         /\ SubSeq(d, a + 1, Len(d)) \in Seq(S)
         /\ Len(SubSeq(d, a + 1, Len(d))) = Len(d) - a
         /\ \A i \in 1 .. Len(d) - a : SubSeq(d, a + 1, Len(d))[i] = d[a + i]
<1>1. Len(d) \in Nat /\ a \in Nat /\ a <= Len(d) /\ \A i \in 1 .. Len(d) : d[i] \in S
  BY LenProperties
<1>2. /\ SubSeq(d, 1, a) \in Seq(S)
      /\ Len(SubSeq(d, 1, a)) = IF 1 <= a THEN a - 1 + 1 ELSE 0
      /\ \A i \in 1 .. a - 1 + 1 : SubSeq(d, 1, a)[i] = d[1 + i - 1]
  <2>1. 1 \in Int /\ a \in Int /\ \A i \in 1 .. a : d[i] \in S
    BY <1>1
  <2> QED BY <2>1, SubSeqProperties
<1>3. /\ SubSeq(d, a + 1, Len(d)) \in Seq(S)
      /\ Len(SubSeq(d, a + 1, Len(d))) = IF a + 1 <= Len(d) THEN Len(d) - (a + 1) + 1 ELSE 0
      /\ \A i \in 1 .. Len(d) - (a + 1) + 1 : SubSeq(d, a + 1, Len(d))[i] = d[a + 1 + i - 1]
  <2>1. a + 1 \in Int /\ Len(d) \in Int /\ \A i \in a + 1 .. Len(d) : d[i] \in S
    BY <1>1
  <2> QED BY <2>1, SubSeqProperties
<1> DEFINE head == SubSeq(d, 1, a)
           tail == SubSeq(d, a + 1, Len(d))
<1> HIDE DEF head, tail
<1>4. Len(head) = a /\ \A i \in 1 .. a : head[i] = d[i]
  <2>1. Len(head) = IF 1 <= a THEN a - 1 + 1 ELSE 0
    BY <1>2 DEF head
  <2>2. \A i \in 1 .. a - 1 + 1 : head[i] = d[1 + i - 1]
    BY <1>2 DEF head
  <2> QED BY <1>1, <2>1, <2>2
<1>5. Len(tail) = Len(d) - a /\ \A i \in 1 .. Len(d) - a : tail[i] = d[a + i]
  <2>1. Len(tail) = IF a + 1 <= Len(d) THEN Len(d) - (a + 1) + 1 ELSE 0
    BY <1>3 DEF tail
  <2>2. \A i \in 1 .. Len(d) - (a + 1) + 1 : tail[i] = d[a + 1 + i - 1]
    BY <1>3 DEF tail
  <2> QED BY <1>1, <2>1, <2>2
<1> QED BY <1>2, <1>3, <1>4, <1>5 DEF head, tail

\* What Splice puts where.
LEMMA SpliceProperties ==
  ASSUME NEW S, NEW d \in Seq(S), NEW s \in Seq(S),
         NEW a \in 0 .. Len(d), NEW b \in a .. Len(d)
  PROVE  /\ Splice(d, a, b, s) \in Seq(S)
         /\ Len(Splice(d, a, b, s)) = a + Len(s) + (Len(d) - b)
         /\ \A i \in 1 .. a + Len(s) + (Len(d) - b) :
              Splice(d, a, b, s)[i] = IF i <= a THEN d[i]
                                      ELSE IF i <= a + Len(s) THEN s[i - a]
                                      ELSE d[i - a - Len(s) + b]
<1> DEFINE head == SubSeq(d, 1, a)
           tail == SubSeq(d, b + 1, Len(d))
<1>1. Len(d) \in Nat /\ Len(s) \in Nat /\ a \in Nat /\ b \in Nat /\ a <= b /\ b <= Len(d)
  BY LenProperties
<1>2. head \in Seq(S) /\ Len(head) = a /\ \A i \in 1 .. a : head[i] = d[i]
  BY Parts
<1>3. tail \in Seq(S) /\ Len(tail) = Len(d) - b /\ \A i \in 1 .. Len(d) - b : tail[i] = d[b + i]
  <2>1. b \in 0 .. Len(d)
    BY <1>1
  <2> QED BY <2>1, Parts
<1>4. Splice(d, a, b, s) = (head \o s) \o tail
  BY DEF Splice
<1> HIDE DEF head, tail
<1>5. /\ head \o s \in Seq(S) /\ Len(head \o s) = a + Len(s)
      /\ \A i \in 1 .. a + Len(s) : (head \o s)[i] = IF i <= a THEN head[i] ELSE s[i - a]
  BY <1>2, ConcatProperties
<1> DEFINE front == head \o s
           n == a + Len(s)
           m == Len(d) - b
<1> HIDE DEF front
<1>6. /\ front \in Seq(S) /\ Len(front) = n
      /\ \A i \in 1 .. n : front[i] = IF i <= a THEN d[i] ELSE s[i - a]
  BY <1>1, <1>2, <1>5 DEF front
<1>7. n \in Nat /\ m \in Nat
  BY <1>1
<1> HIDE DEF n, m
<1>8. /\ front \o tail \in Seq(S) /\ Len(front \o tail) = n + m
      /\ \A i \in 1 .. n + m :
           (front \o tail)[i] = IF i <= n THEN front[i] ELSE tail[i - n]
  <2>1. Len(tail) = m
    BY <1>3 DEF m
  <2>2. /\ front \o tail \in Seq(S) /\ Len(front \o tail) = Len(front) + Len(tail)
        /\ \A i \in 1 .. Len(front) + Len(tail) :
             (front \o tail)[i] = IF i <= Len(front) THEN front[i] ELSE tail[i - Len(front)]
    BY <1>3, <1>6, ConcatProperties
  <2> QED BY <1>6, <2>1, <2>2
<1>9. ASSUME NEW i \in 1 .. n + m
      PROVE  (front \o tail)[i] = IF i <= a THEN d[i] ELSE IF i <= n THEN s[i - a] ELSE d[i - n + b]
  <2>1. CASE i <= n
    BY <1>6, <1>7, <1>8, <2>1, <1>1 DEF n
  <2>2. CASE ~(i <= n)
    <3>1. i - n \in 1 .. m /\ b + (i - n) = i - n + b /\ ~(i <= a)
      BY <1>1, <1>7, <2>2 DEF n
    <3>2. tail[i - n] = d[b + (i - n)]
      BY <1>3, <3>1 DEF m
    <3> QED BY <1>8, <2>2, <3>1, <3>2
  <2> QED BY <2>1, <2>2
<1>10. \A i \in 1 .. n + m : i - n + b = i - a - Len(s) + b
  BY <1>1, <1>7 DEF n
<1> QED BY <1>4, <1>8, <1>9, <1>10 DEF front, n, m

(***************************************************************************)
(* Tabstops.                                                               *)
(***************************************************************************)
\* The tabstops ps are in the text b where those of os were when it began.
Follow(ps, b, os) ==
  \A t \in DOMAIN ps : \A i \in DOMAIN b : b[i] # 0 => (i <= ps[t] <=> b[i] <= os[t])

\* What is left where after a deletion.
LEMMA CutProperties ==
  ASSUME NEW S, NEW d \in Seq(S), NEW a \in 0 .. Len(d), NEW b \in a .. Len(d)
  PROVE  /\ Splice(d, a, b, <<>>) \in Seq(S)
         /\ Len(Splice(d, a, b, <<>>)) = a + (Len(d) - b)
         /\ \A i \in 1 .. a + (Len(d) - b) :
              Splice(d, a, b, <<>>)[i] = IF i <= a THEN d[i] ELSE d[i - a + b]
<1>1. Len(d) \in Nat /\ a \in Nat /\ b \in Nat /\ a <= b /\ b <= Len(d)
  BY LenProperties
<1>2. ASSUME NEW s \in Seq(S)
      PROVE  /\ Splice(d, a, b, s) \in Seq(S)
             /\ Len(Splice(d, a, b, s)) = a + Len(s) + (Len(d) - b)
             /\ \A i \in 1 .. a + Len(s) + (Len(d) - b) :
                  Splice(d, a, b, s)[i] = IF i <= a THEN d[i]
                                          ELSE IF i <= a + Len(s) THEN s[i - a]
                                          ELSE d[i - a - Len(s) + b]
  BY SpliceProperties
<1>3. <<>> \in Seq(S) /\ Len(<<>>) = 0
  OBVIOUS
<1>4. \A s \in Seq(S) : Len(s) = 0 =>
        /\ Splice(d, a, b, s) \in Seq(S)
        /\ Len(Splice(d, a, b, s)) = a + (Len(d) - b)
        /\ \A i \in 1 .. a + (Len(d) - b) :
             Splice(d, a, b, s)[i] = IF i <= a THEN d[i] ELSE d[i - a + b]
  <2> TAKE s \in Seq(S)
  <2> HAVE Len(s) = 0
  <2>1. a + Len(s) + (Len(d) - b) = a + (Len(d) - b) /\ a + Len(s) = a
    BY <1>1
  <2>2. Splice(d, a, b, s) \in Seq(S) /\ Len(Splice(d, a, b, s)) = a + (Len(d) - b)
    BY <1>2, <2>1
  <2>3. ASSUME NEW i \in 1 .. a + (Len(d) - b)
        PROVE  Splice(d, a, b, s)[i] = IF i <= a THEN d[i] ELSE d[i - a + b]
    <3>1. i \in 1 .. a + Len(s) + (Len(d) - b) /\ (i <= a + Len(s) <=> i <= a)
      BY <2>1
    <3>2. i - a - Len(s) + b = i - a + b
      BY <1>1
    <3>3. Splice(d, a, b, s)[i] = IF i <= a THEN d[i]
                                  ELSE IF i <= a + Len(s) THEN s[i - a]
                                  ELSE d[i - a - Len(s) + b]
      BY <1>2, <3>1
    <3> QED BY <3>1, <3>2, <3>3
  <2> QED BY <2>2, <2>3
<1> QED BY <1>3, <1>4

\* adjustTabstopPositions for an insertion: however long, wherever it is.
LEMMA InsertedFollow ==
  ASSUME NEW b \in Seq(Nat), NEW ps \in Seq(Nat), NEW os, Follow(ps, b, os),
         NEW p \in 0 .. Len(b), NEW new \in Seq(Nat), \A i \in DOMAIN new : new[i] = 0
  PROVE  Follow(Inserted(ps, p, Len(new)), Splice(b, p, p, new), os)
<1> DEFINE c == Splice(b, p, p, new)
           qs == Inserted(ps, p, Len(new))
           n == Len(new)
<1>1. /\ Len(b) \in Nat /\ n \in Nat /\ p \in Nat /\ p <= Len(b)
      /\ DOMAIN b = 1 .. Len(b) /\ DOMAIN new = 1 .. n
      /\ DOMAIN qs = DOMAIN ps /\ \A t \in DOMAIN ps : ps[t] \in Nat
  BY DEF Inserted
<1>2. \A t \in DOMAIN ps : qs[t] = IF ps[t] >= p THEN ps[t] + n ELSE ps[t]
  BY DEF Inserted
<1>3. /\ DOMAIN c = 1 .. p + n + (Len(b) - p)
      /\ \A i \in 1 .. p + n + (Len(b) - p) :
           c[i] = IF i <= p THEN b[i] ELSE IF i <= p + n THEN new[i - p] ELSE b[i - p - n + p]
  <2>1. p \in p .. Len(b)
    BY <1>1
  <2>2. /\ c \in Seq(Nat) /\ Len(c) = p + n + (Len(b) - p)
        /\ \A i \in 1 .. p + n + (Len(b) - p) :
             c[i] = IF i <= p THEN b[i] ELSE IF i <= p + n THEN new[i - p] ELSE b[i - p - n + p]
    BY <2>1, SpliceProperties
  <2> HIDE DEF c
  <2> QED BY <2>2
<1> SUFFICES ASSUME NEW t \in DOMAIN ps, NEW i \in 1 .. p + n + (Len(b) - p), c[i] # 0
             PROVE  i <= qs[t] <=> c[i] <= os[t]
  BY <1>1, <1>3 DEF Follow
<1>4. PICK x \in Int : x = ps[t]
  BY <1>1
<1>5. PICK y \in Int : y = qs[t]
  BY <1>1, <1>2
<1>6. /\ i \in Int /\ p \in Int /\ n \in Nat
      /\ x >= p => y = x + n
      /\ ~(x >= p) => y = x
  BY <1>1, <1>2, <1>4, <1>5
<1> HIDE DEF c, qs, n
<1>7. CASE i <= p
  <2>1. i \in DOMAIN b /\ c[i] = b[i]
    <3>1. i \in 1 .. Len(b)
      BY <1>1, <1>7
    <3>2. c[i] = b[i]
      BY <1>3, <1>7
    <3> QED BY <1>1, <3>1, <3>2
  <2>2. i <= x <=> b[i] <= os[t]
    BY <1>4, <2>1 DEF Follow
  <2>3. i <= y <=> i <= x
    BY <1>6, <1>7
  <2> QED BY <1>5, <2>1, <2>2, <2>3
<1>8. CASE ~(i <= p) /\ i <= p + n
  <2>1. i - p \in DOMAIN new /\ c[i] = new[i - p]
    BY <1>1, <1>3, <1>8
  <2> QED BY <2>1
<1>9. CASE ~(i <= p + n)
  <2>1. PICK k \in Int : k = i - p - n + p
    BY <1>6
  <2>2. k \in DOMAIN b /\ c[i] = b[k]
    BY <1>1, <1>3, <1>9, <2>1
  <2>3. k <= x <=> b[k] <= os[t]
    BY <1>4, <2>2 DEF Follow
  <2>4. i <= y <=> k <= x
    BY <1>6, <1>9, <2>1
  <2> QED BY <1>5, <2>2, <2>3, <2>4
<1> QED BY <1>7, <1>8, <1>9

\* And for a deletion, also of a stretch with tabstops in it.
LEMMA RemovedFollow ==
  ASSUME NEW b \in Seq(Nat), NEW ps \in Seq(Nat), NEW os, Follow(ps, b, os),
         NEW p \in 0 .. Len(b), NEW q \in p .. Len(b)
  PROVE  Follow(Removed(ps, p, q - p), Splice(b, p, q, <<>>), os)
<1> DEFINE c == Splice(b, p, q, <<>>)
           qs == Removed(ps, p, q - p)
<1>1. /\ Len(b) \in Nat /\ p \in Nat /\ q \in Nat /\ p <= q /\ q <= Len(b)
      /\ DOMAIN b = 1 .. Len(b)
      /\ DOMAIN qs = DOMAIN ps /\ \A t \in DOMAIN ps : ps[t] \in Nat
  BY DEF Removed
<1>2. \A t \in DOMAIN ps : qs[t] = IF ps[t] >= p + (q - p) THEN ps[t] - (q - p)
                                   ELSE IF ps[t] >= p THEN p ELSE ps[t]
  BY DEF Removed
<1>3. /\ DOMAIN c = 1 .. p + (Len(b) - q)
      /\ \A i \in 1 .. p + (Len(b) - q) : c[i] = IF i <= p THEN b[i] ELSE b[i - p + q]
  <2>1. /\ c \in Seq(Nat) /\ Len(c) = p + (Len(b) - q)
        /\ \A i \in 1 .. p + (Len(b) - q) : c[i] = IF i <= p THEN b[i] ELSE b[i - p + q]
    BY CutProperties
  <2> HIDE DEF c
  <2> QED BY <2>1
<1> SUFFICES ASSUME NEW t \in DOMAIN ps, NEW i \in 1 .. p + (Len(b) - q), c[i] # 0
             PROVE  i <= qs[t] <=> c[i] <= os[t]
  BY <1>1, <1>3 DEF Follow
<1>4. PICK x \in Int : x = ps[t]
  BY <1>1
<1>5. PICK y \in Int : y = qs[t]
  <2>1. qs[t] = IF x >= p + (q - p) THEN x - (q - p) ELSE IF x >= p THEN p ELSE x
    BY <1>2, <1>4
  <2>2. p \in Int /\ q - p \in Int
    BY <1>1
  <2>3. (IF x >= p + (q - p) THEN x - (q - p) ELSE IF x >= p THEN p ELSE x) \in Int
    BY <2>2
  <2> HIDE DEF qs
  <2> QED BY <2>1, <2>3
<1>6. /\ i \in Int /\ p \in Int /\ q \in Int /\ p <= q
      /\ x >= q => y = x - (q - p)
      /\ x >= p /\ ~(x >= q) => y = p
      /\ ~(x >= p) => y = x
  <2>1. p + (q - p) = q
    BY <1>1
  <2>2. y = IF x >= q THEN x - (q - p) ELSE IF x >= p THEN p ELSE x
    BY <1>2, <1>4, <1>5, <2>1
  <2> QED BY <1>1, <2>2
<1> HIDE DEF c, qs
<1>7. CASE i <= p
  <2>1. i \in DOMAIN b /\ c[i] = b[i]
    <3>1. i \in 1 .. Len(b)
      BY <1>1, <1>7
    <3>2. c[i] = b[i]
      BY <1>3, <1>7
    <3> QED BY <1>1, <3>1, <3>2
  <2>2. i <= x <=> b[i] <= os[t]
    BY <1>4, <2>1 DEF Follow
  <2>3. i <= y <=> i <= x
    BY <1>6, <1>7
  <2> QED BY <1>5, <2>1, <2>2, <2>3
<1>8. CASE ~(i <= p)
  <2>1. PICK k \in Int : k = i - p + q
    BY <1>6
  <2>2. k \in DOMAIN b /\ c[i] = b[k]
    BY <1>1, <1>3, <1>8, <2>1
  <2>3. k <= x <=> b[k] <= os[t]
    BY <1>4, <2>2 DEF Follow
  <2>4. i <= y <=> k <= x
    BY <1>6, <1>8, <2>1
  <2> QED BY <1>5, <2>2, <2>3, <2>4
<1> QED BY <1>7, <1>8

(***************************************************************************)
(* Steps.                                                                  *)
(***************************************************************************)
\* The auxiliary variable follows the text.
Tracked == session # NoSession => Len(born) = Len(doc)

\* A character that has just been added is before every caret.
AfterTyped == typed # NoChar => \A i \in DOMAIN carets : carets[i] > 0

\* TabstopsFollowText, as the lemmas about insertions and deletions put it.
LEMMA FollowIsInvariant ==
  ASSUME TypeOK, session # NoSession, Len(born) = Len(doc)
  PROVE  TabstopsFollowText <=> Follow(session.positions, born, origin)
<1>1. DOMAIN doc = DOMAIN born
  BY DEF TypeOK
<1> QED BY <1>1 DEF TabstopsFollowText, Follow

\* n characters are inserted, and the positions are adjusted.
LEMMA InsertionKeeps ==
  ASSUME TypeOK, Tracked, TabstopsFollowText,
         NEW p \in 0 .. Len(doc), NEW s \in Seq(Char), doc' = Splice(doc, p, p, s),
         KeepPositions(Inserted(session.positions, p, Len(s)),
                       Splice(born, p, p, [i \in DOMAIN s |-> 0]))
  PROVE  TabstopsFollowText' /\ Tracked'
<1>1. CASE session = NoSession
  BY <1>1 DEF KeepPositions, TabstopsFollowText, Tracked
<1>2. CASE session # NoSession
  <2> DEFINE new == [i \in DOMAIN s |-> 0]
             ps == session.positions
  <2>1. new \in Seq(Nat) /\ Len(new) = Len(s) /\ \A i \in DOMAIN new : new[i] = 0
    OBVIOUS
  <2>2. Len(born) = Len(doc) /\ born \in Seq(Nat) /\ doc \in Seq(Char)
    BY <1>2 DEF TypeOK, Tracked
  <2>3. session \in Session /\ ps \in Seq(Nat)
    BY <1>2 DEF TypeOK, Session
  <2>4. Follow(ps, born, origin)
    BY <1>2, <2>2, FollowIsInvariant
  <2>5. /\ session'.positions = Inserted(ps, p, Len(new))
        /\ born' = Splice(born, p, p, new) /\ origin' = origin
    BY <1>2, <2>1, <2>3 DEF KeepPositions, Session
  <2> HIDE DEF new, ps
  <2>6. p \in 0 .. Len(born) /\ p \in p .. Len(born) /\ p \in p .. Len(doc)
    BY <2>2
  <2>7. Follow(session'.positions, born', origin')
    BY <2>1, <2>2, <2>3, <2>4, <2>5, <2>6, InsertedFollow
  <2>8. Len(born') = Len(doc') /\ DOMAIN born' = DOMAIN doc'
    <3>1. born' \in Seq(Nat) /\ Len(born') = p + Len(new) + (Len(born) - p)
      <4>1. born \in Seq(Nat) /\ new \in Seq(Nat) /\ p \in 0 .. Len(born) /\ p \in p .. Len(born)
        BY <2>1, <2>2, <2>6
      <4> QED BY <2>5, <4>1, SpliceProperties
    <3>2. doc' \in Seq(Char) /\ Len(doc') = p + Len(s) + (Len(doc) - p)
      BY <2>2, <2>6, SpliceProperties
    <3>3. Len(born') = Len(doc')
      BY <2>1, <2>2, <3>1, <3>2
    <3> QED BY <3>1, <3>2, <3>3
  <2> QED BY <2>7, <2>8 DEF Follow, TabstopsFollowText, Tracked
<1> QED BY <1>1, <1>2

\* What is between p and q is deleted, and the positions are adjusted.
LEMMA DeletionKeeps ==
  ASSUME TypeOK, Tracked, TabstopsFollowText, session # NoSession,
         NEW p \in 0 .. Len(doc), NEW q \in p .. Len(doc), doc' = Splice(doc, p, q, <<>>),
         session'.positions = Removed(session.positions, p, q - p),
         born' = Splice(born, p, q, <<>>), origin' = origin
  PROVE  TabstopsFollowText' /\ Tracked'
<1>1. Len(born) = Len(doc) /\ born \in Seq(Nat) /\ doc \in Seq(Char)
  BY DEF TypeOK, Tracked
<1>2. session.positions \in Seq(Nat)
  BY DEF TypeOK, Session
<1>3. Follow(session.positions, born, origin)
  BY <1>1, FollowIsInvariant
<1>4. p \in 0 .. Len(born) /\ q \in p .. Len(born)
  BY <1>1
<1>5. Follow(session'.positions, born', origin')
  BY <1>1, <1>2, <1>3, <1>4, RemovedFollow
<1>6. Len(born') = Len(doc') /\ DOMAIN born' = DOMAIN doc'
  <2>1. PICK e \in Seq(Nat) : e = <<>>
    <3>1. <<>> \in Seq(Nat)
      OBVIOUS
    <3> QED BY <3>1
  <2>2. PICK f \in Seq(Char) : f = <<>>
    <3>1. <<>> \in Seq(Char)
      OBVIOUS
    <3> QED BY <3>1
  <2>3. Splice(born, p, q, e) \in Seq(Nat) /\ Len(Splice(born, p, q, e)) = p + Len(e) + (Len(born) - q)
    <3>1. born \in Seq(Nat) /\ p \in 0 .. Len(born) /\ q \in p .. Len(born)
      BY <1>1, <1>4
    <3> QED BY <3>1, SpliceProperties
  <2>4. Splice(doc, p, q, f) \in Seq(Char) /\ Len(Splice(doc, p, q, f)) = p + Len(f) + (Len(doc) - q)
    BY <1>1, SpliceProperties
  <2>5. Splice(born, p, q, e) = born' /\ Splice(doc, p, q, f) = doc' /\ e = f
    BY <2>1, <2>2
  <2> QED BY <1>1, <2>3, <2>4, <2>5
<1> QED BY <1>5, <1>6 DEF Follow, TabstopsFollowText, Tracked

\* The same for an edit of the user or of another part of the host.
LEMMA EditKeeps ==
  ASSUME TypeOK, Tracked, TabstopsFollowText,
         NEW p \in 0 .. Len(doc), NEW q \in p .. Len(doc), doc' = Splice(doc, p, q, <<>>),
         KeepPositions(Removed(session.positions, p, q - p), Splice(born, p, q, <<>>))
  PROVE  TabstopsFollowText' /\ Tracked'
<1>1. CASE session = NoSession
  BY <1>1 DEF KeepPositions, TabstopsFollowText, Tracked
<1>2. CASE session # NoSession
  <2>1. session \in Session
    BY <1>2 DEF TypeOK
  <2>2. /\ session'.positions = Removed(session.positions, p, q - p)
        /\ born' = Splice(born, p, q, <<>>) /\ origin' = origin
    BY <1>2, <2>1 DEF KeepPositions, Session
  <2> QED BY <1>2, <2>2, DeletionKeeps
<1> QED BY <1>1, <1>2

\* A replacement ends the session, or begins one that is true of its own text.
LEMMA ReplaceKeeps ==
  ASSUME TypeOK, TypeOK', NEW how, Replace(how)
  PROVE  TabstopsFollowText' /\ Tracked'
<1>1. CASE EndSession
  BY <1>1 DEF EndSession, TabstopsFollowText, Tracked
<1>2. ASSUME NEW op, ApplyReplacement(op) PROVE TabstopsFollowText' /\ Tracked'
  <2> DEFINE positions == [i \in DOMAIN op.rule.stops |-> op.start + op.rule.stops[i]]
  <2>1. CASE /\ session' = [positions |-> positions, current |-> 1]
             /\ born' = [i \in DOMAIN doc' |-> i]
             /\ origin' = positions
    <3>1. session'.positions = origin'
      BY <2>1
    <3>2. doc' \in Seq(Char) /\ Len(born') = Len(doc')
      BY <2>1 DEF TypeOK
    <3> QED BY <2>1, <3>1, <3>2 DEF TabstopsFollowText, Tracked
  <2> QED BY <1>1, <1>2, <2>1 DEF ApplyReplacement
<1>3. (\E op \in Operations(how) : ApplyReplacement(op)) \/ EndSession
  <2>1. ASSUME Len(carets) = 1, \A op \in Operations(how) : Possible(op) /\ ApplyReplacement(op)
        PROVE  \E op \in Operations(how) : ApplyReplacement(op)
    <3>1. 1 \in DOMAIN carets
      BY <2>1 DEF TypeOK
    <3> QED BY <2>1, <3>1 DEF Operations
  <2> QED BY <2>1 DEF Replace, ApplyAll
<1> QED BY <1>1, <1>2, <1>3

\* Whatever is erased, inserted or deleted, wherever it is in a document of any
\* length, and when Tab is taken back.
LEMMA EditsKeepTabstops ==
  ASSUME TypeOK, TypeOK', Tracked, AfterTyped, TabstopsFollowText,
         [Next]_vars, \A c \in Typeable : ~Type(c)
  PROVE  TabstopsFollowText' /\ Tracked'
<1> DEFINE Goal == TabstopsFollowText' /\ Tracked'
<1>1. ASSUME Erase PROVE Goal
  <2>1. PICK p \in {carets[1] - 1, carets[1]} \cap 0 .. Len(doc) - 1 :
          /\ doc' = Splice(doc, p, p + 1, <<>>)
          /\ KeepPositions(Removed(session.positions, p, 1), Splice(born, p, p + 1, <<>>))
    BY <1>1 DEF Erase
  <2>2. p \in 0 .. Len(doc) /\ p + 1 \in p .. Len(doc) /\ (p + 1) - p = 1
    BY DEF TypeOK
  <2> QED BY <2>1, <2>2, EditKeeps
<1>2. ASSUME EditElsewhere PROVE Goal
  <2>2. ASSUME NEW p \in 0 .. Len(doc), NEW s \in Foreign,
               doc' = Splice(doc, p, p, s),
               KeepPositions(Inserted(session.positions, p, Len(s)),
                             Splice(born, p, p, [i \in DOMAIN s |-> 0]))
        PROVE  Goal
    <3>1. s \in Seq(Char)
      BY ExpansionConstants
    <3> QED BY <2>2, <3>1, InsertionKeeps
  <2>3. ASSUME NEW p \in 0 .. Len(doc), NEW q \in p + 1 .. Len(doc),
               doc' = Splice(doc, p, q, <<>>),
               KeepPositions(Removed(session.positions, p, q - p), Splice(born, p, q, <<>>))
        PROVE  Goal
    <3>1. q \in p .. Len(doc)
      BY DEF TypeOK
    <3> QED BY <2>3, <3>1, EditKeeps
  <2> QED BY <1>2, <2>2, <2>3 DEF EditElsewhere
<1>3. ASSUME EndSession PROVE Goal
  BY <1>3 DEF EndSession, TabstopsFollowText, Tracked
<1>4. ASSUME UNCHANGED <<doc, session, ghost>> PROVE Goal
  BY <1>4 DEF ghost, TabstopsFollowText, Tracked
<1>5. ASSUME ManualReplace PROVE Goal
  BY <1>5, ReplaceKeeps DEF ManualReplace
<1>6. ASSUME ReplaceTyped PROVE Goal
  BY <1>6, ReplaceKeeps DEF ReplaceTyped
<1>7. ASSUME NextTabstop PROVE Goal
  <2>1. PICK tab : tab = carets[main] - 1
    OBVIOUS
  <2>2. session # NoSession /\ typed # NoChar /\ typed' = NoChar
    BY <1>7, ExpansionConstants DEF NextTabstop, Navigates
  <2>3. carets[main] \in 0 .. Len(doc) /\ carets[main] > 0 /\ Len(doc) \in Nat
    BY <2>2 DEF TypeOK, AfterTyped
  <2>4. tab \in 0 .. Len(doc) /\ tab + 1 \in tab .. Len(doc) /\ (tab + 1) - tab = 1
    <3>1. PICK c \in 0 .. Len(doc) : c = carets[main]
      BY <2>3
    <3>2. c > 0 /\ tab = c - 1
      BY <2>1, <2>3, <3>1
    <3> QED BY <2>3, <3>2
  <2>5. /\ doc' = Splice(doc, tab, tab + 1, <<>>)
        /\ session'.positions = Removed(session.positions, tab, 1)
        /\ born' = Splice(born, tab, tab + 1, <<>>) /\ origin' = origin
    BY <1>7, <2>1 DEF NextTabstop
  <2> QED BY <2>2, <2>4, <2>5, DeletionKeeps
<1>8. ASSUME UndoOrRedo \/ LeaveTabstop \/ LastTabstop PROVE Goal
  BY <1>3, <1>8 DEF UndoOrRedo, LeaveTabstop, LastTabstop
<1>9. ASSUME Select \/ Switch \/ LeaveTyped PROVE Goal
  BY <1>4, <1>9 DEF Select, Switch, LeaveTyped
<1>10. ASSUME UNCHANGED vars PROVE Goal
  BY <1>4, <1>10 DEF vars, ghost
<1> QED
  BY <1>1, <1>2, <1>5, <1>6, <1>7, <1>8, <1>9, <1>10 DEF Next, CharAdded

(***************************************************************************)
(* Replacements.                                                           *)
(***************************************************************************)
\* What rules are replaced by, marks and all.
Source == Seq(Char \cup Mark)

\* How the text of a replacement grows.
LEMMA WrittenGrows ==
  ASSUME NEW source \in Source
  PROVE  /\ Written(source) \in [0 .. Len(source) -> Seq(Char)]
         /\ Written(source)[0] = <<>>
         /\ \A i \in 1 .. Len(source) :
              Written(source)[i] = IF source[i] \in Mark THEN Written(source)[i - 1]
                                   ELSE Append(Written(source)[i - 1], source[i])
<1> DEFINE N == Len(source)
           More(t, i) == IF source[i] \in Mark THEN t ELSE Append(t, source[i])
           G == [z \in Seq(Char) \X (1 .. N) |-> More(z[1], z[2])]
           Body(f) == [i \in 0 .. N |-> IF i = 0 THEN <<>> ELSE More(f[i - 1], i)]
           text == CHOOSE f : f = Body(f)
<1>1. N \in Nat /\ \A i \in 1 .. N : source[i] \in Char \cup Mark
  BY DEF Source
<1>2. \A t \in Seq(Char), i \in 1 .. N : More(t, i) \in Seq(Char)
  BY <1>1, AppendProperties
<1>3. G \in [Seq(Char) \X (1 .. N) -> Seq(Char)]
  <2> HIDE DEF More, N
  <2> QED BY <1>2
<1>4. PICK f \in [0 .. N -> Seq(Char)] : f[0] = <<>> /\ \A i \in 1 .. N : f[i] = G[<<f[i - 1], i>>]
  <2>1. <<>> \in Seq(Char)
    OBVIOUS
  <2> HIDE DEF G, N
  <2>2. \E f : Recursion(f, N, Seq(Char), <<>>, G)
    BY <1>1, <1>3, <2>1, RecursionExists
  <2> QED BY <2>2 DEF Recursion
<1>5. \A i \in 1 .. N : f[i] = More(f[i - 1], i)
  <2> TAKE i \in 1 .. N
  <2>1. f[i - 1] \in Seq(Char)
    <3> HIDE DEF N
    <3> QED BY <1>1
  <2>2. G[<<f[i - 1], i>>] = More(f[i - 1], i)
    <3> HIDE DEF More, N
    <3> QED BY <2>1
  <2> HIDE DEF G, More
  <2> QED BY <1>4, <2>2
<1> HIDE DEF G
<1>6. f = Body(f)
  <2>1. \A i \in 0 .. N : i = 0 \/ i \in 1 .. N
    BY <1>1
  <2> HIDE DEF More, N
  <2> QED BY <1>4, <1>5, <2>1
<1>7. text = Body(text)
  <2> HIDE DEF Body
  <2> QED BY <1>6
<1>8. Written(source) = text
  BY DEF Written
<1> HIDE DEF text
<1>9. text[0] = <<>> /\ \A i \in 1 .. N : text[i] = More(text[i - 1], i)
  <2>1. 0 \in 0 .. N /\ \A i \in 1 .. N : i \in 0 .. N /\ i # 0
    BY <1>1
  <2> HIDE DEF More, N
  <2> QED BY <1>7, <2>1
<1>10. \A i \in 0 .. N : text[i] \in Seq(Char)
  <2>1. text[0] \in Seq(Char)
    BY <1>9
  <2>2. \A i \in 1 .. N : text[i - 1] \in Seq(Char) => text[i] \in Seq(Char)
    <3> HIDE DEF More, N
    <3> QED BY <1>2, <1>9
  <2> HIDE DEF N
  <2> QED BY <1>1, <2>1, <2>2, StaysIn
<1>11. text \in [0 .. N -> Seq(Char)]
  <2>1. text = [i \in 0 .. N |-> text[i]]
    <3> HIDE DEF More, N
    <3> QED BY <1>7
  <2> HIDE DEF N
  <2> QED BY <1>10, <2>1
<1> QED BY <1>8, <1>9, <1>11

\* So an offset is one into the text, and they come in the order of the source.
LEMMA OffsetsInText ==
  ASSUME NEW source \in Source
  PROVE  /\ Text(source) \in Seq(Char)
         /\ \A i \in 1 .. Len(source) : Offset(source, i) \in 0 .. Len(Text(source))
<1> DEFINE w == Written(source)
           N == Len(source)
<1>1. N \in Nat
  BY DEF Source
<1>2. /\ w \in [0 .. N -> Seq(Char)]
      /\ \A i \in 1 .. N : w[i] = IF source[i] \in Mark THEN w[i - 1] ELSE Append(w[i - 1], source[i])
  BY WrittenGrows
<1>3. N \in 0 .. N /\ Text(source) = w[N]
  BY <1>1 DEF Text
<1> HIDE DEF w, N
<1>4. \A i \in 1 .. N : Len(w[i - 1]) \in Nat /\ Len(w[i]) \in Nat /\ Len(w[i - 1]) <= Len(w[i])
  <2> TAKE i \in 1 .. N
  <2>1. i - 1 \in 0 .. N /\ i \in 0 .. N
    BY <1>1
  <2>2. w[i - 1] \in Seq(Char) /\ w[i] \in Seq(Char)
    BY <1>2, <2>1
  <2>3. CASE source[i] \in Mark
    <3>1. w[i] = w[i - 1]
      BY <1>2, <2>3
    <3> QED BY <2>2, <3>1
  <2>4. CASE source[i] \notin Mark
    <3>1. w[i] = Append(w[i - 1], source[i])
      BY <1>2, <2>4
    <3>2. Len(w[i]) = Len(w[i - 1]) + 1
      BY <2>2, <3>1
    <3> QED BY <2>2, <3>2
  <2> QED BY <2>3, <2>4
<1>5. ASSUME NEW i \in 1 .. N PROVE Len(w[i - 1]) <= Len(w[N])
  <2> DEFINE T == {n \in 0 .. N : n <= N - i + 1 => Len(w[N - n]) <= Len(w[N])}
  <2>1. 0 \in T
    <3>1. N - 0 = N /\ Len(w[N]) \in Nat /\ 0 \in 0 .. N
      BY <1>1, <1>2, <1>3
    <3> QED BY <3>1
  <2>2. ASSUME NEW n \in 1 .. N, n - 1 \in T PROVE n \in T
    <3> SUFFICES ASSUME n <= N - i + 1 PROVE Len(w[N - n]) <= Len(w[N])
      BY <1>1
    <3>1. n - 1 <= N - i + 1 /\ N - (n - 1) \in 1 .. N /\ (N - (n - 1)) - 1 = N - n
      BY <1>1
    <3>2. Len(w[N - (n - 1)]) <= Len(w[N])
      BY <2>2, <3>1
    <3>3. Len(w[N - n]) \in Nat /\ Len(w[N - (n - 1)]) \in Nat /\ Len(w[N - n]) <= Len(w[N - (n - 1)])
      BY <1>4, <3>1
    <3>4. Len(w[N]) \in Nat
      BY <1>2, <1>3
    <3> QED BY <3>2, <3>3, <3>4
  <2> HIDE DEF T
  <2>3. \A n \in 0 .. N : n \in T
    BY <1>1, <2>1, <2>2, IntervalInduction
  <2>4. N - i + 1 \in 0 .. N /\ N - (N - i + 1) = i - 1 /\ N - i + 1 <= N - i + 1
    BY <1>1
  <2>5. N - i + 1 \in T
    BY <2>3, <2>4
  <2> QED BY <2>4, <2>5 DEF T
<1>6. ASSUME NEW i \in 1 .. N PROVE Offset(source, i) \in 0 .. Len(w[N])
  <2>1. Len(w[i - 1]) \in Nat /\ Len(w[N]) \in Nat
    BY <1>2, <1>3, <1>4
  <2>2. Len(w[i - 1]) <= Len(w[N])
    BY <1>5
  <2> QED BY <2>1, <2>2 DEF Offset, w
<1> QED BY <1>2, <1>3, <1>6 DEF N

\* The numbers of marks, 0 after 9.
LEMMA OrderIsNumber ==
  ASSUME NEW source \in Source, NEW i \in Tabstops(source)
  PROVE  /\ i \in 1 .. Len(source)
         /\ Number[source[i]] \in 0 .. 9
         /\ Order(source[i]) = IF Number[source[i]] = 0 THEN 10 ELSE Number[source[i]]
         /\ Order(source[i]) \in 1 .. 10
<1>1. DOMAIN source = 1 .. Len(source)
  BY DEF Source
<1>2. i \in 1 .. Len(source) /\ source[i] \in DOMAIN Number
  BY <1>1 DEF Tabstops
<1>3. Number[source[i]] \in 0 .. 9
  BY <1>2, SnippetTemplateConstants
<1> QED BY <1>2, <1>3 DEF Order

\* There is such a list of the tabstops, so InOrder is one.
LEMMA TabstopsInOrder ==
  ASSUME NEW source \in Source
  PROVE  /\ IsFiniteSet(Tabstops(source))
         /\ InOrder(source) \in [1 .. Cardinality(Tabstops(source)) -> Tabstops(source)]
         /\ \A k, l \in 1 .. Cardinality(Tabstops(source)) :
              k < l => \/ Order(source[InOrder(source)[k]]) < Order(source[InOrder(source)[l]])
                       \/ /\ Order(source[InOrder(source)[k]]) = Order(source[InOrder(source)[l]])
                          /\ InOrder(source)[k] < InOrder(source)[l]
<1> DEFINE S == Tabstops(source)
           M == Len(source) + 1
           N == 11 * M
           K(i) == Order(source[i]) * M + i
           key == [i \in S |-> K(i)]
           Before(i, j) == Order(source[i]) < Order(source[j]) \/ (Order(source[i]) = Order(source[j]) /\ i < j)
           Lists(s) == \A k, l \in DOMAIN s : k < l => Before(s[k], s[l])
<1>1. Len(source) \in Nat /\ M \in Nat /\ N \in Nat
  BY DEF Source
<1>2. \A i \in S : i \in 1 .. Len(source) /\ Order(source[i]) \in 1 .. 10
  BY OrderIsNumber
<1>3. ASSUME NEW i \in S PROVE K(i) \in 1 .. N
  <2> DEFINE o == Order(source[i])
  <2>1. o \in Nat /\ o <= 10 /\ i \in 1 .. Len(source)
    BY <1>2
  <2>2. o * M \in Nat /\ o * M <= 10 * M
    <3> HIDE DEF o, M
    <3> QED BY <1>1, <2>1, ProductGrows
  <2> DEFINE m == o * M
  <2> HIDE DEF m, o
  <2>3. m + i \in 1 .. N
    BY <1>1, <2>1, <2>2 DEF m
  <2> QED BY <2>3 DEF m, o
<1>4. ASSUME NEW i \in S, NEW j \in S, K(i) < K(j) PROVE Before(i, j)
  <2> DEFINE o == Order(source[i])
             p == Order(source[j])
  <2>1. o \in Nat /\ p \in Nat /\ i \in 1 .. Len(source) /\ j \in 1 .. Len(source)
    BY <1>2
  <2>2. CASE p < o
    <3>1. p + 1 \in Nat /\ p + 1 <= o
      BY <2>1, <2>2
    <3>2. (p + 1) * M <= o * M /\ (p + 1) * M = p * M + M /\ p * M \in Nat /\ o * M \in Nat
      <4> HIDE DEF o, p, M
      <4>1. (p + 1) * M <= o * M /\ o * M \in Nat
        BY <1>1, <2>1, <3>1, ProductGrows
      <4>2. p * M \in Nat
        BY <1>1, <2>1, ProductGrows
      <4>3. (p + 1) * M = p * M + M
        BY <1>1, <2>1
      <4> QED BY <4>1, <4>2, <4>3
    <3>3. o * M + i < p * M + j
      BY <1>4
    <3> DEFINE om == o * M
               pm == p * M
    <3>4. pm + M <= om /\ om + i < pm + j /\ om \in Nat /\ pm \in Nat
      BY <3>2, <3>3
    <3> HIDE DEF om, pm
    <3>5. FALSE
      BY <1>1, <2>1, <3>4
    <3> QED BY <3>5
  <2>3. CASE p = o
    <3>1. o * M + i < o * M + j /\ o * M \in Nat
      <4>1. o * M \in Nat
        <5> HIDE DEF o, M
        <5> QED BY <1>1, <2>1, ProductGrows
      <4> QED BY <1>4, <2>3, <4>1
    <3> DEFINE om == o * M
    <3> HIDE DEF om
    <3>2. i < j
      BY <2>1, <3>1 DEF om
    <3> QED BY <2>3, <3>2
  <2> QED BY <2>1, <2>2, <2>3
<1>5. \A i, j \in S : K(i) = K(j) => i = j
  <2> SUFFICES ASSUME NEW i \in S, NEW j \in S, K(i) = K(j) PROVE i = j
    OBVIOUS
  <2> DEFINE o == Order(source[i])
             p == Order(source[j])
  <2>1. o \in Nat /\ p \in Nat /\ i \in 1 .. Len(source) /\ j \in 1 .. Len(source)
    BY <1>2
  <2>2. o * M + i = p * M + j
    OBVIOUS
  <2>3. ASSUME NEW a \in Nat, NEW b \in Nat, a < b PROVE a * M \in Nat /\ b * M \in Nat /\ a * M + M <= b * M
    <3> HIDE DEF M
    <3>1. a + 1 \in Nat /\ a + 1 <= b
      BY <2>3
    <3>2. (a + 1) * M <= b * M /\ b * M \in Nat
      BY <1>1, <3>1, ProductGrows
    <3>3. a * M \in Nat
      BY <1>1, ProductGrows
    <3>4. (a + 1) * M = a * M + M
      BY <1>1
    <3> QED BY <3>2, <3>3, <3>4
  <2> DEFINE om == o * M
             pm == p * M
  <2>4. om + i = pm + j /\ (o < p => om \in Nat /\ pm \in Nat /\ om + M <= pm)
        /\ (p < o => om \in Nat /\ pm \in Nat /\ pm + M <= om)
    <3> HIDE DEF o, p, M
    <3> QED BY <2>1, <2>2, <2>3
  <2> HIDE DEF om, pm
  <2>5. o = p
    BY <1>1, <2>1, <2>4
  <2>6. om = pm /\ om \in Nat
    <3>1. o * M \in Nat
      <4> HIDE DEF o, M
      <4> QED BY <1>1, <2>1, ProductGrows
    <3> QED BY <2>5, <3>1 DEF om, pm
  <2> QED BY <2>1, <2>4, <2>6
<1>6. key \in [S -> 1 .. N] /\ \A i \in S : key[i] = K(i)
  BY <1>3
<1> HIDE DEF S, key, N
<1>7. \A i, j \in S : key[i] = key[j] => i = j
  <2> HIDE DEF K
  <2> QED BY <1>5, <1>6
<1>8. /\ IsFiniteSet(S)
      /\ \E s : /\ s \in [1 .. Cardinality(S) -> S]
                /\ \A k, l \in 1 .. Cardinality(S) : k < l => key[s[k]] < key[s[l]]
  BY <1>1, <1>6, <1>7, SortedExists
<1>9. PICK s : /\ s \in [1 .. Cardinality(S) -> S]
               /\ \A k, l \in 1 .. Cardinality(S) : k < l => key[s[k]] < key[s[l]]
  BY <1>8
<1>10. \A k, l \in DOMAIN s : k < l => Before(s[k], s[l])
  <2> HIDE DEF K, Before
  <2> QED BY <1>4, <1>6, <1>9
<1>11. InOrder(source) = CHOOSE t \in [1 .. Cardinality(S) -> S] : Lists(t)
  BY DEF InOrder, S
<1>12. InOrder(source) \in [1 .. Cardinality(S) -> S] /\ Lists(InOrder(source))
  <2>1. \E t \in [1 .. Cardinality(S) -> S] : Lists(t)
    BY <1>9, <1>10
  <2> HIDE DEF Lists
  <2> QED BY <1>11, <2>1
<1>13. DOMAIN InOrder(source) = 1 .. Cardinality(S)
  BY <1>12
<1> QED BY <1>8, <1>12, <1>13 DEF S

\* The offsets of a replacement are of its text.
LEMMA CursorInText ==
  ASSUME NEW source \in Source, Cursors(source) # {}
  PROVE  /\ Min(Cursors(source)) \in Cursors(source) /\ Min(Cursors(source)) \in 1 .. Len(source)
         /\ \A i \in Cursors(source) : Min(Cursors(source)) <= i
         /\ CursorOffset(source) \in 0 .. Len(Text(source))
<1>1. Len(source) \in Nat /\ DOMAIN source = 1 .. Len(source)
  BY DEF Source
<1>2. Cursors(source) \in SUBSET (1 .. Len(source))
  BY <1>1 DEF Cursors
<1>3. Cursors(source) \in SUBSET Nat
  BY <1>2
<1>4. Min(Cursors(source)) \in Cursors(source) /\ \A i \in Cursors(source) : Min(Cursors(source)) <= i
  BY <1>3, MinIsLeast
<1> QED BY <1>2, <1>4, OffsetsInText DEF CursorOffset

\* So are those of all its tabstops.
LEMMA StopsInText ==
  ASSUME NEW source \in Source
  PROVE  /\ Stops(source) \in Seq(0 .. Len(Text(source)))
         /\ Cursor(source) = AtEnd \/ Cursor(source) \in 0 .. Len(Text(source))
<1> DEFINE order == InOrder(source)
           n == Cardinality(Tabstops(source))
           U == 0 .. Len(Text(source))
           stops == [k \in DOMAIN order |-> Offset(source, order[k])]
<1>1. IsFiniteSet(Tabstops(source)) /\ order \in [1 .. n -> Tabstops(source)]
  BY TabstopsInOrder
<1>2. n \in Nat
  BY <1>1, FS_CardinalityType
<1>3. \A i \in Tabstops(source) : Offset(source, i) \in U
  BY OrderIsNumber, OffsetsInText
<1> HIDE DEF order, n, U
<1>4. stops \in [1 .. n -> U]
  BY <1>1, <1>3
<1>5. stops \in Seq(U)
  BY <1>2, <1>4
<1> HIDE DEF stops
<1>6. ASSUME Cursors(source) # {} PROVE Append(stops, CursorOffset(source)) \in Seq(U)
  BY <1>5, <1>6, CursorInText, AppendProperties DEF U
<1>7. Stops(source) = stops \/ (Cursors(source) # {} /\ Stops(source) = Append(stops, CursorOffset(source)))
  BY DEF Stops, stops, order
<1>8. Stops(source) \in Seq(U)
  BY <1>5, <1>6, <1>7
<1>9. Cursor(source) = AtEnd \/ Cursor(source) \in 0 .. Len(Text(source))
  BY CursorInText DEF Cursor
<1> QED BY <1>8, <1>9 DEF U

(***************************************************************************)
(* Typing at several carets.                                               *)
(***************************************************************************)
\* The positions that are looked at in the first n turns.
LastPlaces(places, length, n) == {p \in places : p >= length + 1 - n}

\* One more position from the end is looked at.
LEMMA LastPlacesGrow ==
  ASSUME NEW length \in Nat, NEW places \in SUBSET (0 .. length), NEW n \in 1 .. length + 1
  PROVE  /\ IsFiniteSet(places)
         /\ Cardinality(LastPlaces(places, length, n)) \in Nat
         /\ Cardinality(LastPlaces(places, length, n - 1)) \in Nat
         /\ Cardinality(LastPlaces(places, length, n)) =
              Cardinality(LastPlaces(places, length, n - 1)) + IF length + 1 - n \in places THEN 1 ELSE 0
<1> DEFINE p == length + 1 - n
           A == LastPlaces(places, length, n - 1)
           B == LastPlaces(places, length, n)
<1>1. IsFiniteSet(0 .. length)
  <2>1. 0 \in Int /\ length \in Int
    OBVIOUS
  <2> QED BY <2>1, FS_Interval
<1>2. IsFiniteSet(places)
  BY <1>1, FS_Subset
<1>3. A \in SUBSET places /\ B \in SUBSET places
  BY DEF LastPlaces
<1>4. IsFiniteSet(A) /\ IsFiniteSet(B)
  BY <1>2, <1>3, FS_Subset
<1>5. Cardinality(A) \in Nat /\ Cardinality(B) \in Nat
  BY <1>4, FS_CardinalityType
<1>6. p \notin A
  BY DEF LastPlaces
<1>7. CASE p \in places
  <2>1. B = A \cup {p}
    <3>1. \A q \in 0 .. length : q >= p <=> q = p \/ q >= length + 1 - (n - 1)
      OBVIOUS
    <3> QED BY <1>7, <3>1 DEF LastPlaces
  <2> HIDE DEF A, B, p
  <2>2. Cardinality(B) = Cardinality(A) + 1
    BY <1>4, <1>6, <2>1, FS_AddElement
  <2> QED BY <1>2, <1>5, <1>7, <2>2 DEF A, B, p
<1>8. CASE p \notin places
  <2>1. B = A
    <3>1. \A q \in 0 .. length : q >= p <=> q = p \/ q >= length + 1 - (n - 1)
      OBVIOUS
    <3> QED BY <1>8, <3>1 DEF LastPlaces
  <2> HIDE DEF A, B, p
  <2> QED BY <1>2, <1>5, <1>8, <2>1 DEF A, B, p
<1> QED BY <1>7, <1>8

\* The text after each turn.
TypedText(f, d, places, e, V) ==
  /\ f[0] = d
  /\ \A n \in 1 .. Len(d) + 1 :
       f[n] = IF Len(d) + 1 - n \in places
              THEN Splice(f[n - 1], Len(d) + 1 - n, Len(d) + 1 - n, <<e>>) ELSE f[n - 1]
  /\ \A n \in 0 .. Len(d) + 1 :
       f[n] \in Seq(V) /\ Len(f[n]) = Len(d) + Cardinality(LastPlaces(places, Len(d), n))

\* InsertedAtEach is such a list of texts.
LEMMA TypedTextExists ==
  ASSUME NEW V, NEW d \in Seq(V), NEW places \in SUBSET (0 .. Len(d)), NEW e \in V
  PROVE  \E f : TypedText(f, d, places, e, V) /\ InsertedAtEach(d, places, e) = f[Len(d) + 1]
<1> DEFINE L == Len(d)
           N == L + 1
           W == {t \in Seq(V) : Len(t) >= L}
           More(t, n) == IF L + 1 - n \in places THEN Splice(t, L + 1 - n, L + 1 - n, <<e>>) ELSE t
           G == [z \in W \X (1 .. N) |-> More(z[1], z[2])]
           Body(f) == [n \in 0 .. N |-> IF n = 0 THEN d ELSE More(f[n - 1], n)]
           after == CHOOSE f : f = Body(f)
<1>1. L \in Nat /\ N \in Nat /\ d \in W
  OBVIOUS
<1>2. ASSUME NEW t \in W, NEW n \in 1 .. N
      PROVE  /\ More(t, n) \in W
             /\ Len(More(t, n)) = Len(t) + IF L + 1 - n \in places THEN 1 ELSE 0
  <2> DEFINE p == L + 1 - n
  <2>1. t \in Seq(V) /\ Len(t) \in Nat /\ Len(t) >= L
    OBVIOUS
  <2>2. p \in 0 .. Len(t) /\ p \in p .. Len(t)
    BY <1>1, <2>1
  <2>3. <<e>> \in Seq(V) /\ Len(<<e>>) = 1
    OBVIOUS
  <2> DEFINE c == Splice(t, p, p, <<e>>)
  <2>4. c \in Seq(V) /\ Len(c) = p + 1 + (Len(t) - p)
    <3>1. ASSUME NEW x \in Seq(V), Len(x) = 1
          PROVE  Splice(t, p, p, x) \in Seq(V) /\ Len(Splice(t, p, p, x)) = p + 1 + (Len(t) - p)
      <4> HIDE DEF p, W, L
      <4>1. /\ Splice(t, p, p, x) \in Seq(V)
            /\ Len(Splice(t, p, p, x)) = p + Len(x) + (Len(t) - p)
        BY <2>1, <2>2, SpliceProperties
      <4> QED BY <3>1, <4>1
    <3> HIDE DEF p
    <3> QED BY <2>3, <3>1
  <2>5. More(t, n) = IF p \in places THEN c ELSE t
    OBVIOUS
  <2> HIDE DEF c, More
  <2>6. Len(c) = Len(t) + 1
    BY <2>1, <2>2, <2>4
  <2> QED BY <1>1, <2>1, <2>4, <2>5, <2>6
<1>3. G \in [W \X (1 .. N) -> W]
  <2> HIDE DEF More, N, W
  <2> QED BY <1>2
<1>4. PICK f \in [0 .. N -> W] : f[0] = d /\ \A n \in 1 .. N : f[n] = G[<<f[n - 1], n>>]
  <2> HIDE DEF G, N, W
  <2>1. \E f : Recursion(f, N, W, d, G)
    BY <1>1, <1>3, RecursionExists
  <2> QED BY <2>1 DEF Recursion
<1>5. \A n \in 1 .. N : f[n] = More(f[n - 1], n)
  <2> TAKE n \in 1 .. N
  <2>1. f[n - 1] \in W
    <3> HIDE DEF N, W
    <3> QED BY <1>1
  <2>2. G[<<f[n - 1], n>>] = More(f[n - 1], n)
    <3> HIDE DEF More, N, W
    <3> QED BY <2>1
  <2> HIDE DEF G, More
  <2> QED BY <1>4, <2>2
<1> HIDE DEF G
<1>6. f = Body(f)
  <2>1. \A n \in 0 .. N : n = 0 \/ n \in 1 .. N
    BY <1>1
  <2> HIDE DEF More, N, W
  <2> QED BY <1>4, <1>5, <2>1
<1>7. after = Body(after)
  <2> HIDE DEF Body
  <2> QED BY <1>6
<1>8. InsertedAtEach(d, places, e) = after[N]
  BY DEF InsertedAtEach
<1> HIDE DEF after
<1>9. after[0] = d /\ \A n \in 1 .. N : after[n] = More(after[n - 1], n)
  <2>1. 0 \in 0 .. N /\ \A n \in 1 .. N : n \in 0 .. N /\ n # 0
    BY <1>1
  <2> HIDE DEF More, N
  <2> QED BY <1>7, <2>1
<1>10. \A n \in 0 .. N : after[n] \in W
  <2>1. after[0] \in W
    BY <1>1, <1>9
  <2>2. \A n \in 1 .. N : after[n - 1] \in W => after[n] \in W
    <3> HIDE DEF More, N, W
    <3> QED BY <1>2, <1>9
  <2> HIDE DEF N, W
  <2> QED BY <1>1, <2>1, <2>2, StaysIn
<1> DEFINE T == {n \in 0 .. N : Len(after[n]) = L + Cardinality(LastPlaces(places, L, n))}
<1>11. 0 \in T
  <2>1. LastPlaces(places, L, 0) = {}
    <3>1. \A p \in places : p \in 0 .. L /\ ~(p >= L + 1 - 0)
      BY <1>1
    <3> QED BY <3>1 DEF LastPlaces
  <2>2. Cardinality(LastPlaces(places, L, 0)) = 0
    BY <2>1, FS_EmptySet
  <2> QED BY <1>1, <1>9, <2>2
<1>12. ASSUME NEW n \in 1 .. N, n - 1 \in T PROVE n \in T
  <2>1. n - 1 \in 0 .. N /\ n \in 0 .. N
    BY <1>1
  <2>2. Len(after[n]) = Len(after[n - 1]) + IF L + 1 - n \in places THEN 1 ELSE 0
    <3> HIDE DEF More, N, W
    <3> QED BY <1>2, <1>9, <1>10, <2>1
  <2>3. /\ Cardinality(LastPlaces(places, L, n)) \in Nat
        /\ Cardinality(LastPlaces(places, L, n - 1)) \in Nat
        /\ Cardinality(LastPlaces(places, L, n)) =
             Cardinality(LastPlaces(places, L, n - 1)) + IF L + 1 - n \in places THEN 1 ELSE 0
    <3>1. L \in Nat /\ n \in 1 .. L + 1 /\ places \in SUBSET (0 .. L)
      BY <1>1
    <3> HIDE DEF L, W, More
    <3> QED BY <3>1, LastPlacesGrow
  <2>4. Len(after[n - 1]) = L + Cardinality(LastPlaces(places, L, n - 1))
    BY <1>12
  <2> DEFINE a == Cardinality(LastPlaces(places, L, n - 1))
             b == Cardinality(LastPlaces(places, L, n))
             m == IF L + 1 - n \in places THEN 1 ELSE 0
  <2>5. m \in Nat
    OBVIOUS
  <2> HIDE DEF a, b, m
  <2>6. Len(after[n]) = L + b
    <3>1. Len(after[n]) = (L + a) + m /\ b = a + m /\ a \in Nat /\ b \in Nat
      BY <2>2, <2>3, <2>4 DEF a, b, m
    <3> QED BY <1>1, <2>5, <3>1
  <2> QED BY <2>1, <2>6 DEF b
<1> HIDE DEF T
<1>13. \A n \in 0 .. N : n \in T
  BY <1>1, <1>11, <1>12, IntervalInduction
<1>14. TypedText(after, d, places, e, V)
  <2>1. \A n \in 0 .. L + 1 : after[n] \in Seq(V) /\ Len(after[n]) = L + Cardinality(LastPlaces(places, L, n))
    BY <1>10, <1>13 DEF T
  <2> QED BY <1>9, <2>1 DEF TypedText
<1> QED BY <1>8, <1>14

\* In the end all places have been looked at.
LEMMA AllPlaces ==
  ASSUME NEW length \in Nat, NEW places \in SUBSET (0 .. length)
  PROVE  LastPlaces(places, length, length + 1) = places
<1>1. \A p \in places : p >= length + 1 - (length + 1)
  OBVIOUS
<1> QED BY <1>1 DEF LastPlaces

\* The text has grown by one element for each place.
LEMMA InsertedAtEachTyped ==
  ASSUME NEW V, NEW d \in Seq(V), NEW places \in SUBSET (0 .. Len(d)), NEW e \in V
  PROVE  /\ InsertedAtEach(d, places, e) \in Seq(V)
         /\ Len(InsertedAtEach(d, places, e)) = Len(d) + Cardinality(places)
<1>1. PICK f : TypedText(f, d, places, e, V) /\ InsertedAtEach(d, places, e) = f[Len(d) + 1]
  BY TypedTextExists
<1>2. Len(d) \in Nat /\ Len(d) + 1 \in 0 .. Len(d) + 1
  OBVIOUS
<1>3. LastPlaces(places, Len(d), Len(d) + 1) = places
  BY <1>2, AllPlaces
<1> QED BY <1>1, <1>2, <1>3 DEF TypedText

\* The positions after each turn.
ShiftedPositions(g, ps, places, length) ==
  /\ g[0] = ps
  /\ \A n \in 1 .. length + 1 :
       g[n] = IF length + 1 - n \in places THEN Inserted(g[n - 1], length + 1 - n, 1) ELSE g[n - 1]
  /\ \A n \in 0 .. length + 1 : g[n] \in Seq(Nat) /\ DOMAIN g[n] = DOMAIN ps

\* What an insertion makes of the positions of tabstops ...
LEMMA InsertedTyped ==
  ASSUME NEW ps \in Seq(Nat), NEW p \in Nat, NEW n \in Nat
  PROVE  /\ Inserted(ps, p, n) \in Seq(Nat) /\ DOMAIN Inserted(ps, p, n) = DOMAIN ps
         /\ Len(Inserted(ps, p, n)) = Len(ps)
         /\ \A t \in DOMAIN ps : Inserted(ps, p, n)[t] = IF ps[t] >= p THEN ps[t] + n ELSE ps[t]
<1>1. DOMAIN ps = 1 .. Len(ps) /\ Len(ps) \in Nat /\ \A t \in DOMAIN ps : ps[t] \in Nat
  OBVIOUS
<1> DEFINE f == [t \in 1 .. Len(ps) |-> IF ps[t] >= p THEN ps[t] + n ELSE ps[t]]
<1>2. Inserted(ps, p, n) = f
  BY <1>1 DEF Inserted
<1>3. f \in [1 .. Len(ps) -> Nat]
  BY <1>1
<1>4. f \in Seq(Nat) /\ Len(f) = Len(ps)
  BY <1>1, <1>3
<1> QED BY <1>1, <1>2, <1>3, <1>4

\* ShiftedAtEach is such a list of positions.
LEMMA ShiftedPositionsExist ==
  ASSUME NEW ps \in Seq(Nat), NEW length \in Nat, NEW places \in SUBSET (0 .. length)
  PROVE  \E g : ShiftedPositions(g, ps, places, length) /\ ShiftedAtEach(ps, places, length) = g[length + 1]
<1> DEFINE N == length + 1
           W == {t \in Seq(Nat) : DOMAIN t = DOMAIN ps}
           More(t, n) == IF length + 1 - n \in places THEN Inserted(t, length + 1 - n, 1) ELSE t
           G == [z \in W \X (1 .. N) |-> More(z[1], z[2])]
           Body(f) == [n \in 0 .. N |-> IF n = 0 THEN ps ELSE More(f[n - 1], n)]
           after == CHOOSE f : f = Body(f)
<1>1. N \in Nat /\ ps \in W
  OBVIOUS
<1>2. ASSUME NEW t \in W, NEW n \in 1 .. N PROVE More(t, n) \in W
  <2> DEFINE p == length + 1 - n
  <2>1. p \in Nat /\ t \in Seq(Nat) /\ DOMAIN t = DOMAIN ps /\ 1 \in Nat
    OBVIOUS
  <2>2. Inserted(t, p, 1) \in Seq(Nat) /\ DOMAIN Inserted(t, p, 1) = DOMAIN t
    <3> HIDE DEF p, W
    <3> QED BY <2>1, InsertedTyped
  <2> QED BY <2>1, <2>2
<1>3. G \in [W \X (1 .. N) -> W]
  <2> HIDE DEF More, N, W
  <2> QED BY <1>2
<1>4. PICK f \in [0 .. N -> W] : f[0] = ps /\ \A n \in 1 .. N : f[n] = G[<<f[n - 1], n>>]
  <2> HIDE DEF G, N, W
  <2>1. \E f : Recursion(f, N, W, ps, G)
    BY <1>1, <1>3, RecursionExists
  <2> QED BY <2>1 DEF Recursion
<1>5. \A n \in 1 .. N : f[n] = More(f[n - 1], n)
  <2> TAKE n \in 1 .. N
  <2>1. f[n - 1] \in W
    <3> HIDE DEF N, W
    <3> QED BY <1>1
  <2>2. G[<<f[n - 1], n>>] = More(f[n - 1], n)
    <3> HIDE DEF More, N, W
    <3> QED BY <2>1
  <2> HIDE DEF G, More
  <2> QED BY <1>4, <2>2
<1> HIDE DEF G
<1>6. f = Body(f)
  <2>1. \A n \in 0 .. N : n = 0 \/ n \in 1 .. N
    BY <1>1
  <2> HIDE DEF More, N, W
  <2> QED BY <1>4, <1>5, <2>1
<1>7. after = Body(after)
  <2> HIDE DEF Body
  <2> QED BY <1>6
<1>8. ShiftedAtEach(ps, places, length) = after[N]
  BY DEF ShiftedAtEach
<1> HIDE DEF after
<1>9. after[0] = ps /\ \A n \in 1 .. N : after[n] = More(after[n - 1], n)
  <2>1. 0 \in 0 .. N /\ \A n \in 1 .. N : n \in 0 .. N /\ n # 0
    BY <1>1
  <2> HIDE DEF More, N
  <2> QED BY <1>7, <2>1
<1>10. \A n \in 0 .. N : after[n] \in W
  <2>1. after[0] \in W
    BY <1>1, <1>9
  <2>2. \A n \in 1 .. N : after[n - 1] \in W => after[n] \in W
    <3> HIDE DEF More, N, W
    <3> QED BY <1>2, <1>9
  <2> HIDE DEF N, W
  <2> QED BY <1>1, <2>1, <2>2, StaysIn
<1> QED BY <1>8, <1>9, <1>10 DEF ShiftedPositions

\* In all a position goes up by as many characters as are put in at or before it.
LEMMA ShiftedAtEachIs ==
  ASSUME NEW ps \in Seq(Nat), NEW length \in Nat, NEW places \in SUBSET (0 .. length)
  PROVE  /\ ShiftedAtEach(ps, places, length) \in Seq(Nat)
         /\ DOMAIN ShiftedAtEach(ps, places, length) = DOMAIN ps
         /\ \A t \in DOMAIN ps : ShiftedAtEach(ps, places, length)[t]
                                   = ps[t] + Cardinality({p \in places : p <= ps[t]})
<1> DEFINE N == length + 1
<1>1. PICK g : ShiftedPositions(g, ps, places, length) /\ ShiftedAtEach(ps, places, length) = g[N]
  BY ShiftedPositionsExist
<1>2. N \in Nat /\ N \in 0 .. N /\ g[N] \in Seq(Nat) /\ DOMAIN g[N] = DOMAIN ps
  BY <1>1 DEF ShiftedPositions
<1>3. ASSUME NEW t \in DOMAIN ps PROVE g[N][t] = ps[t] + Cardinality({p \in places : p <= ps[t]})
  <2> DEFINE x == ps[t]
             upto == {p \in places : p <= x}
             Count(n) == Cardinality(LastPlaces(upto, length, n))
             T == {n \in 0 .. N : Count(n) \in Nat /\ g[n][t] = x + Count(n)}
  <2>1. x \in Nat /\ upto \in SUBSET (0 .. length)
    <3>1. ps[t] \in Nat
      OBVIOUS
    <3>2. upto \in SUBSET (0 .. length)
      <4> HIDE DEF x
      <4> QED OBVIOUS
    <3> HIDE DEF upto
    <3> QED BY <3>1, <3>2
  <2>2. 0 \in T
    <3>1. LastPlaces(upto, length, 0) = {}
      <4>1. \A p \in upto : p \in 0 .. length /\ ~(p >= length + 1 - 0)
        BY <2>1
      <4> QED BY <4>1 DEF LastPlaces
    <3>2. Count(0) = 0
      BY <3>1, FS_EmptySet
    <3>3. g[0] = ps
      BY <1>1 DEF ShiftedPositions
    <3> HIDE DEF Count, upto
    <3> QED BY <1>2, <2>1, <3>2, <3>3
  <2>3. ASSUME NEW n \in 1 .. N, n - 1 \in T PROVE n \in T
    <3> DEFINE p == length + 1 - n
               m == IF p \in upto THEN 1 ELSE 0
    <3>0. n \in Nat /\ 1 <= n /\ n <= length + 1 /\ N = length + 1 /\ p = length + 1 - n
      OBVIOUS
    <3>1. n \in 1 .. length + 1 /\ n - 1 \in 0 .. N /\ n \in 0 .. N /\ p \in 0 .. length
      <4> HIDE DEF x, upto, p, N
      <4> QED BY <3>0
    <3>2. Count(n - 1) \in Nat /\ Count(n) \in Nat /\ Count(n) = Count(n - 1) + m
      <4>1. n \in 1 .. length + 1
        BY <3>1
      <4>2. ASSUME NEW P \in SUBSET (0 .. length)
            PROVE  /\ Cardinality(LastPlaces(P, length, n)) \in Nat
                   /\ Cardinality(LastPlaces(P, length, n - 1)) \in Nat
                   /\ Cardinality(LastPlaces(P, length, n)) =
                        Cardinality(LastPlaces(P, length, n - 1)) + IF length + 1 - n \in P THEN 1 ELSE 0
        BY <4>1, LastPlacesGrow
      <4> HIDE DEF x, upto
      <4> QED BY <2>1, <4>2
    <3>3. g[n - 1][t] = x + Count(n - 1)
      BY <2>3
    <3>4. g[n] = IF p \in places THEN Inserted(g[n - 1], p, 1) ELSE g[n - 1]
      BY <1>1, <3>1 DEF ShiftedPositions
    <3>5. g[n - 1] \in Seq(Nat) /\ t \in DOMAIN g[n - 1]
      BY <1>1, <3>1 DEF ShiftedPositions
    <3>6. p > x => Count(n - 1) = 0
      <4> SUFFICES ASSUME p > x PROVE Count(n - 1) = 0
        OBVIOUS
      <4>1. \A q \in upto : q \in 0 .. length /\ q <= x /\ ~(q >= length + 1 - (n - 1))
        BY <2>1, <3>1
      <4>2. LastPlaces(upto, length, n - 1) = {}
        <5> HIDE DEF upto
        <5> QED BY <4>1 DEF LastPlaces
      <4> QED BY <4>2, FS_EmptySet
    <3>7. p \in upto <=> p \in places /\ p <= x
      OBVIOUS
    <3>8. p \in places => g[n][t] = IF g[n - 1][t] >= p THEN g[n - 1][t] + 1 ELSE g[n - 1][t]
      <4>1. p \in Nat /\ 1 \in Nat
        BY <3>1
      <4> HIDE DEF p
      <4> QED BY <3>4, <3>5, <4>1, InsertedTyped
    <3>9. p \in Nat
      BY <3>1
    <3> HIDE DEF Count, upto, p, x, N
    <3>10. g[n][t] = x + Count(n)
      <4>1. CASE p \in places /\ p <= x
        <5>1. g[n - 1][t] >= p /\ Count(n) = Count(n - 1) + 1
          BY <2>1, <3>2, <3>3, <3>7, <3>9, <4>1
        <5>2. g[n][t] = g[n - 1][t] + 1
          BY <3>8, <4>1, <5>1
        <5> QED BY <2>1, <3>2, <3>3, <5>1, <5>2
      <4>2. CASE p \in places /\ ~(p <= x)
        <5>1. Count(n - 1) = 0 /\ Count(n) = Count(n - 1)
          BY <2>1, <3>2, <3>6, <3>7, <3>9, <4>2
        <5>2. ~(g[n - 1][t] >= p)
          BY <2>1, <3>3, <3>9, <4>2, <5>1
        <5> QED BY <3>3, <3>8, <4>2, <5>1, <5>2
      <4>3. CASE p \notin places
        <5>1. Count(n) = Count(n - 1)
          BY <3>2, <3>7, <4>3
        <5> QED BY <3>3, <3>4, <4>3, <5>1
      <4> QED BY <4>1, <4>2, <4>3
    <3> QED BY <3>1, <3>2, <3>10
  <2> HIDE DEF T
  <2>4. \A n \in 0 .. N : n \in T
    BY <1>2, <2>2, <2>3, IntervalInduction
  <2>5. LastPlaces(upto, length, length + 1) = upto
    BY <2>1, AllPlaces
  <2>6. N \in T
    BY <1>2, <2>4
  <2> QED BY <2>5, <2>6 DEF T
<1> QED BY <1>1, <1>2, <1>3

\* Whatever is typed at however many carets: one insertion after the other, each
\* of which adjustTabstopPositions follows.
LEMMA TypingFollows ==
  ASSUME NEW b \in Seq(Nat), NEW ps \in Seq(Nat), NEW os, Follow(ps, b, os),
         NEW places \in SUBSET (0 .. Len(b))
  PROVE  Follow(ShiftedAtEach(ps, places, Len(b)), InsertedAtEach(b, places, 0), os)
<1> DEFINE L == Len(b)
           N == L + 1
<1>1. L \in Nat /\ N \in Nat /\ N \in 0 .. N /\ 0 \in Nat
  OBVIOUS
<1>2. PICK f : TypedText(f, b, places, 0, Nat) /\ InsertedAtEach(b, places, 0) = f[L + 1]
  BY <1>1, TypedTextExists
<1>3. PICK g : ShiftedPositions(g, ps, places, L) /\ ShiftedAtEach(ps, places, L) = g[L + 1]
  <2> HIDE DEF N
  <2> QED BY <1>1, ShiftedPositionsExist
<1> DEFINE T == {n \in 0 .. N : Follow(g[n], f[n], os)}
<1>4. 0 \in T
  BY <1>1, <1>2, <1>3 DEF TypedText, ShiftedPositions
<1>5. ASSUME NEW n \in 1 .. N, n - 1 \in T PROVE n \in T
  <2> DEFINE p == L + 1 - n
  <2>1. n \in 1 .. L + 1 /\ n - 1 \in 0 .. L + 1 /\ n \in 0 .. N /\ p \in Nat /\ p <= L
    BY <1>1
  <2>2. Follow(g[n - 1], f[n - 1], os)
    BY <1>5
  <2>3. /\ f[n - 1] \in Seq(Nat)
        /\ Len(f[n - 1]) = L + Cardinality(LastPlaces(places, L, n - 1))
        /\ f[n] = IF p \in places THEN Splice(f[n - 1], p, p, <<0>>) ELSE f[n - 1]
    BY <1>2, <2>1 DEF TypedText
  <2>4. /\ g[n - 1] \in Seq(Nat)
        /\ g[n] = IF p \in places THEN Inserted(g[n - 1], p, 1) ELSE g[n - 1]
    BY <1>3, <2>1 DEF ShiftedPositions
  <2>5. Cardinality(LastPlaces(places, L, n - 1)) \in Nat
    <3> HIDE DEF p, N, T
    <3> QED BY <1>1, <2>1, LastPlacesGrow
  <2>6. p \in 0 .. Len(f[n - 1])
    <3> HIDE DEF p, L
    <3> QED BY <1>1, <2>1, <2>3, <2>5
  <2>7. ASSUME NEW new \in Seq(Nat), Len(new) = 1, \A i \in DOMAIN new : new[i] = 0
        PROVE  Follow(Inserted(g[n - 1], p, 1), Splice(f[n - 1], p, p, new), os)
    <3> HIDE DEF p, N, T
    <3> QED BY <2>2, <2>3, <2>4, <2>6, <2>7, InsertedFollow
  <2>8. <<0>> \in Seq(Nat) /\ Len(<<0>>) = 1 /\ \A i \in DOMAIN <<0>> : <<0>>[i] = 0
    OBVIOUS
  <2>9. Follow(g[n], f[n], os)
    <3> HIDE DEF p, N, T
    <3> QED BY <2>2, <2>3, <2>4, <2>7, <2>8
  <2> QED BY <2>1, <2>9
<1> HIDE DEF T
<1>6. \A n \in 0 .. N : n \in T
  BY <1>1, <1>4, <1>5, IntervalInduction
<1>7. N \in T
  BY <1>1, <1>6
<1> QED BY <1>2, <1>3, <1>7 DEF T

\* How many of some positions of a document are not after x.
LEMMA UpTo ==
  ASSUME NEW length \in Nat, NEW places \in SUBSET (0 .. length), NEW x
  PROVE  /\ IsFiniteSet(places) /\ Cardinality(places) \in Nat
         /\ IsFiniteSet({p \in places : p <= x})
         /\ Cardinality({p \in places : p <= x}) \in Nat
         /\ Cardinality({p \in places : p <= x}) <= Cardinality(places)
         /\ x \in places => Cardinality({p \in places : p <= x}) > 0
<1> DEFINE upto == {p \in places : p <= x}
<1>1. IsFiniteSet(places)
  <2>1. length + 1 \in 1 .. length + 1
    OBVIOUS
  <2> QED BY <2>1, LastPlacesGrow
<1>2. upto \subseteq places /\ (x \in places => x \in upto)
  <2>1. \A p \in 0 .. length : p <= p
    OBVIOUS
  <2> QED BY <2>1
<1> HIDE DEF upto
<1>3. IsFiniteSet(upto) /\ Cardinality(upto) \in Nat /\ Cardinality(upto) <= Cardinality(places)
  BY <1>1, <1>2, FS_Subset, FS_CardinalityType
<1>4. Cardinality(places) \in Nat
  BY <1>1, FS_CardinalityType
<1>5. x \in places => Cardinality(upto) # 0
  BY <1>2, <1>3, FS_EmptySet
<1>6. x \in places => Cardinality(upto) > 0
  BY <1>3, <1>5
<1> QED BY <1>1, <1>3, <1>4, <1>6 DEF upto

(***************************************************************************)
(* Types.                                                                  *)
(***************************************************************************)
SessionTyped ==
  session # NoSession =>
    /\ session \in Session
    /\ session.current \in DOMAIN session.positions
    /\ \A i \in DOMAIN session.positions : session.positions[i] <= Len(doc)

\* ... and what a deletion makes of them.
LEMMA RemovedTyped ==
  ASSUME NEW ps \in Seq(Nat), NEW p \in Nat, NEW n \in Nat
  PROVE  /\ Removed(ps, p, n) \in Seq(Nat) /\ DOMAIN Removed(ps, p, n) = DOMAIN ps
         /\ \A t \in DOMAIN ps :
              Removed(ps, p, n)[t] = IF ps[t] >= p + n THEN ps[t] - n ELSE IF ps[t] >= p THEN p ELSE ps[t]
<1>1. DOMAIN ps = 1 .. Len(ps) /\ Len(ps) \in Nat /\ \A t \in DOMAIN ps : ps[t] \in Nat
  OBVIOUS
<1> DEFINE Left(x) == IF x >= p + n THEN x - n ELSE IF x >= p THEN p ELSE x
           f == [t \in 1 .. Len(ps) |-> Left(ps[t])]
<1>2. Removed(ps, p, n) = f
  BY <1>1 DEF Removed
<1>3. \A x \in Nat : Left(x) \in Nat
  OBVIOUS
<1> HIDE DEF LimitLeft
<1>4. f \in [1 .. Len(ps) -> Nat]
  BY <1>1, <1>3
<1>5. f \in Seq(Nat) /\ DOMAIN f = DOMAIN ps
  BY <1>1, <1>4
<1>6. \A t \in DOMAIN ps : f[t] = Left(ps[t])
  BY <1>1
<1> HIDE DEF f
<1> QED BY <1>2, <1>5, <1>6 DEF LimitLeft

\* What is within a text is within it when a stretch of it is gone.
LEMMA RemovedWithin ==
  ASSUME NEW ps \in Seq(Nat), NEW L \in Nat, \A t \in DOMAIN ps : ps[t] <= L,
         NEW p \in 0 .. L, NEW q \in p .. L
  PROVE  \A t \in DOMAIN ps : Removed(ps, p, q - p)[t] \in 0 .. p + (L - q)
<1>1. p \in Nat /\ q \in Nat /\ q - p \in Nat /\ p <= q /\ q <= L /\ p + (q - p) = q
  OBVIOUS
<1> TAKE t \in DOMAIN ps
<1>2. PICK x \in Nat : x = ps[t] /\ x <= L
  <2>1. ps[t] \in Nat
    OBVIOUS
  <2> QED BY <2>1
<1>3. Removed(ps, p, q - p)[t] = IF x >= q THEN x - (q - p) ELSE IF x >= p THEN p ELSE x
  <2>1. Removed(ps, p, q - p)[t] = IF ps[t] >= p + (q - p) THEN ps[t] - (q - p)
                                   ELSE IF ps[t] >= p THEN p ELSE ps[t]
    BY <1>1, RemovedTyped
  <2> QED BY <1>1, <1>2, <2>1
<1> QED BY <1>1, <1>2, <1>3

\* KeepPositions keeps the session one of the document.
LEMMA SessionKept ==
  ASSUME TypeOK, NEW positions, NEW newBorn, KeepPositions(positions, newBorn),
         session # NoSession =>
           /\ positions \in Seq(Nat) /\ DOMAIN positions = DOMAIN session.positions
           /\ \A t \in DOMAIN positions : positions[t] <= Len(doc')
           /\ newBorn \in Seq(Nat)
  PROVE  SessionTyped' /\ born' \in Seq(Nat) /\ origin' \in Seq(Nat)
<1>1. CASE session = NoSession
  BY <1>1 DEF KeepPositions, TypeOK, SessionTyped, ghost
<1>2. CASE session # NoSession
  <2>1. session \in Session /\ session.current \in DOMAIN session.positions
    BY <1>2 DEF TypeOK
  <2>2. /\ session' = [session EXCEPT !.positions = positions]
        /\ born' = newBorn /\ origin' = origin
    BY <1>2 DEF KeepPositions
  <2>3. /\ session' \in Session /\ session'.positions = positions /\ session'.current = session.current
    BY <1>2, <2>1, <2>2 DEF Session
  <2> QED BY <1>2, <2>1, <2>2, <2>3 DEF TypeOK, SessionTyped
<1> QED BY <1>1, <1>2

\* A session that has ended.
LEMMA Ended ==
  ASSUME EndSession
  PROVE  SessionTyped' /\ born' \in Seq(Nat) /\ origin' \in Seq(Nat)
<1>1. <<>> \in Seq(Nat)
  OBVIOUS
<1> QED BY <1>1 DEF EndSession, SessionTyped

\* TypeOK, from its parts.
LEMMA TypedAll ==
  ASSUME doc' \in Seq(Char), carets' \in Seq(0 .. Len(doc')), main' \in DOMAIN carets',
         active' \in BOOLEAN, typed' \in Char \cup {NoChar},
         SessionTyped', born' \in Seq(Nat), origin' \in Seq(Nat)
  PROVE  TypeOK'
BY DEF TypeOK, SessionTyped

\* A list with one element.
LEMMA Single ==
  ASSUME NEW x, NEW S, x \in S
  PROVE  <<x>> \in Seq(S) /\ Len(<<x>>) = 1 /\ 1 \in DOMAIN <<x>> /\ DOMAIN <<x>> = {1} /\ <<x>>[1] = x
OBVIOUS

\* A function on the first numbers is a list.
LEMMA IsList ==
  ASSUME NEW S, NEW n \in Nat, NEW f \in [1 .. n -> S]
  PROVE  f \in Seq(S) /\ Len(f) = n
OBVIOUS

\* A character is typed at every caret.
LEMMA TypeKeeps ==
  ASSUME TypeOK, Tracked, TabstopsFollowText, NEW c \in Typeable, Type(c)
  PROVE  TypeOK' /\ AfterTyped' /\ Tracked' /\ TabstopsFollowText'
<1> DEFINE places == ToSet(carets)
           L == Len(doc)
           m == Cardinality(places)
           Upto(x) == Cardinality({p \in places : p <= x})
           positions == ShiftedAtEach(session.positions, places, L)
           newBorn == InsertedAtEach(born, places, 0)
<1>1. /\ L \in Nat /\ doc \in Seq(Char) /\ c \in Char
      /\ DOMAIN carets = 1 .. Len(carets) /\ Len(carets) \in Nat
      /\ \A i \in DOMAIN carets : carets[i] \in 0 .. L
  BY ExpansionConstants DEF TypeOK
<1>2. places \in SUBSET (0 .. L) /\ \A i \in DOMAIN carets : carets[i] \in places
  BY <1>1 DEF ToSet
<1>3. /\ doc' = InsertedAtEach(doc, places, c)
      /\ carets' = [i \in DOMAIN carets |-> carets[i] + Upto(carets[i])]
      /\ KeepPositions(positions, newBorn)
      /\ main' = main /\ active' = active /\ typed' = c
  BY DEF Type
<1> HIDE DEF places
<1>4. doc' \in Seq(Char) /\ Len(doc') = L + m
  BY <1>1, <1>2, <1>3, InsertedAtEachTyped
<1> HIDE DEF L
<1>5. m \in Nat /\ \A x : Upto(x) \in Nat /\ Upto(x) <= m /\ (x \in places => Upto(x) > 0)
  <2>1. m \in Nat
    BY <1>1, <1>2, UpTo
  <2> QED BY <1>1, <1>2, <2>1, UpTo
<1> HIDE DEF m, Upto
<1>6. carets' \in Seq(0 .. Len(doc')) /\ DOMAIN carets' = DOMAIN carets
  <2>1. \A i \in DOMAIN carets : carets[i] + Upto(carets[i]) \in 0 .. L + m
    BY <1>1, <1>5
  <2>2. carets' \in [1 .. Len(carets) -> 0 .. L + m]
    BY <1>1, <1>3, <2>1
  <2>3. carets' \in Seq(0 .. L + m)
    BY <1>1, <2>2, IsList
  <2> QED BY <1>1, <1>3, <1>4, <2>3
<1>7. AfterTyped'
  <2>1. \A i \in DOMAIN carets : carets[i] + Upto(carets[i]) > 0
    BY <1>1, <1>2, <1>5
  <2> QED BY <1>3, <1>6, <2>1 DEF AfterTyped
<1>8. ASSUME session # NoSession
      PROVE  /\ Len(born) = L /\ born \in Seq(Nat) /\ session.positions \in Seq(Nat)
             /\ positions \in Seq(Nat) /\ DOMAIN positions = DOMAIN session.positions
             /\ \A t \in DOMAIN positions : positions[t] <= Len(doc')
             /\ newBorn \in Seq(Nat) /\ Len(newBorn) = L + m
  <2> DEFINE ps == session.positions
  <2>1. /\ Len(born) = L /\ born \in Seq(Nat) /\ ps \in Seq(Nat)
        /\ \A t \in DOMAIN ps : ps[t] \in Nat /\ ps[t] <= L
    <3>1. Len(born) = L /\ born \in Seq(Nat) /\ session \in Session
      BY <1>8 DEF TypeOK, Tracked, L
    <3>2. ps \in Seq(Nat)
      BY <3>1 DEF Session
    <3>3. \A t \in DOMAIN ps : ps[t] <= L
      BY <1>8 DEF TypeOK, L
    <3> HIDE DEF ps
    <3> QED BY <3>1, <3>2, <3>3
  <2> HIDE DEF ps
  <2>2. /\ positions \in Seq(Nat) /\ DOMAIN positions = DOMAIN ps
        /\ \A t \in DOMAIN ps : positions[t] = ps[t] + Upto(ps[t])
    <3>1. positions = ShiftedAtEach(ps, places, L)
      BY DEF ps
    <3> HIDE DEF positions
    <3> QED BY <1>1, <1>2, <2>1, <3>1, ShiftedAtEachIs DEF Upto
  <2> HIDE DEF positions
  <2>3. \A t \in DOMAIN positions : positions[t] <= Len(doc')
    BY <1>1, <1>4, <1>5, <2>1, <2>2
  <2>4. newBorn \in Seq(Nat) /\ Len(newBorn) = L + m
    <3>1. 0 \in Nat /\ places \in SUBSET (0 .. Len(born))
      BY <1>2, <2>1
    <3> QED BY <2>1, <3>1, InsertedAtEachTyped DEF m
  <2> QED BY <2>1, <2>2, <2>3, <2>4 DEF ps
<1> HIDE DEF positions, newBorn
<1>9. SessionTyped' /\ born' \in Seq(Nat) /\ origin' \in Seq(Nat)
  BY <1>3, <1>8, SessionKept
<1>10. TypeOK'
  <2>1. main' \in DOMAIN carets' /\ active' \in BOOLEAN /\ typed' \in Char \cup {NoChar}
    BY <1>1, <1>3, <1>6 DEF TypeOK
  <2> QED BY <1>4, <1>6, <1>9, <2>1, TypedAll
<1>11. CASE session = NoSession
  <2>1. session' = NoSession
    BY <1>3, <1>11 DEF KeepPositions
  <2> QED BY <1>7, <1>10, <2>1 DEF Tracked, TabstopsFollowText
<1>12. CASE session # NoSession
  <2>1. /\ session'.positions = positions /\ born' = newBorn /\ origin' = origin
    BY <1>3, <1>12 DEF KeepPositions, TypeOK, Session
  <2>2. Tracked'
    BY <1>4, <1>8, <1>12, <2>1 DEF Tracked
  <2>3. Follow(session.positions, born, origin)
    BY <1>8, <1>12, FollowIsInvariant DEF Tracked
  <2>4. Follow(positions, newBorn, origin)
    BY <1>2, <1>8, <1>12, <2>3, TypingFollows DEF positions, newBorn
  <2>5. DOMAIN doc' = DOMAIN born'
    BY <1>4, <1>8, <1>12, <2>1
  <2>6. TabstopsFollowText'
    BY <2>1, <2>4, <2>5 DEF TabstopsFollowText, Follow
  <2> QED BY <1>7, <1>10, <2>2, <2>6
<1> QED BY <1>11, <1>12

\* What is deleted, and what is inserted, leaves a document and a session in it.
LEMMA CutTyped ==
  ASSUME TypeOK, Tracked, NEW p \in 0 .. Len(doc), NEW q \in p .. Len(doc),
         doc' = Splice(doc, p, q, <<>>),
         KeepPositions(Removed(session.positions, p, q - p), Splice(born, p, q, <<>>))
  PROVE  /\ doc' \in Seq(Char) /\ Len(doc') = p + (Len(doc) - q)
         /\ SessionTyped' /\ born' \in Seq(Nat) /\ origin' \in Seq(Nat)
<1>1. doc \in Seq(Char) /\ Len(doc) \in Nat /\ p \in Nat /\ q - p \in Nat
  BY DEF TypeOK
<1>2. doc' \in Seq(Char) /\ Len(doc') = p + (Len(doc) - q)
  BY <1>1, CutProperties
<1>3. ASSUME session # NoSession
      PROVE  /\ Removed(session.positions, p, q - p) \in Seq(Nat)
             /\ DOMAIN Removed(session.positions, p, q - p) = DOMAIN session.positions
             /\ \A t \in DOMAIN session.positions :
                  Removed(session.positions, p, q - p)[t] <= Len(doc')
             /\ Splice(born, p, q, <<>>) \in Seq(Nat)
  <2>1. /\ Len(born) = Len(doc) /\ born \in Seq(Nat) /\ session \in Session
        /\ \A t \in DOMAIN session.positions : session.positions[t] <= Len(doc)
    BY <1>3 DEF TypeOK, Tracked
  <2>2. session.positions \in Seq(Nat)
    BY <2>1 DEF Session
  <2>3. \A t \in DOMAIN session.positions :
          Removed(session.positions, p, q - p)[t] \in 0 .. p + (Len(doc) - q)
    BY <1>1, <2>1, <2>2, RemovedWithin
  <2>4. \A t \in DOMAIN session.positions : Removed(session.positions, p, q - p)[t] <= Len(doc')
    BY <1>2, <2>3
  <2>5. p \in 0 .. Len(born) /\ q \in p .. Len(born)
    BY <2>1
  <2>6. Splice(born, p, q, <<>>) \in Seq(Nat)
    BY <2>1, <2>5, CutProperties
  <2> QED BY <1>1, <2>2, <2>4, <2>6, RemovedTyped
<1> QED BY <1>2, <1>3, SessionKept

\* The same for what is inserted.
LEMMA InsertTyped ==
  ASSUME TypeOK, Tracked, NEW p \in 0 .. Len(doc), NEW s \in Seq(Char),
         doc' = Splice(doc, p, p, s),
         KeepPositions(Inserted(session.positions, p, Len(s)),
                       Splice(born, p, p, [i \in DOMAIN s |-> 0]))
  PROVE  /\ doc' \in Seq(Char) /\ Len(doc') = Len(doc) + Len(s)
         /\ SessionTyped' /\ born' \in Seq(Nat) /\ origin' \in Seq(Nat)
<1> DEFINE new == [i \in DOMAIN s |-> 0]
           n == Len(s)
<1>1. doc \in Seq(Char) /\ Len(doc) \in Nat /\ p \in Nat /\ p \in p .. Len(doc) /\ n \in Nat
  BY DEF TypeOK
<1>2. new \in Seq(Nat)
  OBVIOUS
<1> HIDE DEF new, n
<1>3. doc' \in Seq(Char) /\ Len(doc') = Len(doc) + n
  <2>1. doc' \in Seq(Char) /\ Len(doc') = p + Len(s) + (Len(doc) - p)
    BY <1>1, SpliceProperties
  <2> QED BY <1>1, <2>1 DEF n
<1>4. ASSUME session # NoSession
      PROVE  /\ Inserted(session.positions, p, n) \in Seq(Nat)
             /\ DOMAIN Inserted(session.positions, p, n) = DOMAIN session.positions
             /\ \A t \in DOMAIN session.positions : Inserted(session.positions, p, n)[t] <= Len(doc')
             /\ Splice(born, p, p, new) \in Seq(Nat)
  <2> DEFINE ps == session.positions
             qs == Inserted(ps, p, n)
  <2>1. /\ Len(born) = Len(doc) /\ born \in Seq(Nat) /\ session \in Session
        /\ \A t \in DOMAIN ps : ps[t] <= Len(doc)
    BY <1>4 DEF TypeOK, Tracked
  <2>2. ps \in Seq(Nat)
    BY <2>1 DEF Session
  <2> HIDE DEF ps
  <2>3. /\ qs \in Seq(Nat) /\ DOMAIN qs = DOMAIN ps
        /\ \A t \in DOMAIN ps : qs[t] = IF ps[t] >= p THEN ps[t] + n ELSE ps[t]
    BY <1>1, <2>2, InsertedTyped
  <2>4. \A t \in DOMAIN ps : ps[t] \in Nat
    BY <2>2
  <2> HIDE DEF qs
  <2>5. \A t \in DOMAIN ps : qs[t] <= Len(doc')
    BY <1>1, <1>3, <2>1, <2>3, <2>4
  <2>6. p \in 0 .. Len(born) /\ p \in p .. Len(born)
    BY <1>1, <2>1
  <2>7. Splice(born, p, p, new) \in Seq(Nat)
    BY <1>2, <2>1, <2>6, SpliceProperties
  <2> QED BY <2>3, <2>5, <2>7 DEF qs, ps
<1>5. SessionTyped' /\ born' \in Seq(Nat) /\ origin' \in Seq(Nat)
  <2>1. KeepPositions(Inserted(session.positions, p, n), Splice(born, p, p, new))
    BY DEF n, new
  <2> QED BY <1>4, <2>1, SessionKept
<1> QED BY <1>3, <1>5 DEF n

\* Backspace and Delete leave values of the right kind.
LEMMA EraseTyped ==
  ASSUME TypeOK, Tracked, Erase
  PROVE  TypeOK' /\ AfterTyped'
<1>1. PICK p \in {carets[1] - 1, carets[1]} \cap 0 .. Len(doc) - 1 :
        /\ doc' = Splice(doc, p, p + 1, <<>>)
        /\ carets' = <<p>>
        /\ KeepPositions(Removed(session.positions, p, 1), Splice(born, p, p + 1, <<>>))
  BY DEF Erase
<1>2. /\ Len(carets) = 1 /\ main' = main /\ active' = active /\ typed' = typed /\ typed = NoChar
      /\ main \in 1 .. Len(carets) /\ active \in BOOLEAN /\ Len(doc) \in Nat
  BY DEF Erase, TypeOK
<1>3. p \in 0 .. Len(doc) /\ p + 1 \in p .. Len(doc) /\ (p + 1) - p = 1
  BY <1>2
<1>4. /\ doc' \in Seq(Char) /\ Len(doc') = p + (Len(doc) - (p + 1))
      /\ SessionTyped' /\ born' \in Seq(Nat) /\ origin' \in Seq(Nat)
  BY <1>1, <1>3, CutTyped
<1>5. p \in 0 .. Len(doc')
  BY <1>2, <1>3, <1>4
<1>6. carets' \in Seq(0 .. Len(doc')) /\ main' \in DOMAIN carets'
  <2>1. main' = 1
    BY <1>2
  <2> QED BY <1>1, <1>5, <2>1, Single
<1>7. TypeOK'
  BY <1>2, <1>4, <1>6, TypedAll
<1> QED BY <1>2, <1>7 DEF AfterTyped

\* So does an edit elsewhere in the document.
LEMMA EditElsewhereTyped ==
  ASSUME TypeOK, Tracked, EditElsewhere
  PROVE  TypeOK' /\ AfterTyped'
<1>1. /\ Len(carets) = 1 /\ main' = main /\ active' = active /\ typed' = typed /\ typed = NoChar
      /\ main = 1 /\ active \in BOOLEAN /\ Len(doc) \in Nat
      /\ carets \in Seq(0 .. Len(doc)) /\ carets[1] \in 0 .. Len(doc)
  <2>1. Len(carets) = 1 /\ carets \in Seq(0 .. Len(doc)) /\ main \in 1 .. Len(carets)
    BY DEF EditElsewhere, TypeOK
  <2>2. carets[1] \in 0 .. Len(doc)
    BY <2>1
  <2> QED BY <2>1, <2>2 DEF EditElsewhere, TypeOK
<1>2. ASSUME NEW p \in 0 .. Len(doc), NEW s \in Foreign, doc' = Splice(doc, p, p, s),
             carets' = IF p < carets[1] THEN <<carets[1] + Len(s)>> ELSE carets,
             KeepPositions(Inserted(session.positions, p, Len(s)),
                           Splice(born, p, p, [i \in DOMAIN s |-> 0]))
      PROVE  TypeOK'
  <2>1. s \in Seq(Char) /\ Len(s) \in Nat
    BY ExpansionConstants
  <2>2. /\ doc' \in Seq(Char) /\ Len(doc') = Len(doc) + Len(s)
        /\ SessionTyped' /\ born' \in Seq(Nat) /\ origin' \in Seq(Nat)
    BY <1>2, <2>1, InsertTyped
  <2>3. carets[1] + Len(s) \in 0 .. Len(doc') /\ 0 .. Len(doc) \subseteq 0 .. Len(doc')
    BY <1>1, <2>1, <2>2
  <2>4. carets' \in Seq(0 .. Len(doc')) /\ main' \in DOMAIN carets'
    <3>1. CASE p < carets[1]
      BY <1>1, <1>2, <2>3, <3>1, Single
    <3>2. CASE ~(p < carets[1])
      <4>1. carets \in Seq(0 .. Len(doc'))
        BY <1>1, <2>3, ListOfMore
      <4> QED BY <1>1, <1>2, <3>2, <4>1
    <3> QED BY <3>1, <3>2
  <2> QED BY <1>1, <2>2, <2>4, TypedAll
<1>3. ASSUME NEW p \in 0 .. Len(doc), NEW q \in p + 1 .. Len(doc), doc' = Splice(doc, p, q, <<>>),
             carets' = Removed(carets, p, q - p),
             KeepPositions(Removed(session.positions, p, q - p), Splice(born, p, q, <<>>))
      PROVE  TypeOK'
  <2>1. q \in p .. Len(doc) /\ p \in Nat /\ q - p \in Nat
    BY <1>1
  <2>2. /\ doc' \in Seq(Char) /\ Len(doc') = p + (Len(doc) - q)
        /\ SessionTyped' /\ born' \in Seq(Nat) /\ origin' \in Seq(Nat)
    BY <1>3, <2>1, CutTyped
  <2>3. carets \in Seq(Nat) /\ \A i \in DOMAIN carets : carets[i] <= Len(doc)
    <3>1. 0 .. Len(doc) \subseteq Nat
      OBVIOUS
    <3>2. carets \in Seq(Nat)
      BY <1>1, <3>1, ListOfMore
    <3>3. \A i \in DOMAIN carets : carets[i] \in 0 .. Len(doc)
      BY <1>1
    <3> QED BY <3>2, <3>3
  <2>4. /\ carets' \in Seq(Nat) /\ DOMAIN carets' = DOMAIN carets
        /\ \A i \in DOMAIN carets : carets'[i] \in 0 .. p + (Len(doc) - q)
    BY <1>1, <1>3, <2>1, <2>3, RemovedTyped, RemovedWithin
  <2>5. carets' \in [1 .. 1 -> 0 .. Len(doc')]
    <3>1. DOMAIN carets' = 1 .. 1 /\ carets' = [i \in DOMAIN carets' |-> carets'[i]]
      BY <1>1, <2>4
    <3> QED BY <2>2, <2>4, <3>1
  <2>6. carets' \in Seq(0 .. Len(doc')) /\ main' \in DOMAIN carets'
    <3>1. 1 \in Nat /\ 1 \in 1 .. 1 /\ DOMAIN carets' = 1 .. 1
      BY <2>5
    <3>2. carets' \in Seq(0 .. Len(doc'))
      BY <2>5, <3>1, IsList
    <3> QED BY <1>1, <3>1, <3>2
  <2> QED BY <1>1, <2>2, <2>6, TypedAll
<1>4. TypeOK'
  BY <1>2, <1>3 DEF EditElsewhere
<1> QED BY <1>1, <1>4 DEF AfterTyped

(***************************************************************************)
(* Replacements of triggers.                                               *)
(***************************************************************************)
LEMMA ExpandedTyped ==
  ASSUME NEW t \in DOMAIN Rules
  PROVE  /\ Rules[t].source \in Source
         /\ Expanded[t] = [text |-> Text(Rules[t].source), stops |-> Stops(Rules[t].source),
                           cursor |-> Cursor(Rules[t].source), on |-> Rules[t].on,
                           fails |-> Rules[t].fails]
         /\ Expanded[t].text \in Seq(Char)
         /\ Expanded[t].stops \in Seq(0 .. Len(Expanded[t].text))
         /\ Expanded[t].cursor = AtEnd \/ Expanded[t].cursor \in 0 .. Len(Expanded[t].text)
<1>1. Rules[t].source \in Source
  BY ExpansionConstants DEF Source
<1>2. Expanded[t] = [text |-> Text(Rules[t].source), stops |-> Stops(Rules[t].source),
                     cursor |-> Cursor(Rules[t].source), on |-> Rules[t].on,
                     fails |-> Rules[t].fails]
  BY DEF Expanded
<1>3. /\ Text(Rules[t].source) \in Seq(Char)
      /\ Stops(Rules[t].source) \in Seq(0 .. Len(Text(Rules[t].source)))
      /\ \/ Cursor(Rules[t].source) = AtEnd
         \/ Cursor(Rules[t].source) \in 0 .. Len(Text(Rules[t].source))
  BY <1>1, OffsetsInText, StopsInText
<1> QED BY <1>1, <1>2, <1>3

\* readTriggerBefore finds a position before the one it is given.
LEMMA TriggerStartTyped ==
  ASSUME NEW e \in Nat
  PROVE  TriggerStart(e) \in 0 .. e
<1> DEFINE S == {0, e - MaxTrigger}
           first == Max(S)
           ends == {i \in first + 1 .. e : doc[i] \in Boundary}
<1>1. MaxTrigger \in Nat
  BY ExpansionConstants
<1>2. first \in 0 .. e
  <2>1. \E x \in S : \A y \in S : x >= y
    BY <1>1
  <2>2. first \in S /\ \A y \in S : first >= y
    BY <2>1 DEF Max
  <2> HIDE DEF first
  <2> QED BY <1>1, <2>2
<1>3. TriggerStart(e) = IF ends # {} THEN Max(ends) ELSE IF first > 0 THEN e ELSE 0
  BY DEF TriggerStart
<1> HIDE DEF first
<1>4. ends \in SUBSET (0 .. e)
  BY <1>2
<1> HIDE DEF ends
<1>5. ends # {} => Max(ends) \in 0 .. e
  BY <1>4, MaxIsGreatest
<1> DEFINE last == Max(ends)
<1>6. ends # {} => last \in 0 .. e
  BY <1>5
<1>7. TriggerStart(e) = IF ends # {} THEN last ELSE IF first > 0 THEN e ELSE 0
  BY <1>3
<1> HIDE DEF last
<1> QED BY <1>6, <1>7

\* The characters before a caret that an operation leaves after the trigger.
Trailing(how) == IF how \in {"manual", "immediate"} THEN 0 ELSE 1

\* A replacement is of the text before its caret.
LEMMA OperationTyped ==
  ASSUME TypeOK, AfterTyped, NEW how, how = "manual" \/ typed # NoChar, NEW i \in DOMAIN carets
  PROVE  /\ Trailing(how) \in {0, 1}
         /\ Operation(i, how).trailing = Trailing(how)
         /\ Operation(i, how).caret = i
         /\ Operation(i, how).end \in Nat /\ Operation(i, how).start \in 0 .. Operation(i, how).end
         /\ Operation(i, how).end + Trailing(how) = carets[i]
         /\ carets[i] \in 0 .. Len(doc)
         /\ Operation(i, how).rule =
              Find(SubSeq(doc, Operation(i, how).start + 1, Operation(i, how).end), how)
<1> DEFINE trailing == IF how \in {"manual", "immediate"} THEN 0 ELSE 1
           e == carets[i] - trailing
           s == TriggerStart(e)
<1>1. /\ Operation(i, how).start = s /\ Operation(i, how).end = e
      /\ Operation(i, how).rule = Find(SubSeq(doc, s + 1, e), how)
      /\ Operation(i, how).trailing = trailing /\ Operation(i, how).caret = i
  BY DEF Operation
<1>2. trailing = Trailing(how) /\ trailing \in {0, 1} /\ (how = "manual" => trailing = 0)
  BY DEF Trailing
<1>3. carets[i] \in 0 .. Len(doc) /\ (how # "manual" => carets[i] > 0)
  BY DEF TypeOK, AfterTyped
<1> HIDE DEF trailing
<1>4. e \in Nat /\ e + trailing = carets[i]
  <2>1. PICK x \in 0 .. Len(doc) : x = carets[i] /\ (how # "manual" => x > 0)
    BY <1>3
  <2>2. Len(doc) \in Nat
    BY DEF TypeOK
  <2> QED BY <1>2, <2>1, <2>2
<1> HIDE DEF e
<1>5. s \in 0 .. e
  BY <1>4, TriggerStartTyped
<1> QED BY <1>1, <1>2, <1>3, <1>4, <1>5

\* What an operation does where it is possible.
Fits(op, tr) ==
  /\ op.start \in Nat /\ op.end \in Nat /\ op.start < op.end /\ op.end + tr <= Len(doc)
  /\ op.trailing = tr
  /\ op.rule.text \in Seq(Char) /\ Size(op) \in Nat
  /\ op.rule.stops \in Seq(0 .. Size(op))
  /\ CaretOffset(op) \in 0 .. Size(op) + tr

\* A possible one is a rule's, of a trigger that is not empty.
LEMMA PossibleFits ==
  ASSUME TypeOK, AfterTyped, NEW how, how = "manual" \/ typed # NoChar, NEW op \in Operations(how),
         Possible(op)
  PROVE  /\ Trailing(how) \in {0, 1} /\ Fits(op, Trailing(how))
         /\ op.caret \in DOMAIN carets /\ op = Operation(op.caret, how)
         /\ SubSeq(doc, op.start + 1, op.end) \in DOMAIN Rules
         /\ op.rule = Expanded[SubSeq(doc, op.start + 1, op.end)]
<1>1. PICK i \in DOMAIN carets : op = Operation(i, how)
  BY DEF Operations
<1>2. /\ Trailing(how) \in {0, 1} /\ op.trailing = Trailing(how) /\ op.caret = i
      /\ op.end \in Nat /\ op.start \in 0 .. op.end
      /\ op.end + Trailing(how) = carets[i] /\ carets[i] \in 0 .. Len(doc)
      /\ op.rule = Find(SubSeq(doc, op.start + 1, op.end), how)
  BY <1>1, OperationTyped
<1> DEFINE text == SubSeq(doc, op.start + 1, op.end)
           tr == Trailing(how)
<1>3. text \in DOMAIN Rules /\ op.rule = Expanded[text]
  BY <1>2 DEF Possible, Find
<1>4. op.start < op.end
  <2>1. text # <<>>
    BY <1>3, ExpansionConstants
  <2> SUFFICES ASSUME op.start = op.end PROVE text = <<>>
    BY <1>2, <2>1
  <2>2. op.start + 1 > op.end /\ op.start + 1 \in Int /\ op.end \in Int /\ doc \in Seq(Char)
    BY <1>2 DEF TypeOK
  <2>3. text \in Seq(Char) /\ Len(text) = 0
    BY <2>2, SubSeqProperties
  <2> QED BY <2>3
<1> HIDE DEF text, tr
<1>5. /\ op.rule.text \in Seq(Char) /\ op.rule.stops \in Seq(0 .. Len(op.rule.text))
      /\ op.rule.cursor = AtEnd \/ op.rule.cursor \in 0 .. Len(op.rule.text)
  BY <1>3, ExpandedTyped
<1>6. Size(op) = Len(op.rule.text) /\ Size(op) \in Nat
  BY <1>5 DEF Size
<1>7. CaretOffset(op) \in 0 .. Size(op) + tr
  <2>1. tr \in {0, 1} /\ op.trailing = tr
    BY <1>2 DEF tr
  <2>2. op.rule.stops # <<>> => op.rule.stops[1] \in 0 .. Len(op.rule.text)
    BY <1>5
  <2> QED BY <1>5, <1>6, <2>1, <2>2 DEF CaretOffset
<1>8. op.end + tr <= Len(doc)
  BY <1>2 DEF tr
<1>9. Fits(op, tr)
  <2>1. op.rule.stops \in Seq(0 .. Size(op))
    BY <1>5, <1>6
  <2> QED BY <1>2, <1>4, <1>5, <1>6, <1>7, <1>8, <2>1 DEF Fits, tr
<1> QED BY <1>1, <1>2, <1>3, <1>9 DEF text, tr

\* A single replacement.
LEMMA ApplyReplacementTyped ==
  ASSUME TypeOK, NEW op, NEW tr \in {0, 1}, Fits(op, tr), ApplyReplacement(op),
         active' \in BOOLEAN, typed' \in Char \cup {NoChar}
  PROVE  TypeOK'
<1> DEFINE a == op.start
           b == op.end
           text == op.rule.text
           stops == op.rule.stops
           at == CaretOffset(op)
           n == Size(op)
           positions == [i \in DOMAIN stops |-> a + stops[i]]
<1>1. /\ doc \in Seq(Char) /\ Len(doc) \in Nat /\ n = Len(text) /\ n \in Nat
      /\ a \in Nat /\ b \in Nat /\ a < b /\ b + tr <= Len(doc)
      /\ text \in Seq(Char) /\ stops \in Seq(0 .. n) /\ at \in 0 .. n + tr
  <2>1. doc \in Seq(Char) /\ Len(doc) \in Nat
    BY DEF TypeOK
  <2> QED BY <2>1 DEF Fits, Size
<1>2. /\ doc' = Splice(doc, a, b, text)
      /\ carets' = <<a + at>> /\ main' = 1
      /\ \/ EndSession
         \/ /\ positions # <<>>
            /\ session' = [positions |-> positions, current |-> 1]
            /\ born' = [i \in DOMAIN doc' |-> i]
            /\ origin' = positions
  BY DEF ApplyReplacement
<1> HIDE DEF a, b, text, stops, at, n
<1>3. a \in 0 .. Len(doc) /\ b \in a .. Len(doc)
  BY <1>1
<1>4. doc' \in Seq(Char) /\ Len(doc') = a + n + (Len(doc) - b)
  <2>1. doc \in Seq(Char) /\ text \in Seq(Char)
    BY <1>1
  <2>2. Splice(doc, a, b, text) \in Seq(Char) /\ Len(Splice(doc, a, b, text)) = a + Len(text) + (Len(doc) - b)
    BY <1>3, <2>1, SpliceProperties
  <2> QED BY <1>1, <1>2, <2>2
<1>5. carets' \in Seq(0 .. Len(doc')) /\ main' \in DOMAIN carets'
  <2>1. a + at \in 0 .. Len(doc')
    BY <1>1, <1>4
  <2> QED BY <1>2, <2>1, Single
<1>6. CASE EndSession
  BY <1>4, <1>5, <1>6, Ended, TypedAll
<1>7. CASE /\ positions # <<>>
           /\ session' = [positions |-> positions, current |-> 1]
           /\ born' = [i \in DOMAIN doc' |-> i]
           /\ origin' = positions
  <2> DEFINE m == Len(stops)
  <2>1. m \in Nat /\ DOMAIN stops = 1 .. m /\ \A i \in 1 .. m : stops[i] \in 0 .. n
    BY <1>1
  <2>2. \A i \in 1 .. m : a + stops[i] \in 0 .. Len(doc')
    <3> HIDE DEF m, positions
    <3>1. \A x \in 0 .. n : a + x \in 0 .. Len(doc')
      <4>1. a + n <= Len(doc') /\ Len(doc') \in Nat
        BY <1>1, <1>4
      <4> QED BY <1>1, <4>1
    <3> QED BY <2>1, <3>1
  <2>3. positions \in [1 .. m -> Nat] /\ \A i \in DOMAIN positions : positions[i] <= Len(doc')
    <3>1. DOMAIN positions = 1 .. m /\ \A i \in 1 .. m : positions[i] = a + stops[i]
      BY <2>1
    <3>2. \A i \in 1 .. m : positions[i] \in Nat /\ positions[i] <= Len(doc')
      <4>1. \A x \in 0 .. Len(doc') : x \in Nat /\ x <= Len(doc')
        BY <1>4
      <4> HIDE DEF positions, m
      <4> QED BY <2>2, <3>1, <4>1
    <3>3. positions = [i \in 1 .. m |-> positions[i]]
      BY <3>1
    <3> HIDE DEF positions, m
    <3> QED BY <3>1, <3>2, <3>3
  <2> HIDE DEF m, positions
  <2>4. positions \in Seq(Nat)
    BY <2>1, <2>3, IsList
  <2>5. 1 \in DOMAIN positions
    BY <1>7, <2>4
  <2>6. SessionTyped'
    BY <1>7, <2>3, <2>4, <2>5 DEF SessionTyped, Session
  <2>7. born' \in Seq(Nat) /\ origin' \in Seq(Nat)
    <3>1. born' \in [1 .. Len(doc') -> Nat] /\ Len(doc') \in Nat
      BY <1>4, <1>7
    <3> QED BY <1>7, <2>4, <3>1, IsList
  <2> QED BY <1>4, <1>5, <2>6, <2>7, TypedAll
<1> QED BY <1>2, <1>6, <1>7

\* As many as there are, when each is one of them and each of them is one.
LEMMA SameNumber ==
  ASSUME NEW S, NEW T, IsFiniteSet(S), NEW f \in [S -> T],
         \A x, y \in S : f[x] = f[y] => x = y, \A z \in T : \E x \in S : f[x] = z
  PROVE  IsFiniteSet(T) /\ Cardinality(T) = Cardinality(S)
<1>1. f \in Bijection(S, T)
  BY DEF Bijection, Injection, Surjection, IsInjective
<1>2. ExistsBijection(S, T)
  BY <1>1 DEF ExistsBijection
<1> QED BY <1>2, FS_Bijection

(***************************************************************************)
(* Replacements at several carets.                                         *)
(***************************************************************************)
\* s has the replacements ops in it from the last to the first, n in number.
InTurn(s, ops, n) ==
  /\ s \in [1 .. n -> ops]
  /\ \A k, l \in 1 .. n : k < l => s[l].end <= s[k].start
  /\ \A k, l \in 1 .. n : s[k] = s[l] => k = l
  /\ \A op \in ops : \E k \in 1 .. n : s[k] = op

\* The running limit: every caret has a replacement, and what is left before it
\* is its size more than after it.
LEMMA LimitLeftIs ==
  ASSUME TypeOK, AfterTyped, NEW how, how = "manual" \/ typed # NoChar,
         LimitLeft(how)[Len(carets)] >= 0
  PROVE  \E left \in [0 .. Len(carets) -> Nat] :
           /\ left[0] = MaxExpanded
           /\ \A i \in 1 .. Len(carets) :
                /\ Possible(Operation(i, how)) /\ Size(Operation(i, how)) \in Nat
                /\ left[i] + Size(Operation(i, how)) = left[i - 1]
<1> DEFINE n == Len(carets)
           op(i) == Operation(i, how)
           After(x, i) == IF Possible(op(i)) /\ Size(op(i)) <= x THEN x - Size(op(i)) ELSE -1
           G == [z \in Int \X (1 .. n) |-> After(z[1], z[2])]
           Body(f) == [k \in 0 .. n |-> IF k = 0 THEN MaxExpanded ELSE After(f[k - 1], k)]
           left == CHOOSE f : f = Body(f)
<1>1. n \in Nat /\ DOMAIN carets = 1 .. n /\ MaxExpanded \in Nat
  BY ExpansionConstants DEF TypeOK
<1>2. ASSUME NEW i \in 1 .. n, Possible(op(i)) PROVE Size(op(i)) \in Nat
  <2>1. op(i) \in Operations(how)
    BY <1>1 DEF Operations
  <2> HIDE DEF op
  <2> QED BY <1>2, <2>1, PossibleFits DEF Fits
<1>3. LimitLeft(how) = left
  BY DEF LimitLeft
<1> HIDE DEF op, n, left
<1>4. \A x \in Int, i \in 1 .. n : After(x, i) \in Int
  BY <1>2
<1> HIDE DEF After
<1>5. PICK f \in [0 .. n -> Int] : f[0] = MaxExpanded /\ \A k \in 1 .. n : f[k] = G[<<f[k - 1], k>>]
  <2>1. G \in [Int \X (1 .. n) -> Int]
    BY <1>4
  <2> HIDE DEF G
  <2>2. MaxExpanded \in Int
    BY <1>1
  <2>3. \E f : Recursion(f, n, Int, MaxExpanded, G)
    BY <1>1, <2>1, <2>2, RecursionExists
  <2> QED BY <2>3 DEF Recursion
<1>6. f = Body(f)
  <2>1. \A k \in 1 .. n : f[k - 1] \in Int
    BY <1>1
  <2>2. \A k \in 1 .. n : f[k] = After(f[k - 1], k)
    BY <1>5, <2>1
  <2>3. f = [k \in 0 .. n |-> f[k]]
    OBVIOUS
  <2>4. \A k \in 0 .. n : f[k] = IF k = 0 THEN MaxExpanded ELSE After(f[k - 1], k)
    BY <1>1, <1>5, <2>2
  <2> HIDE DEF G
  <2> QED BY <2>3, <2>4
<1>7. left = Body(left)
  <2> HIDE DEF Body
  <2> QED BY <1>6 DEF left
<1>8. left[0] = MaxExpanded /\ \A k \in 1 .. n : left[k] = After(left[k - 1], k)
  <2>1. 0 \in 0 .. n /\ \A k \in 1 .. n : k \in 0 .. n /\ k # 0
    BY <1>1
  <2> QED BY <1>7, <2>1
<1> DEFINE Fitted(i) == /\ Possible(op(i)) /\ left[i - 1] \in Nat /\ left[i] \in Nat
                        /\ left[i] + Size(op(i)) = left[i - 1]
           T == {k \in 0 .. n : left[k] = -1 \/ (left[k] \in Nat /\ \A i \in 1 .. k : Fitted(i))}
<1>9. 0 \in T
  BY <1>1, <1>8
<1>10. ASSUME NEW k \in 1 .. n, k - 1 \in T PROVE k \in T
  <2>1. k \in 0 .. n /\ left[k] = After(left[k - 1], k)
    BY <1>1, <1>8
  <2>2. CASE left[k] = -1
    BY <2>1, <2>2
  <2>3. CASE left[k] # -1
    <3>1. Possible(op(k)) /\ Size(op(k)) <= left[k - 1] /\ left[k] = left[k - 1] - Size(op(k))
      BY <2>1, <2>3 DEF After
    <3>2. Size(op(k)) \in Nat
      BY <1>2, <3>1
    <3>3. left[k - 1] \in Nat /\ \A i \in 1 .. k - 1 : Fitted(i)
      BY <1>10, <3>1, <3>2
    <3>4. left[k] \in Nat /\ Fitted(k)
      <4> DEFINE z == Size(op(k))
                 x == left[k - 1]
      <4>1. z \in Nat /\ x \in Nat /\ z <= x /\ left[k] = x - z
        BY <3>1, <3>2, <3>3
      <4> HIDE DEF z, x
      <4>2. left[k] \in Nat /\ left[k] + z = x
        BY <4>1
      <4> QED BY <3>1, <3>3, <4>2 DEF z, x
    <3> HIDE DEF Fitted
    <3>5. \A i \in 1 .. k : i = k \/ i \in 1 .. k - 1
      OBVIOUS
    <3> QED BY <2>1, <3>3, <3>4, <3>5
  <2> QED BY <2>2, <2>3
<1> HIDE DEF T
<1>11. \A k \in 0 .. n : k \in T
  BY <1>1, <1>9, <1>10, IntervalInduction
<1>12. \A i \in 1 .. n : Fitted(i)
  <2>1. n \in T /\ left[n] # -1
    BY <1>1, <1>3, <1>11 DEF n
  <2> HIDE DEF Fitted
  <2> QED BY <2>1 DEF T
<1>13. left \in [0 .. n -> Nat]
  <2>1. left = [k \in 0 .. n |-> left[k]]
    BY <1>7
  <2>2. \A k \in 0 .. n : k = 0 \/ k \in 1 .. n
    BY <1>1
  <2>3. \A k \in 0 .. n : left[k] \in Nat
    BY <1>1, <1>8, <1>12, <2>2
  <2> QED BY <2>1, <2>3
<1>14. \A i \in 1 .. n : Possible(op(i)) /\ Size(op(i)) \in Nat /\ left[i] + Size(op(i)) = left[i - 1]
  BY <1>2, <1>12
<1> QED BY <1>8, <1>13, <1>14 DEF n, op

\* So each of the replacements is possible.
LEMMA EachIsPossible ==
  ASSUME TypeOK, AfterTyped, NEW how, how = "manual" \/ typed # NoChar, AllPossible(how)
  PROVE  \A op \in Operations(how) : Possible(op)
<1>1. PICK left \in [0 .. Len(carets) -> Nat] :
        \A i \in 1 .. Len(carets) : Possible(Operation(i, how))
  BY LimitLeftIs DEF AllPossible
<1>2. DOMAIN carets = 1 .. Len(carets)
  BY DEF TypeOK
<1> QED BY <1>1, <1>2 DEF Operations

\* Replacements sorted by where they begin, none of which reaches into the next:
\* there is one for each caret, and they do not overlap.
LEMMA BackwardsIsInTurn ==
  ASSUME TypeOK, AfterTyped, NEW how, how = "manual" \/ typed # NoChar, AllPossible(how)
  PROVE  /\ IsFiniteSet(Operations(how)) /\ Cardinality(Operations(how)) = Len(carets)
         /\ InTurn(Backwards(Operations(how)), Operations(how), Len(carets))
<1> DEFINE ops == Operations(how)
           n == Len(carets)
           N == Len(doc) + 1
           m == n + 1
           key == [op \in ops |-> (N - op.start) * m + op.caret]
           tr == Trailing(how)
<1>1. n \in Nat /\ DOMAIN carets = 1 .. n /\ N \in Nat /\ Len(doc) \in Nat
  BY DEF TypeOK
<1>2. \A op \in ops : tr \in {0, 1} /\ Fits(op, tr) /\ op.caret \in 1 .. n /\ op = Operation(op.caret, how)
  <2>1. \A op \in ops : Possible(op)
    BY EachIsPossible
  <2> QED BY <1>1, <2>1, PossibleFits
<1>3. \A op \in ops : op.start \in Nat /\ op.end \in Nat /\ op.start < op.end /\ op.end <= Len(doc)
  <2> TAKE op \in ops
  <2>1. tr \in {0, 1} /\ op.start \in Nat /\ op.end \in Nat /\ op.start < op.end /\ op.end + tr <= Len(doc)
    BY <1>2 DEF Fits
  <2> HIDE DEF tr, ops
  <2> QED BY <1>1, <2>1
<1>5. IsFiniteSet(ops) /\ Cardinality(ops) = n
  <2> DEFINE f == [i \in 1 .. n |-> Operation(i, how)]
  <2>1. f \in [1 .. n -> ops] /\ \A op \in ops : \E i \in 1 .. n : f[i] = op
    BY <1>1 DEF Operations
  <2>2. \A i \in 1 .. n : f[i].caret = i
    BY <1>1, OperationTyped
  <2>3. IsFiniteSet(1 .. n) /\ Cardinality(1 .. n) = n
    <3>1. 1 \in Int /\ n \in Int
      BY <1>1
    <3> HIDE DEF n
    <3>2. IsFiniteSet(1 .. n) /\ Cardinality(1 .. n) = IF 1 > n THEN 0 ELSE n - 1 + 1
      BY <3>1, FS_Interval
    <3> QED BY <1>1, <3>2
  <2> HIDE DEF f, ops, n
  <2>4. \A i, j \in 1 .. n : f[i] = f[j] => i = j
    BY <2>2
  <2> QED BY <2>1, <2>3, <2>4, SameNumber
<1>4. \A a, b \in ops : a.caret = b.caret => a = b
  <2> HIDE DEF ops
  <2> QED BY <1>2
<1>6. \A k \in 2 .. n : Backwards(ops)[k].end <= Backwards(ops)[k - 1].start
  BY <1>5 DEF AllPossible, Apart
<1> HIDE DEF ops, n, tr
<1>12. m \in Nat /\ m = n + 1
  BY <1>1
<1> HIDE DEF N, m
\* A key that grows as the beginnings descend, and tells the carets apart.
<1>13. ASSUME NEW a \in ops, NEW b \in ops, a.start < b.start PROVE key[b] < key[a]
  <2> DEFINE x == N - a.start
             y == N - b.start
  <2>1. x \in Nat /\ y \in Nat /\ y + 1 <= x
    BY <1>1, <1>3, <1>13 DEF N
  <2>2. (y + 1) * m <= x * m /\ (y + 1) * m = y * m + m /\ y * m \in Nat /\ x * m \in Nat
    <3> HIDE DEF x, y
    <3>1. y + 1 \in Nat
      BY <2>1
    <3>2. (y + 1) * m <= x * m /\ x * m \in Nat
      BY <1>12, <2>1, <3>1, ProductGrows
    <3>3. y * m \in Nat
      BY <1>12, <2>1, ProductGrows
    <3>4. (y + 1) * m = y * m + m
      BY <1>12, <2>1
    <3> QED BY <3>2, <3>3, <3>4
  <2>3. key[a] = x * m + a.caret /\ key[b] = y * m + b.caret /\ a.caret \in 1 .. n /\ b.caret \in 1 .. n
    BY <1>2
  <2> DEFINE xm == x * m
             ym == y * m
  <2>4. xm \in Nat /\ ym \in Nat /\ ym + m <= xm /\ key[a] = xm + a.caret /\ key[b] = ym + b.caret
    BY <2>2, <2>3
  <2> HIDE DEF key, xm, ym, x, y
  <2> QED BY <1>1, <1>12, <2>3, <2>4
<1>14. \A a, b \in ops : key[a] = key[b] => a = b
  <2> SUFFICES ASSUME NEW a \in ops, NEW b \in ops, key[a] = key[b] PROVE a = b
    OBVIOUS
  <2>1. \A c \in ops : key[c] \in Int
    <3> TAKE c \in ops
    <3>1. N - c.start \in Nat /\ c.caret \in Nat
      BY <1>1, <1>2, <1>3 DEF N
    <3>2. (N - c.start) * m \in Nat
      BY <1>12, <3>1, ProductGrows
    <3> QED BY <3>1, <3>2
  <2>2. a.start = b.start
    <3>1. ~(a.start < b.start) /\ ~(b.start < a.start)
      <4> HIDE DEF key
      <4> QED BY <1>13, <2>1
    <3> QED BY <1>3, <3>1
  <2>3. a.caret = b.caret
    <3> DEFINE z == (N - a.start) * m
    <3>1. z \in Nat
      <4>1. N - a.start \in Nat
        BY <1>1, <1>3 DEF N
      <4> QED BY <1>12, <4>1, ProductGrows
    <3>2. key[a] = z + a.caret /\ key[b] = z + b.caret
      BY <2>2
    <3>3. a.caret \in Nat /\ b.caret \in Nat
      BY <1>1, <1>2
    <3>4. key[a] = key[b]
      OBVIOUS
    <3> HIDE DEF key, z
    <3>5. z + a.caret = z + b.caret
      BY <3>2, <3>4
    <3> QED BY <3>1, <3>3, <3>5
  <2> QED BY <1>4, <2>3
<1> DEFINE M == N * m + n
<1>15. M \in Nat /\ key \in [ops -> 1 .. M]
  <2>1. N * m \in Nat
    BY <1>1, <1>12, ProductGrows
  <2>2. ASSUME NEW op \in ops PROVE key[op] \in 1 .. M
    <3>1. N - op.start \in Nat /\ N - op.start <= N
      BY <1>1, <1>3 DEF N
    <3> DEFINE z == (N - op.start) * m
    <3>2. z \in Nat /\ z <= N * m
      BY <1>1, <1>12, <3>1, ProductGrows
    <3>3. key[op] = z + op.caret /\ op.caret \in 1 .. n
      BY <1>2
    <3> DEFINE w == N * m
    <3>4. w \in Nat /\ z <= w /\ M = w + n
      BY <2>1, <3>2
    <3> HIDE DEF key, z, w, M
    <3> QED BY <1>1, <3>2, <3>3, <3>4
  <2>3. M \in Nat
    BY <1>1, <2>1
  <2> HIDE DEF M
  <2>4. key = [op \in ops |-> key[op]]
    OBVIOUS
  <2> HIDE DEF key
  <2> QED BY <2>2, <2>3, <2>4
<1> DEFINE Descends(s) == \A k, l \in DOMAIN s : k < l => s[k] # s[l] /\ s[k].start >= s[l].start
<1>7. \E s \in [1 .. n -> ops] : Descends(s)
  <2>1. PICK s : s \in [1 .. n -> ops] /\ \A i, j \in 1 .. n : i < j => key[s[i]] < key[s[j]]
    <3> HIDE DEF key, M
    <3>1. \E s : /\ s \in [1 .. Cardinality(ops) -> ops]
                 /\ \A i, j \in 1 .. Cardinality(ops) : i < j => key[s[i]] < key[s[j]]
      BY <1>14, <1>15, SortedExists
    <3> QED BY <1>5, <3>1
  <2>2. ASSUME NEW k \in 1 .. n, NEW l \in 1 .. n, k < l PROVE s[k] # s[l] /\ s[k].start >= s[l].start
    <3> HIDE DEF key, M
    <3>1. key[s[k]] < key[s[l]] /\ key[s[k]] \in Int /\ key[s[l]] \in Int /\ s[k] \in ops /\ s[l] \in ops
      BY <1>15, <2>1, <2>2
    <3>2. s[k].start \in Nat /\ s[l].start \in Nat
      BY <1>3, <3>1
    <3>3. ~(s[k].start < s[l].start)
      BY <1>13, <3>1
    <3>4. s[k] # s[l]
      BY <3>1
    <3> QED BY <3>2, <3>3, <3>4
  <2> QED BY <2>1, <2>2
<1> DEFINE s == Backwards(ops)
<1>8. s \in [1 .. n -> ops] /\ Descends(s)
  <2>1. s = CHOOSE t \in [1 .. n -> ops] : Descends(t)
    BY <1>5 DEF Backwards
  <2> HIDE DEF Descends, s
  <2> QED BY <1>7, <2>1
<1> HIDE DEF s, key
<1>9. ASSUME NEW k \in 1 .. n, NEW l \in 1 .. n, k < l PROVE s[l].end <= s[k].start
  <2>1. l \in 2 .. n /\ l - 1 \in 1 .. n /\ k <= l - 1
    BY <1>1, <1>9
  <2>2. s[l].end <= s[l - 1].start
    BY <1>6, <2>1 DEF s
  <2>3. s[k] \in ops /\ s[l] \in ops /\ s[l - 1] \in ops
    BY <1>8, <2>1
  <2>4. s[l].end \in Nat /\ s[l - 1].start \in Nat /\ s[k].start \in Nat
    BY <1>3, <2>3
  <2>5. s[k].start >= s[l - 1].start
    <3>1. CASE k = l - 1
      BY <2>4, <3>1
    <3>2. CASE k < l - 1
      BY <1>8, <2>1, <3>2
    <3> QED BY <1>1, <2>1, <3>1, <3>2
  <2> QED BY <2>2, <2>4, <2>5
<1>10. ASSUME NEW k \in 1 .. n, NEW l \in 1 .. n, s[k] = s[l] PROVE k = l
  <2>1. ~(k < l) /\ ~(l < k)
    BY <1>8, <1>10
  <2> QED BY <2>1, <1>1
<1>11. \A op \in ops : \E k \in 1 .. n : s[k] = op
  <2>1. /\ s \in [1 .. Cardinality(ops) -> ops]
        /\ \A k, l \in 1 .. Cardinality(ops) : s[k] = s[l] => k = l
    BY <1>5, <1>8, <1>10
  <2>2. \A op \in ops : \E k \in 1 .. Cardinality(ops) : s[k] = op
    BY <1>5, <2>1, EnumerationIsOnto
  <2> QED BY <1>5, <2>2
<1> QED BY <1>5, <1>8, <1>9, <1>10, <1>11 DEF InTurn, s, ops, n

(***************************************************************************)
(* By how many characters replacements change the length, in all.          *)
(***************************************************************************)
GainOf(op) == Size(op) - (op.end - op.start)
Gain(S) == MapThenSumSet(LAMBDA op : Size(op) - (op.end - op.start), S)

AnyOf(R) == CHOOSE x \in R : TRUE

\* g has the sum of h over each part of U, one element after the other.
Sums(g, h, U) ==
  /\ g \in [SUBSET U -> Int]
  /\ g[{}] = 0
  /\ \A R \in SUBSET U : R # {} => g[R] = h[AnyOf(R)] + g[R \ {AnyOf(R)}]

\* AnyOf is one of them.
LEMMA AnyElement ==
  ASSUME NEW R, R # {}
  PROVE  AnyOf(R) \in R
BY DEF AnyOf

\* It does not matter which is the first.
LEMMA SumsAdd ==
  ASSUME NEW U, IsFiniteSet(U), NEW h \in [U -> Int], NEW g, Sums(g, h, U),
         NEW S \in SUBSET U, NEW y \in S
  PROVE  g[S] = h[y] + g[S \ {y}]
<1> DEFINE Good(R) == \A x \in R : g[R] = h[x] + g[R \ {x}]
           T == {n \in Nat : \A R \in SUBSET U : Cardinality(R) = n => Good(R)}
<1>1. \A R \in SUBSET U : IsFiniteSet(R) /\ Cardinality(R) \in Nat
  BY FS_Subset, FS_CardinalityType
<1>2. 0 \in T
  <2>1. \A R \in SUBSET U : Cardinality(R) = 0 => R = {}
    BY <1>1, FS_EmptySet
  <2> QED BY <2>1
<1>3. ASSUME NEW n \in Nat, n \in T PROVE n + 1 \in T
  <2> SUFFICES ASSUME NEW R \in SUBSET U, Cardinality(R) = n + 1, NEW x \in R
               PROVE  g[R] = h[x] + g[R \ {x}]
    OBVIOUS
  <2> DEFINE c == AnyOf(R)
  <2>1. c \in R /\ R # {}
    BY AnyElement
  <2>2. g[R] = h[c] + g[R \ {c}]
    BY <2>1 DEF Sums
  <2> HIDE DEF c
  <2>3. CASE x = c
    BY <2>2, <2>3
  <2>4. CASE x # c
    <3>1. Cardinality(R \ {c}) = n /\ Cardinality(R \ {x}) = n
      BY <1>1, <2>1, FS_RemoveElement
    <3> DEFINE A == R \ {c}
               B == R \ {x}
               Q == (R \ {c}) \ {x}
    <3>2. A \in SUBSET U /\ B \in SUBSET U /\ Q \in SUBSET U /\ x \in A /\ c \in B /\ A \ {x} = Q /\ B \ {c} = Q
      BY <2>1, <2>4
    <3>3. Good(A) /\ Good(B)
      BY <1>3, <3>1, <3>2
    <3> HIDE DEF A, B, Q
    <3>4. g[A] = h[x] + g[Q] /\ g[B] = h[c] + g[Q]
      BY <3>2, <3>3
    <3>5. g[Q] \in Int /\ h[x] \in Int /\ h[c] \in Int
      BY <2>1, <3>2 DEF Sums
    <3>6. g[R] = h[c] + g[A] /\ g[R \ {x}] = g[B]
      BY <2>2 DEF A, B
    <3> QED BY <3>4, <3>5, <3>6
  <2> QED BY <2>3, <2>4
<1> HIDE DEF T
<1>4. Cardinality(S) \in T
  BY <1>1, <1>2, <1>3, SetInduction
<1> QED BY <1>4 DEF T

\* Nor does it matter of what the set is a part.
LEMMA SumsAgree ==
  ASSUME NEW U, NEW V, IsFiniteSet(U), NEW h \in [U -> Int], NEW k \in [V -> Int],
         NEW f, Sums(f, h, U), NEW g, Sums(g, k, V),
         NEW S \in SUBSET (U \cap V), \A x \in S : h[x] = k[x]
  PROVE  f[S] = g[S]
<1> DEFINE T == {n \in Nat : \A R \in SUBSET S : Cardinality(R) = n => f[R] = g[R]}
<1>1. \A R \in SUBSET S : IsFiniteSet(R) /\ Cardinality(R) \in Nat
  <2>1. \A R \in SUBSET S : R \in SUBSET U
    OBVIOUS
  <2> QED BY <2>1, FS_Subset, FS_CardinalityType
<1>2. 0 \in T
  <2>1. \A R \in SUBSET S : Cardinality(R) = 0 => R = {}
    BY <1>1, FS_EmptySet
  <2> QED BY <2>1 DEF Sums
<1>3. ASSUME NEW n \in Nat, n \in T PROVE n + 1 \in T
  <2> SUFFICES ASSUME NEW R \in SUBSET S, Cardinality(R) = n + 1 PROVE f[R] = g[R]
    OBVIOUS
  <2>1. R # {} /\ R \in SUBSET U /\ R \in SUBSET V
    <3>1. Cardinality(R) # 0
      OBVIOUS
    <3> QED BY <3>1, FS_EmptySet
  <2> DEFINE c == AnyOf(R)
             Q == R \ {c}
  <2>2. c \in R
    BY <2>1, AnyElement
  <2>3. f[R] = h[c] + f[Q] /\ g[R] = k[c] + g[Q]
    BY <2>1 DEF Sums
  <2> HIDE DEF c
  <2>4. Cardinality(Q) = n
    <3>1. IsFiniteSet(R)
      BY <1>1
    <3>2. Cardinality(Q) = Cardinality(R) - 1
      BY <2>2, <3>1, FS_RemoveElement
    <3> QED BY <3>2
  <2>5. Q \in SUBSET S /\ h[c] = k[c]
    BY <2>2
  <2>6. f[Q] = g[Q]
    BY <1>3, <2>4, <2>5
  <2> QED BY <2>3, <2>5, <2>6
<1> HIDE DEF T
<1>4. Cardinality(S) \in T
  BY <1>1, <1>2, <1>3, SetInduction
<1> QED BY <1>4 DEF T

\* A function that is the sum of h over each part of S.
Totals(f, h, S) ==
  f = [R \in SUBSET S |-> IF R = {} THEN 0 ELSE h[AnyOf(R)] + f[R \ {AnyOf(R)}]]

\* There is one ...
LEMMA TotalsExist ==
  ASSUME NEW S, IsFiniteSet(S), NEW h \in [S -> Int]
  PROVE  \E f : Totals(f, h, S)
<1> DEFINE D == SUBSET S
           add == [R \in D |-> IF R = {} THEN 0 ELSE h[AnyOf(R)]]
           next == [R \in D |-> R \ {AnyOf(R)}]
           K == Cardinality(S)
           rank == [R \in D |-> Cardinality(R)]
<1>1. \A R \in D : IsFiniteSet(R) /\ Cardinality(R) \in 0 .. K
  <2> TAKE R \in D
  <2>1. IsFiniteSet(R) /\ Cardinality(R) <= K
    BY FS_Subset
  <2>2. Cardinality(R) \in Nat /\ K \in Nat
    BY <2>1, FS_CardinalityType
  <2> QED BY <2>1, <2>2
<1>2. K \in Nat /\ rank \in [D -> 0 .. K]
  BY <1>1, FS_CardinalityType
<1>3. \A R \in D : R # {} => AnyOf(R) \in R /\ AnyOf(R) \in S
  BY AnyElement
<1>4. add \in [D -> Int]
  BY <1>3
<1>5. \A R \in D \ {{}} : next[R] \in D /\ rank[next[R]] < rank[R]
  <2> TAKE R \in D \ {{}}
  <2>1. next[R] = R \ {AnyOf(R)} /\ next[R] \in D
    OBVIOUS
  <2>2. Cardinality(R \ {AnyOf(R)}) = Cardinality(R) - 1
    BY <1>1, <1>3, FS_RemoveElement
  <2>3. rank[next[R]] = Cardinality(R) - 1 /\ rank[R] = Cardinality(R) /\ Cardinality(R) \in Nat
    BY <1>1, <2>1, <2>2
  <2> QED BY <2>3
<1>6. PICK f : IsSum(f, D, {{}}, add, next)
  <2>1. \E f : IsSum(f, D, {{}}, add, next)
    <3> HIDE DEF D, add, next, K, rank
    <3> QED BY <1>2, <1>4, <1>5, SumExists
  <2> QED BY <2>1
<1>7. /\ f \in [D -> Int]
      /\ \A R \in D : f[R] = IF R = {} THEN 0 ELSE h[AnyOf(R)] + f[R \ {AnyOf(R)}]
  BY <1>6 DEF IsSum
<1>8. Totals(f, h, S)
  BY <1>7 DEF Totals
<1> QED BY <1>8

\* ... and it is one of Sums.
LEMMA TotalsAreSums ==
  ASSUME NEW S, IsFiniteSet(S), NEW h \in [S -> Int], NEW total, Totals(total, h, S)
  PROVE  Sums(total, h, S)
<1> DEFINE D == SUBSET S
<1>1. \A R \in D : IsFiniteSet(R) /\ Cardinality(R) \in Nat
  BY FS_Subset, FS_CardinalityType
<1>2. \A R \in D : R # {} => AnyOf(R) \in R /\ AnyOf(R) \in S
  BY AnyElement
<1>3. \A R \in D : total[R] = IF R = {} THEN 0 ELSE h[AnyOf(R)] + total[R \ {AnyOf(R)}]
  BY DEF Totals
<1>4. \A R \in D : total[R] \in Int
  <2> DEFINE T == {n \in Nat : \A R \in D : Cardinality(R) = n => total[R] \in Int}
  <2>1. 0 \in T
    <3>1. \A R \in D : Cardinality(R) = 0 => R = {}
      BY <1>1, FS_EmptySet
    <3>2. total[{}] = 0
      BY <1>3
    <3> QED BY <3>1, <3>2
  <2>2. ASSUME NEW n \in Nat, n \in T PROVE n + 1 \in T
    <3> SUFFICES ASSUME NEW R \in D, Cardinality(R) = n + 1 PROVE total[R] \in Int
      OBVIOUS
    <3>1. R # {}
      <4>1. Cardinality(R) # 0
        OBVIOUS
      <4> QED BY <4>1, FS_EmptySet
    <3>2. Cardinality(R \ {AnyOf(R)}) = n /\ R \ {AnyOf(R)} \in D
      <4>1. IsFiniteSet(R) /\ AnyOf(R) \in R
        BY <1>1, <1>2, <3>1
      <4>2. Cardinality(R \ {AnyOf(R)}) = Cardinality(R) - 1
        BY <4>1, FS_RemoveElement
      <4> QED BY <4>2
    <3>3. total[R \ {AnyOf(R)}] \in Int
      BY <2>2, <3>2
    <3>4. h[AnyOf(R)] \in Int
      BY <1>2, <3>1
    <3> QED BY <1>3, <3>1, <3>3, <3>4
  <2> HIDE DEF T
  <2>3. \A n \in Nat : n \in T
    BY <2>1, <2>2, SetInduction
  <2> QED BY <1>1, <2>3 DEF T
<1>5. total \in [SUBSET S -> Int]
  <2>1. total = [R \in D |-> total[R]]
    BY DEF Totals
  <2> HIDE DEF D
  <2>2. total \in [D -> Int]
    BY <1>4, <2>1
  <2> QED BY <2>2 DEF D
<1>6. total[{}] = 0 /\ \A R \in SUBSET S : R # {} => total[R] = h[AnyOf(R)] + total[R \ {AnyOf(R)}]
  BY <1>3
<1> QED BY <1>5, <1>6 DEF Sums

\* That is what the operator of the community modules is for: of gains ...
LEMMA GainIsSum ==
  ASSUME NEW S, IsFiniteSet(S), \A op \in S : GainOf(op) \in Int
  PROVE  \E g : Sums(g, [op \in S |-> GainOf(op)], S) /\ Gain(S) = g[S]
<1> DEFINE h == [op \in S |-> GainOf(op)]
           Body(g) == [R \in SUBSET S |-> IF R = {} THEN 0
                                          ELSE GainOf(AnyOf(R)) + g[R \ {AnyOf(R)}]]
           gain == CHOOSE g : g = Body(g)
<1>1. h \in [S -> Int] /\ \A R \in SUBSET S : R # {} => h[AnyOf(R)] = GainOf(AnyOf(R))
  BY AnyElement
<1>2. Gain(S) = gain[S]
  BY DEF Gain, MapThenSumSet, MapThenFoldSet, GainOf, AnyOf
<1> HIDE DEF h
<1>3. PICK f : Totals(f, h, S)
  BY <1>1, TotalsExist
<1>4. f = Body(f)
  BY <1>1, <1>3 DEF Totals
<1>5. gain = Body(gain)
  <2> HIDE DEF Body
  <2> QED BY <1>4
<1> HIDE DEF gain
<1>6. Totals(gain, h, S)
  BY <1>1, <1>5 DEF Totals
<1> QED BY <1>1, <1>2, <1>6, TotalsAreSums DEF h

\* ... and of sizes.
LEMMA SizeIsSum ==
  ASSUME NEW S, IsFiniteSet(S), \A op \in S : Size(op) \in Int
  PROVE  \E g : Sums(g, [op \in S |-> Size(op)], S) /\ MapThenSumSet(Size, S) = g[S]
<1> DEFINE h == [op \in S |-> Size(op)]
           Body(g) == [R \in SUBSET S |-> IF R = {} THEN 0 ELSE Size(AnyOf(R)) + g[R \ {AnyOf(R)}]]
           total == CHOOSE g : g = Body(g)
<1>1. h \in [S -> Int] /\ \A R \in SUBSET S : R # {} => h[AnyOf(R)] = Size(AnyOf(R))
  BY AnyElement
<1>2. MapThenSumSet(Size, S) = total[S]
  BY DEF MapThenSumSet, MapThenFoldSet, AnyOf
<1> HIDE DEF h
<1>3. PICK f : Totals(f, h, S)
  BY <1>1, TotalsExist
<1>4. f = Body(f)
  BY <1>1, <1>3 DEF Totals
<1>5. total = Body(total)
  <2> HIDE DEF Body
  <2> QED BY <1>4
<1> HIDE DEF total
<1>6. Totals(total, h, S)
  BY <1>1, <1>5 DEF Totals
<1> QED BY <1>1, <1>2, <1>6, TotalsAreSums DEF h

\* The running limit is a limit on all of them together.
LEMMA TogetherWithin ==
  ASSUME TypeOK, AfterTyped, NEW how, how = "manual" \/ typed # NoChar, AllPossible(how)
  PROVE  MapThenSumSet(Size, Operations(how)) <= MaxExpanded
<1> DEFINE n == Len(carets)
           ops == Operations(how)
           op(i) == Operation(i, how)
           First(k) == {op(i) : i \in 1 .. k}
           h == [o \in ops |-> Size(o)]
<1>1. n \in Nat /\ DOMAIN carets = 1 .. n /\ ops = First(n) /\ \A i \in 1 .. n : op(i) \in ops
  <2>1. n \in Nat /\ DOMAIN carets = 1 .. n
    BY DEF TypeOK
  <2>2. ops = {op(i) : i \in DOMAIN carets}
    BY DEF Operations
  <2> HIDE DEF n, ops, op
  <2> QED BY <2>1, <2>2
<1>2. PICK left \in [0 .. n -> Nat] :
        /\ left[0] = MaxExpanded
        /\ \A i \in 1 .. n : Size(op(i)) \in Nat /\ left[i] + Size(op(i)) = left[i - 1]
  BY LimitLeftIs DEF AllPossible
<1>3. IsFiniteSet(ops)
  BY BackwardsIsInTurn
<1>4. \A i \in 1 .. n : op(i).caret = i
  BY <1>1, OperationTyped
<1>5. \A o \in ops : Size(o) \in Int
  BY <1>1, <1>2
<1>6. PICK g : Sums(g, h, ops) /\ MapThenSumSet(Size, ops) = g[ops]
  BY <1>3, <1>5, SizeIsSum
<1>7. h \in [ops -> Int] /\ \A i \in 1 .. n : h[op(i)] = Size(op(i))
  BY <1>1, <1>5
<1> HIDE DEF n, ops, op, h
<1> DEFINE T == {k \in 0 .. n : g[First(k)] \in Int /\ g[First(k)] + left[k] = MaxExpanded}
<1>8. MaxExpanded \in Nat
  BY ExpansionConstants
<1>9. 0 \in T
  <2>1. First(0) = {}
    OBVIOUS
  <2>2. g[{}] = 0
    BY <1>6 DEF Sums
  <2> HIDE DEF First
  <2>3. g[First(0)] = 0
    BY <2>1, <2>2
  <2>4. left[0] = MaxExpanded
    BY <1>2
  <2>5. 0 \in 0 .. n
    BY <1>1
  <2> QED BY <1>8, <2>3, <2>4, <2>5
<1>10. ASSUME NEW k \in 1 .. n, k - 1 \in T PROVE k \in T
  <2>1. op(k) \in First(k) /\ First(k) \in SUBSET ops
    BY <1>1
  <2>2. First(k) \ {op(k)} = First(k - 1)
    <3>1. ASSUME NEW x \in First(k), x # op(k) PROVE x \in First(k - 1)
      <4>1. PICK i \in 1 .. k : x = op(i)
        OBVIOUS
      <4>2. i \in 1 .. k - 1
        BY <3>1, <4>1
      <4> QED BY <4>1, <4>2
    <3>2. ASSUME NEW x \in First(k - 1) PROVE x \in First(k) /\ x # op(k)
      <4>1. PICK i \in 1 .. k - 1 : x = op(i)
        OBVIOUS
      <4>2. i \in 1 .. k /\ i \in 1 .. n /\ i # k
        BY <1>1
      <4>3. op(i).caret = i /\ op(k).caret = k
        BY <1>4, <4>2
      <4>4. op(i) # op(k)
        BY <4>2, <4>3
      <4> QED BY <4>1, <4>2, <4>4
    <3> HIDE DEF First
    <3> QED BY <3>1, <3>2
  <2> HIDE DEF First
  <2>3. g[First(k)] = h[op(k)] + g[First(k) \ {op(k)}]
    BY <1>3, <1>6, <1>7, <2>1, SumsAdd
  <2> DEFINE z == Size(op(k))
             y == g[First(k - 1)]
  <2>4. g[First(k)] = z + y /\ z \in Nat
    BY <1>2, <1>7, <2>2, <2>3
  <2>5. y \in Int /\ y + left[k - 1] = MaxExpanded
    BY <1>10
  <2>6. left[k] + z = left[k - 1] /\ left[k] \in Nat /\ left[k - 1] \in Nat /\ k \in 0 .. n
    BY <1>1, <1>2
  <2> HIDE DEF z, y
  <2> QED BY <2>4, <2>5, <2>6
<1> HIDE DEF T
<1>11. n \in T
  <2>1. \A k \in 0 .. n : k \in T
    BY <1>1, <1>9, <1>10, IntervalInduction
  <2> QED BY <1>1, <2>1
<1>12. g[ops] \in Int /\ g[ops] + left[n] = MaxExpanded /\ left[n] \in Nat
  BY <1>1, <1>2, <1>11 DEF T
<1> DEFINE total == g[ops]
<1>13. total <= MaxExpanded
  <2>1. total \in Int /\ total + left[n] = MaxExpanded
    BY <1>12
  <2> HIDE DEF total
  <2> QED BY <1>8, <1>12, <2>1
<1> QED BY <1>6, <1>13 DEF ops

\* So one replacement can be taken out of the sum.
LEMMA GainAdds ==
  ASSUME NEW S, IsFiniteSet(S), \A op \in S : GainOf(op) \in Int
  PROVE  /\ Gain(S) \in Int
         /\ S = {} => Gain(S) = 0
         /\ \A x \in S : Gain(S) = GainOf(x) + Gain(S \ {x})
<1> DEFINE h == [op \in S |-> GainOf(op)]
<1>1. PICK g : Sums(g, h, S) /\ Gain(S) = g[S]
  BY GainIsSum
<1>2. Gain(S) \in Int /\ (S = {} => Gain(S) = 0)
  BY <1>1 DEF Sums
<1>3. ASSUME NEW x \in S PROVE Gain(S) = GainOf(x) + Gain(S \ {x})
  <2> DEFINE R == S \ {x}
             k == [op \in R |-> GainOf(op)]
  <2>1. R \in SUBSET S /\ IsFiniteSet(R) /\ \A op \in R : GainOf(op) \in Int
    BY FS_Subset
  <2>2. PICK f : Sums(f, k, R) /\ Gain(R) = f[R]
    BY <2>1, GainIsSum
  <2>3. h \in [S -> Int] /\ k \in [R -> Int] /\ \A op \in R : k[op] = h[op]
    BY <2>1
  <2>4. g[S] = h[x] + g[S \ {x}]
    <3> HIDE DEF h
    <3>1. S \in SUBSET S
      OBVIOUS
    <3> QED BY <1>1, <2>3, <3>1, SumsAdd
  <2>5. f[R] = g[R]
    <3>1. R \in SUBSET (R \cap S)
      BY <2>1
    <3> HIDE DEF h, k, R
    <3> QED BY <1>1, <2>1, <2>2, <2>3, <3>1, SumsAgree
  <2> QED BY <1>1, <2>2, <2>4, <2>5
<1> QED BY <1>2, <1>3

\* What replaceMultipleSelections knows of the replacements when it begins.
Planned(s, ops, n, tr) ==
  /\ n \in Nat /\ tr \in {0, 1}
  /\ InTurn(s, ops, n)
  /\ \A op \in ops : Fits(op, tr) /\ op.caret \in 1 .. n

\* How far the first k replacements move what is after p.
Moved(s, k, p) == Gain({op \in {s[j] : j \in 1 .. k} : op.end <= p})

\* The k-th replacement in its turn.
LEMMA PlannedIs ==
  ASSUME TypeOK, NEW s, NEW ops, NEW n, NEW tr, Planned(s, ops, n, tr), NEW k \in 1 .. n
  PROVE  /\ s[k] \in ops
         /\ s[k].start \in Nat /\ s[k].end \in Nat /\ s[k].start < s[k].end
         /\ s[k].end + tr <= Len(doc) /\ s[k].end <= Len(doc)
         /\ Size(s[k]) \in Nat /\ GainOf(s[k]) \in Int
         /\ \A j \in 1 .. k - 1 : j \in 1 .. n /\ s[k].end <= s[j].start
<1>1. s[k] \in ops /\ n \in Nat /\ tr \in {0, 1} /\ Len(doc) \in Nat
  BY DEF Planned, InTurn, TypeOK
<1>2. /\ s[k].start \in Nat /\ s[k].end \in Nat /\ s[k].start < s[k].end
      /\ s[k].end + tr <= Len(doc) /\ Size(s[k]) \in Nat
  BY <1>1 DEF Planned, Fits
<1>3. s[k].end <= Len(doc) /\ GainOf(s[k]) \in Int
  BY <1>1, <1>2 DEF GainOf
<1>4. \A j \in 1 .. k - 1 : j \in 1 .. n /\ j < k
  BY <1>1
<1>5. \A j \in 1 .. k - 1 : s[k].end <= s[j].start
  BY <1>4 DEF Planned, InTurn
<1> QED BY <1>1, <1>2, <1>3, <1>4, <1>5

\* Each replacement adds its gain to what is after it.
LEMMA MovedGrows ==
  ASSUME TypeOK, NEW s, NEW ops, NEW n, NEW tr, Planned(s, ops, n, tr), NEW p \in Int
  PROVE  /\ Moved(s, 0, p) = 0
         /\ \A k \in 0 .. n : Moved(s, k, p) \in Int
         /\ \A k \in 1 .. n :
              Moved(s, k, p) = Moved(s, k - 1, p) + IF s[k].end <= p THEN GainOf(s[k]) ELSE 0
<1> DEFINE Upto(k) == {op \in {s[j] : j \in 1 .. k} : op.end <= p}
<1>1. n \in Nat /\ \A k, l \in 1 .. n : s[k] = s[l] => k = l
  BY DEF Planned, InTurn
<1>2. \A k : Moved(s, k, p) = Gain(Upto(k))
  BY DEF Moved
<1>3. \A k \in 1 .. n : GainOf(s[k]) \in Int
  BY PlannedIs
<1>4. ASSUME NEW k \in 0 .. n PROVE IsFiniteSet(Upto(k)) /\ \A op \in Upto(k) : GainOf(op) \in Int
  <2>1. Upto(k) \subseteq {s[j] : j \in 1 .. k} /\ \A j \in 1 .. k : j \in 1 .. n
    BY <1>1
  <2>2. IsFiniteSet({s[j] : j \in 1 .. k})
    <3>1. 1 \in Int /\ k \in Int
      OBVIOUS
    <3>2. IsFiniteSet(1 .. k)
      BY <3>1, FS_Interval
    <3> DEFINE f == [j \in 1 .. k |-> s[j]]
    <3>3. f \in Surjection(1 .. k, {s[j] : j \in 1 .. k})
      BY DEF Surjection
    <3> HIDE DEF f
    <3> QED BY <3>2, <3>3, FS_Surjection
  <2>3. IsFiniteSet(Upto(k))
    BY <2>1, <2>2, FS_Subset
  <2> QED BY <1>3, <2>1, <2>3
<1>5. Moved(s, 0, p) = 0
  <2>1. Upto(0) = {} /\ 0 \in 0 .. n
    BY <1>1
  <2> QED BY <1>2, <1>4, <2>1, GainAdds
<1>6. \A k \in 0 .. n : Moved(s, k, p) \in Int
  <2> HIDE DEF Upto
  <2> QED BY <1>2, <1>4, GainAdds
<1>7. ASSUME NEW k \in 1 .. n
      PROVE  Moved(s, k, p) = Moved(s, k - 1, p) + IF s[k].end <= p THEN GainOf(s[k]) ELSE 0
  <2>1. k \in 0 .. n /\ k - 1 \in 0 .. n /\ \A j \in 1 .. k : j = k \/ j \in 1 .. k - 1
    BY <1>1
  <2>2. \A j \in 1 .. k - 1 : j \in 1 .. k /\ j \in 1 .. n /\ j # k
    BY <1>1
  <2>3. s[k] \notin {s[j] : j \in 1 .. k - 1}
    BY <1>1, <2>2
  <2>4. Moved(s, k - 1, p) \in Int
    BY <1>6, <2>1
  <2>5. CASE s[k].end <= p
    <3>1. s[k] \in Upto(k) /\ Upto(k) \ {s[k]} = Upto(k - 1)
      <4>1. k \in 1 .. k
        OBVIOUS
      <4>2. {s[j] : j \in 1 .. k} = {s[j] : j \in 1 .. k - 1} \cup {s[k]}
        BY <2>1, <2>2, <4>1
      <4> QED BY <2>3, <2>5, <4>2
    <3> HIDE DEF Upto
    <3>2. Gain(Upto(k)) = GainOf(s[k]) + Gain(Upto(k) \ {s[k]})
      BY <1>4, <2>1, <3>1, GainAdds
    <3> DEFINE x == Gain(Upto(k))
               y == Gain(Upto(k - 1))
               z == GainOf(s[k])
    <3>3. x = z + y /\ y \in Int /\ z \in Int
      BY <1>2, <1>3, <2>4, <3>1, <3>2
    <3>4. Moved(s, k, p) = x /\ Moved(s, k - 1, p) = y
      BY <1>2
    <3> HIDE DEF x, y, z
    <3>5. x = y + z
      BY <3>3
    <3> QED BY <2>5, <3>4, <3>5 DEF z
  <2>6. CASE ~(s[k].end <= p)
    <3>1. Upto(k) = Upto(k - 1)
      <4>1. {s[j] : j \in 1 .. k} = {s[j] : j \in 1 .. k - 1} \cup {s[k]}
        <5>1. k \in 1 .. k
          OBVIOUS
        <5> QED BY <2>1, <2>2, <5>1
      <4> QED BY <2>6, <4>1
    <3> HIDE DEF Upto
    <3> QED BY <1>2, <2>4, <2>6, <3>1
  <2> QED BY <2>5, <2>6
<1> QED BY <1>5, <1>6, <1>7

\* Nothing before a trigger is moved by those behind it.
LEMMA MovedBehind ==
  ASSUME TypeOK, NEW s, NEW ops, NEW n, NEW tr, Planned(s, ops, n, tr), NEW p \in Int,
         NEW k \in 1 .. n, p < s[k].end
  PROVE  Moved(s, k - 1, p) = 0 /\ Moved(s, k, p) = 0
<1> DEFINE U == {op \in {s[j] : j \in 1 .. k - 1} : op.end <= p}
<1>1. U = {}
  <2> SUFFICES ASSUME NEW j \in 1 .. k - 1, s[j].end <= p PROVE FALSE
    OBVIOUS
  <2>1. j \in 1 .. n /\ s[k].end <= s[j].start /\ s[k].end \in Nat
    BY PlannedIs
  <2>2. s[j].start \in Nat /\ s[j].end \in Nat /\ s[j].start < s[j].end
    BY <2>1, PlannedIs
  <2> QED BY <2>1, <2>2
<1>2. Moved(s, k - 1, p) = 0
  <2>1. IsFiniteSet(U) /\ \A op \in U : GainOf(op) \in Int
    BY <1>1, FS_EmptySet
  <2>2. Gain(U) = 0
    BY <1>1, <2>1, GainAdds
  <2> QED BY <2>2 DEF Moved
<1>3. Moved(s, k, p) = Moved(s, k - 1, p) + IF s[k].end <= p THEN GainOf(s[k]) ELSE 0
  BY MovedGrows
<1>4. ~(s[k].end <= p)
  <2>1. s[k].end \in Nat
    BY PlannedIs
  <2> QED BY <2>1
<1> QED BY <1>2, <1>3, <1>4

\* What is behind r, and the triggers too, stays behind it.
LEMMA MovedReach ==
  ASSUME TypeOK, NEW s, NEW ops, NEW n, NEW tr, Planned(s, ops, n, tr)
  PROVE  \A k \in 0 .. n : \A p, r \in Nat :
           r <= p /\ (\A j \in 1 .. k : r <= s[j].start) => p + Moved(s, k, p) >= r
<1> DEFINE Good(k) == \A p, r \in Nat :
                        r <= p /\ (\A j \in 1 .. k : r <= s[j].start) => p + Moved(s, k, p) >= r
           T == {k \in 0 .. n : Good(k)}
<1>1. n \in Nat
  BY DEF Planned
<1>2. 0 \in T
  <2>1. \A p \in Nat : Moved(s, 0, p) = 0
    BY MovedGrows
  <2> QED BY <1>1, <2>1
<1>3. ASSUME NEW k \in 1 .. n, k - 1 \in T PROVE k \in T
  <2>1. k \in 0 .. n /\ k - 1 \in 0 .. n /\ k \in 1 .. k
    BY <1>1
  <2> SUFFICES ASSUME NEW p \in Nat, NEW r \in Nat, r <= p, \A j \in 1 .. k : r <= s[j].start
               PROVE  p + Moved(s, k, p) >= r
    BY <2>1
  <2> DEFINE b == s[k].end
             a == s[k].start
             m == Size(s[k])
             x == Moved(s, k - 1, p)
             y == Moved(s, k, p)
  <2>2. a \in Nat /\ b \in Nat /\ a < b /\ m \in Nat /\ GainOf(s[k]) = m - (b - a)
    BY PlannedIs DEF GainOf
  <2>3. x \in Int /\ y \in Int /\ y = x + IF b <= p THEN GainOf(s[k]) ELSE 0
    BY <2>1, MovedGrows
  <2>4. r <= a
    BY <2>1
  <2>5. CASE b <= p
    <3>1. \A j \in 1 .. k - 1 : b <= s[j].start
      BY PlannedIs
    <3>2. p + x >= b
      <4>1. Good(k - 1)
        BY <1>3
      <4> HIDE DEF x
      <4> QED BY <2>2, <2>5, <3>1, <4>1 DEF x
    <3> HIDE DEF a, b, m, x, y
    <3> QED BY <2>2, <2>3, <2>4, <2>5, <3>2 DEF y
  <2>6. CASE ~(b <= p)
    <3>1. p < b
      BY <2>2, <2>6
    <3>2. y = 0
      BY <3>1, MovedBehind
    <3> QED BY <3>2
  <2> QED BY <2>5, <2>6
<1> HIDE DEF T
<1>4. \A k \in 0 .. n : k \in T
  BY <1>1, <1>2, <1>3, IntervalInduction
<1> QED BY <1>4 DEF T

\* Where the replacement of the j-th begins when k have been made.
Begin(s, k, j) == s[j].start + Moved(s, k, s[j].start)

Place(n) == [caret : 1 .. n, at : Nat]

\* What there is when k replacements have been made: each is where its trigger
\* was and its caret where its rule wants it, and everything else is unchanged.
Turned(D, s, n, tr, k) ==
  /\ D.doc \in Seq(Char) /\ Len(D.doc) = Len(doc) + Moved(s, k, Len(doc))
  /\ D.placed \in Seq(Place(n)) /\ Len(D.placed) = k
  /\ \A j \in 1 .. k :
       /\ D.placed[j].caret = s[j].caret
       /\ D.placed[j].at = Begin(s, k, j) + CaretOffset(s[j])
       /\ Begin(s, k, j) \in Nat /\ Begin(s, k, j) + Size(s[j]) + tr <= Len(D.doc)
       /\ \A x \in 1 .. Size(s[j]) : D.doc[Begin(s, k, j) + x] = s[j].rule.text[x]
  /\ \A i \in 1 .. Len(doc) :
       (\A j \in 1 .. k : i \notin s[j].start + 1 .. s[j].end) =>
         /\ i + Moved(s, k, i - 1) \in 1 .. Len(D.doc)
         /\ D.doc[i + Moved(s, k, i - 1)] = doc[i]

\* Before the first turn.
LEMMA NoneTurned ==
  ASSUME TypeOK, NEW s, NEW ops, NEW n, NEW tr, Planned(s, ops, n, tr)
  PROVE  Turned([doc |-> doc, placed |-> <<>>], s, n, tr, 0)
<1>1. doc \in Seq(Char) /\ Len(doc) \in Nat
  BY DEF TypeOK
<1>2. \A p \in Int : Moved(s, 0, p) = 0
  BY MovedGrows
<1>3. <<>> \in Seq(Place(n)) /\ Len(<<>>) = 0
  OBVIOUS
<1>4. \A j \in 1 .. 0 : FALSE
  OBVIOUS
<1>5. \A i \in 1 .. Len(doc) : i + Moved(s, 0, i - 1) = i /\ i - 1 \in Int
  BY <1>1, <1>2
<1>6. Len(doc) = Len(doc) + Moved(s, 0, Len(doc))
  BY <1>1, <1>2
<1> DEFINE D == [doc |-> doc, placed |-> <<>>]
<1>7. D.doc = doc /\ D.placed = <<>>
  OBVIOUS
<1> HIDE DEF D
<1>8. Turned(D, s, n, tr, 0)
  BY <1>1, <1>3, <1>4, <1>5, <1>6, <1>7 DEF Turned
<1> QED BY <1>8 DEF D

\* Before a turn: the trigger is where it was, and all that has been done is
\* behind it.
LEMMA BeforeTurn ==
  ASSUME TypeOK, NEW s, NEW ops, NEW n, NEW tr, Planned(s, ops, n, tr),
         NEW k \in 1 .. n, NEW D, Turned(D, s, n, tr, k - 1)
  PROVE  /\ s[k].end + tr <= Len(D.doc)
         /\ \A p \in Nat : s[k].end <= p => p + Moved(s, k - 1, p) >= s[k].end
         /\ \A j \in 1 .. k - 1 : Begin(s, k - 1, j) >= s[k].end
<1> DEFINE b == s[k].end
<1>1. b \in Nat /\ b + tr <= Len(doc) /\ Len(doc) \in Nat /\ tr \in {0, 1} /\ k - 1 \in 0 .. n
  <2>1. n \in Nat /\ tr \in {0, 1} /\ Len(doc) \in Nat
    BY DEF Planned, TypeOK
  <2>2. b \in Nat /\ b + tr <= Len(doc)
    BY PlannedIs
  <2>3. k - 1 \in 0 .. n
    BY <2>1
  <2> QED BY <2>1, <2>2, <2>3
<1>2. \A j \in 1 .. k - 1 : b <= s[j].start /\ j \in 1 .. n
  BY PlannedIs
<1>3. \A p \in Nat : b <= p => p + Moved(s, k - 1, p) >= b
  <2> HIDE DEF b
  <2> QED BY <1>1, <1>2, MovedReach
<1>4. \A j \in 1 .. k - 1 : Begin(s, k - 1, j) >= b
  <2> TAKE j \in 1 .. k - 1
  <2>1. s[j].start \in Nat /\ b <= s[j].start
    BY <1>2, PlannedIs
  <2> QED BY <1>3, <2>1 DEF Begin
<1>5. b + tr <= Len(D.doc)
  <2> DEFINE p == Len(doc) - tr
  <2>1. p \in Nat /\ b <= p /\ p <= Len(doc)
    BY <1>1
  <2>2. Moved(s, k - 1, p) = Moved(s, k - 1, Len(doc))
    <3>1. \A j \in 1 .. k - 1 : s[j].end + tr <= Len(doc) /\ s[j].end \in Nat
      BY <1>2, PlannedIs
    <3>2. \A j \in 1 .. k - 1 : s[j].end <= p <=> s[j].end <= Len(doc)
      BY <1>1, <3>1
    <3> HIDE DEF p
    <3>3. {op \in {s[j] : j \in 1 .. k - 1} : op.end <= p} =
          {op \in {s[j] : j \in 1 .. k - 1} : op.end <= Len(doc)}
      BY <3>2
    <3> QED BY <3>3 DEF Moved
  <2>3. p + Moved(s, k - 1, p) >= b
    BY <1>3, <2>1
  <2>4. Len(D.doc) = Len(doc) + Moved(s, k - 1, Len(doc)) /\ Moved(s, k - 1, Len(doc)) \in Int
    BY <1>1, MovedGrows DEF Turned
  <2>5. Len(D.doc) = p + tr + Moved(s, k - 1, p) /\ Moved(s, k - 1, p) \in Int
    BY <1>1, <2>1, <2>2, <2>4
  <2> HIDE DEF p
  <2> QED BY <1>1, <2>1, <2>3, <2>5
<1> QED BY <1>3, <1>4, <1>5

\* c is d with s in the place of what was between a and b.
Spliced(c, d, a, b, s, S) ==
  /\ c \in Seq(S)
  /\ Len(c) = a + Len(s) + (Len(d) - b)
  /\ \A x \in 1 .. a + Len(s) + (Len(d) - b) :
       c[x] = IF x <= a THEN d[x] ELSE IF x <= a + Len(s) THEN s[x - a] ELSE d[x - a - Len(s) + b]

\* SpliceProperties, of a text with a name.
LEMMA SpliceIs ==
  ASSUME NEW S, NEW d \in Seq(S), NEW s \in Seq(S), NEW a \in 0 .. Len(d), NEW b \in a .. Len(d)
  PROVE  Spliced(Splice(d, a, b, s), d, a, b, s, S)
<1> DEFINE c == Splice(d, a, b, s)
<1>1. c \in Seq(S) /\ Len(c) = a + Len(s) + (Len(d) - b)
  BY SpliceProperties
<1>2. \A i \in 1 .. a + Len(s) + (Len(d) - b) :
        c[i] = IF i <= a THEN d[i] ELSE IF i <= a + Len(s) THEN s[i - a] ELSE d[i - a - Len(s) + b]
  BY SpliceProperties
<1> HIDE DEF c
<1>3. Spliced(c, d, a, b, s, S)
  BY <1>1, <1>2 DEF Spliced
<1> QED BY <1>3 DEF c

\* One turn.
LEMMA ATurn ==
  ASSUME TypeOK, NEW s, NEW ops, NEW n, NEW tr, Planned(s, ops, n, tr),
         NEW k \in 1 .. n, NEW D, Turned(D, s, n, tr, k - 1)
  PROVE  Turned(ApplyOne(D, s[k]), s, n, tr, k)
<1> DEFINE op == s[k]
           a == op.start
           b == op.end
           m == Size(op)
           g == GainOf(op)
           text == op.rule.text
           L == Len(D.doc)
           E == ApplyOne(D, op)
           Moves(c) == IF c.at >= b THEN [c EXCEPT !.at = @ + g] ELSE c
           kept == [i \in DOMAIN D.placed |-> Moves(D.placed[i])]
           new == [caret |-> op.caret, at |-> a + CaretOffset(op)]
<1>1. /\ a \in Nat /\ b \in Nat /\ a < b /\ m \in Nat /\ g = m - (b - a)
      /\ op.caret \in 1 .. n /\ text \in Seq(Char) /\ m = Len(text)
      /\ CaretOffset(op) \in 0 .. m + tr /\ tr \in {0, 1}
      /\ b <= Len(doc) /\ Len(doc) \in Nat /\ n \in Nat
  <2>1. op \in ops /\ a \in Nat /\ b \in Nat /\ a < b /\ m \in Nat /\ b <= Len(doc)
    BY PlannedIs
  <2>2. g = m - (b - a) /\ m = Len(text)
    BY DEF GainOf, Size
  <2> HIDE DEF op, g, m
  <2>3. Fits(op, tr) /\ op.caret \in 1 .. n /\ n \in Nat /\ tr \in {0, 1}
    BY <2>1 DEF Planned
  <2>4. text \in Seq(Char) /\ CaretOffset(op) \in 0 .. m + tr
    BY <2>3 DEF Fits, m
  <2>5. doc \in Seq(Char)
    BY DEF TypeOK
  <2> QED BY <2>1, <2>2, <2>3, <2>4, <2>5
<1>2. /\ E.doc = Splice(D.doc, a, b, text)
      /\ E.placed = Append(kept, new)
  BY DEF ApplyOne, GainOf
<1>3. /\ b + tr <= L /\ D.doc \in Seq(Char) /\ L \in Nat
      /\ L = Len(doc) + Moved(s, k - 1, Len(doc))
      /\ D.placed \in Seq(Place(n)) /\ Len(D.placed) = k - 1
  <2>1. b + tr <= L
    BY BeforeTurn
  <2>2. /\ D.doc \in Seq(Char) /\ L = Len(doc) + Moved(s, k - 1, Len(doc))
        /\ D.placed \in Seq(Place(n)) /\ Len(D.placed) = k - 1
    BY DEF Turned
  <2>3. L \in Nat
    BY <2>2
  <2> QED BY <2>1, <2>2, <2>3
<1>4. /\ \A p \in Nat : b <= p => p + Moved(s, k - 1, p) >= b
      /\ \A j \in 1 .. k - 1 : Begin(s, k - 1, j) >= b
  BY BeforeTurn
<1>5. \A p \in Int : /\ Moved(s, k - 1, p) \in Int /\ Moved(s, k, p) \in Int
                     /\ b <= p => Moved(s, k, p) = Moved(s, k - 1, p) + g
                     /\ p < b => Moved(s, k, p) = 0 /\ Moved(s, k - 1, p) = 0
  <2> TAKE p \in Int
  <2>1. k - 1 \in 0 .. n /\ k \in 0 .. n
    BY <1>1
  <2>2. Moved(s, k - 1, p) \in Int /\ Moved(s, k, p) \in Int
    BY <2>1, MovedGrows
  <2>3. Moved(s, k, p) = Moved(s, k - 1, p) + IF b <= p THEN g ELSE 0
    BY MovedGrows
  <2>4. p < b => Moved(s, k, p) = 0 /\ Moved(s, k - 1, p) = 0
    BY MovedBehind
  <2> QED BY <2>2, <2>3, <2>4
<1>6. \A j \in 1 .. k - 1 :
        /\ D.placed[j] \in Place(n) /\ D.placed[j].caret = s[j].caret
        /\ D.placed[j].at = Begin(s, k - 1, j) + CaretOffset(s[j])
        /\ Begin(s, k - 1, j) \in Nat /\ Begin(s, k - 1, j) + Size(s[j]) + tr <= L
        /\ CaretOffset(s[j]) \in Nat /\ Size(s[j]) \in Nat
        /\ \A x \in 1 .. Size(s[j]) : D.doc[Begin(s, k - 1, j) + x] = s[j].rule.text[x]
        /\ Begin(s, k, j) = Begin(s, k - 1, j) + g
  <2> TAKE j \in 1 .. k - 1
  <2>1. j \in 1 .. n /\ b <= s[j].start /\ s[j].start \in Nat /\ s[j] \in ops /\ Size(s[j]) \in Nat
    <3>1. j \in 1 .. n /\ b <= s[j].start
      BY PlannedIs
    <3> QED BY <3>1, PlannedIs
  <2>2. CaretOffset(s[j]) \in Nat
    <3>1. CaretOffset(s[j]) \in 0 .. Size(s[j]) + tr
      BY <2>1 DEF Planned, Fits
    <3> QED BY <1>1, <2>1, <3>1
  <2>3. Begin(s, k, j) = Begin(s, k - 1, j) + g
    <3> HIDE DEF g, b
    <3>1. /\ Moved(s, k, s[j].start) = Moved(s, k - 1, s[j].start) + g
          /\ Moved(s, k - 1, s[j].start) \in Int
      BY <1>5, <2>1
    <3>2. g \in Int
      BY <1>1
    <3> QED BY <2>1, <3>1, <3>2 DEF Begin
  <2>4. D.placed[j] \in Place(n)
    BY <1>3
  <2> QED BY <2>1, <2>2, <2>3, <2>4 DEF Turned
<1>7. Begin(s, k, k) = a
  <2>1. Moved(s, k, a) = 0
    <3> HIDE DEF a, b, g
    <3> QED BY <1>1, <1>5
  <2> QED BY <1>1, <2>1 DEF Begin
<1>8. g \in Int /\ b + g = a + m
  <2> HIDE DEF a, b, m, g
  <2> QED BY <1>1
<1> HIDE DEF op, a, b, m, g, text, L, E, Moves, kept, new
<1>0. /\ a \in Nat /\ b \in Nat /\ m \in Nat /\ L \in Nat /\ g \in Int /\ tr \in {0, 1}
      /\ a < b /\ b + tr <= L /\ b + g = a + m
  BY <1>1, <1>3, <1>8
<1>9. /\ E.doc \in Seq(Char) /\ Len(E.doc) = L + g
      /\ \A x \in 1 .. L + g : E.doc[x] = IF x <= a THEN D.doc[x] ELSE IF x <= a + m THEN text[x - a]
                                          ELSE D.doc[x - g]
  <2>1. D.doc \in Seq(Char) /\ text \in Seq(Char) /\ a \in 0 .. Len(D.doc) /\ b \in a .. Len(D.doc)
    BY <1>1, <1>3 DEF L
  <2> DEFINE c == Splice(D.doc, a, b, text)
  <2>2. /\ c \in Seq(Char)
        /\ Len(c) = a + Len(text) + (Len(D.doc) - b)
        /\ \A x \in 1 .. a + Len(text) + (Len(D.doc) - b) :
              c[x] = IF x <= a THEN D.doc[x] ELSE IF x <= a + Len(text) THEN text[x - a]
                     ELSE D.doc[x - a - Len(text) + b]
    <3>1. Spliced(c, D.doc, a, b, text, Char)
      BY <2>1, SpliceIs
    <3> HIDE DEF c
    <3> QED BY <3>1 DEF Spliced
  <2> HIDE DEF c
  <2>3. a + Len(text) + (Len(D.doc) - b) = L + g /\ a + Len(text) = a + m
    BY <1>1, <1>3, <1>8 DEF L
  <2>4. \A x \in 1 .. L + g : x - a - Len(text) + b = x - g
    BY <1>1, <1>3, <1>8
  <2>5. E.doc = c
    BY <1>2 DEF c
  <2>6. ASSUME NEW x \in 1 .. L + g
        PROVE  E.doc[x] = IF x <= a THEN D.doc[x] ELSE IF x <= a + m THEN text[x - a] ELSE D.doc[x - g]
    <3>1. /\ x \in 1 .. a + Len(text) + (Len(D.doc) - b)
          /\ x - a - Len(text) + b = x - g
      BY <2>3, <2>4
    <3>2. c[x] = IF x <= a THEN D.doc[x] ELSE IF x <= a + Len(text) THEN text[x - a]
                 ELSE D.doc[x - a - Len(text) + b]
      BY <2>2, <3>1
    <3> QED BY <2>3, <2>5, <3>1, <3>2
  <2> QED BY <2>2, <2>3, <2>5, <2>6
<1>18. /\ \A x \in 1 .. a : E.doc[x] = D.doc[x]
       /\ \A x \in 1 .. m : E.doc[a + x] = text[x]
       /\ \A x \in b + 1 .. L : E.doc[x + g] = D.doc[x]
  <2>1. ASSUME NEW x \in 1 .. a PROVE E.doc[x] = D.doc[x]
    <3>1. x \in 1 .. L + g /\ x <= a
      BY <1>1, <1>3, <1>8
    <3> QED BY <1>9, <3>1
  <2>2. ASSUME NEW x \in 1 .. m PROVE E.doc[a + x] = text[x]
    <3>1. PICK y \in Int : y = a + x
      BY <1>1
    <3>2. y \in 1 .. L + g /\ ~(y <= a) /\ y <= a + m /\ y - a = x
      BY <1>1, <1>3, <1>8, <3>1
    <3> QED BY <1>9, <3>1, <3>2
  <2>3. ASSUME NEW x \in b + 1 .. L PROVE E.doc[x + g] = D.doc[x]
    <3>1. PICK y \in Int : y = x + g
      BY <1>0
    <3>2. y \in 1 .. L + g /\ ~(y <= a) /\ ~(y <= a + m) /\ y - g = x
      BY <1>0, <3>1
    <3> QED BY <1>9, <3>1, <3>2
  <2> QED BY <2>1, <2>2, <2>3
<1>10. Len(E.doc) = Len(doc) + Moved(s, k, Len(doc))
  <2>1. Moved(s, k, Len(doc)) = Moved(s, k - 1, Len(doc)) + g /\ Moved(s, k - 1, Len(doc)) \in Int
    BY <1>1, <1>5
  <2> QED BY <1>1, <1>3, <1>8, <1>9, <2>1
<1>11. ASSUME NEW j \in 1 .. k - 1
       PROVE  Moves(D.placed[j]) = [caret |-> s[j].caret, at |-> Begin(s, k, j) + CaretOffset(s[j])]
              /\ Moves(D.placed[j]) \in Place(n)
  <2> DEFINE c == D.placed[j]
             u == Begin(s, k - 1, j)
             off == CaretOffset(s[j])
  <2>1. c \in Place(n) /\ c.caret = s[j].caret /\ c.at = u + off /\ u \in Nat /\ off \in Nat
        /\ u >= b /\ Begin(s, k, j) = u + g
    BY <1>4, <1>6
  <2> HIDE DEF c, u, off
  <2>2. c.at >= b /\ c.at + g \in Nat /\ c.at + g = Begin(s, k, j) + off
    <3>1. PICK v \in Nat : v = c.at
      BY <2>1 DEF Place
    <3>2. v = u + off /\ v >= b
      BY <1>1, <2>1, <3>1
    <3>3. v + g \in Nat /\ v + g = (u + g) + off
      BY <1>1, <1>8, <2>1, <3>2
    <3> QED BY <2>1, <3>1, <3>2, <3>3
  <2>3. Moves(c) = [c EXCEPT !.at = c.at + g]
    BY <2>2 DEF Moves
  <2>4. c = [caret |-> c.caret, at |-> c.at] /\ c.caret \in 1 .. n
    BY <2>1 DEF Place
  <2>5. Moves(c) = [caret |-> s[j].caret, at |-> Begin(s, k, j) + off] /\ s[j].caret \in 1 .. n
    BY <2>1, <2>2, <2>3, <2>4
  <2>6. Moves(c) \in Place(n)
    BY <2>2, <2>5 DEF Place
  <2> QED BY <2>5, <2>6 DEF c, off
<1>12. kept \in Seq(Place(n)) /\ Len(kept) = k - 1 /\ \A j \in 1 .. k - 1 : kept[j] = Moves(D.placed[j])
  <2>1. DOMAIN D.placed = 1 .. k - 1 /\ k - 1 \in Nat
    BY <1>1, <1>3
  <2>2. kept = [i \in 1 .. k - 1 |-> Moves(D.placed[i])]
    BY <2>1 DEF kept
  <2>3. kept \in [1 .. k - 1 -> Place(n)]
    BY <1>11, <2>2
  <2> QED BY <2>1, <2>2, <2>3, IsList
<1>13. new \in Place(n) /\ new.caret = op.caret /\ new.at = a + CaretOffset(op)
  <2>1. a + CaretOffset(op) \in Nat
    BY <1>1
  <2> QED BY <1>1, <2>1 DEF new, Place
<1>14. /\ E.placed \in Seq(Place(n)) /\ Len(E.placed) = k
       /\ \A j \in 1 .. k - 1 : E.placed[j] = Moves(D.placed[j])
       /\ E.placed[k] = new
  <2>1. /\ Append(kept, new) \in Seq(Place(n)) /\ Len(Append(kept, new)) = Len(kept) + 1
        /\ \A i \in 1 .. Len(kept) : Append(kept, new)[i] = kept[i]
        /\ Append(kept, new)[Len(kept) + 1] = new
    BY <1>12, <1>13, AppendProperties
  <2>2. Len(kept) + 1 = k
    BY <1>1, <1>12
  <2> QED BY <1>2, <1>12, <2>1, <2>2
<1>15. ASSUME NEW j \in 1 .. k
       PROVE  /\ E.placed[j].caret = s[j].caret
              /\ E.placed[j].at = Begin(s, k, j) + CaretOffset(s[j])
              /\ Begin(s, k, j) \in Nat /\ Begin(s, k, j) + Size(s[j]) + tr <= Len(E.doc)
              /\ \A x \in 1 .. Size(s[j]) : E.doc[Begin(s, k, j) + x] = s[j].rule.text[x]
  <2>1. CASE j = k
    <3>1. E.placed[j].caret = s[j].caret /\ E.placed[j].at = Begin(s, k, j) + CaretOffset(s[j])
      BY <1>7, <1>13, <1>14, <2>1 DEF op
    <3>2. Begin(s, k, j) = a /\ Size(s[j]) = m /\ s[j].rule.text = text
      BY <1>7, <2>1 DEF m, op, text
    <3>3. a + m + tr <= Len(E.doc)
      BY <1>1, <1>3, <1>8, <1>9
    <3> QED BY <1>1, <1>18, <3>1, <3>2, <3>3
  <2>2. CASE j # k
    <3>0. j \in 1 .. k - 1
      BY <1>1, <2>2
    <3> DEFINE u == Begin(s, k - 1, j)
               z == Size(s[j])
    <3>1. E.placed[j].caret = s[j].caret /\ E.placed[j].at = Begin(s, k, j) + CaretOffset(s[j])
      <4>1. E.placed[j] = Moves(D.placed[j])
        BY <1>14, <3>0
      <4>2. Moves(D.placed[j]) = [caret |-> s[j].caret, at |-> Begin(s, k, j) + CaretOffset(s[j])]
        BY <1>11, <3>0
      <4> QED BY <4>1, <4>2
    <3>2. /\ u \in Nat /\ u >= b /\ z \in Nat /\ u + z + tr <= L /\ Begin(s, k, j) = u + g
          /\ \A x \in 1 .. z : D.doc[u + x] = s[j].rule.text[x]
      BY <1>4, <1>6, <3>0
    <3> HIDE DEF u
    <3> HIDE DEF z
    <3>3. u + g \in Nat /\ u + g + z + tr <= Len(E.doc)
      <4>1. Len(E.doc) = L + g
        BY <1>9
      <4>2. u \in Nat /\ u >= b /\ z \in Nat /\ u + z + tr <= L
        BY <3>2
      <4>3. u + g \in Nat /\ u + g + z + tr <= L + g
        BY <1>0, <4>2
      <4> QED BY <4>1, <4>3
    <3>4. \A x \in 1 .. z : E.doc[u + g + x] = D.doc[u + x]
      <4> TAKE x \in 1 .. z
      <4>1. PICK v \in Int : v = u + x
        BY <3>2
      <4>2. v \in b + 1 .. L /\ u + g + x = v + g
        BY <1>0, <3>2, <4>1
      <4> QED BY <1>18, <4>1, <4>2
    <3> QED BY <3>1, <3>2, <3>3, <3>4 DEF z
  <2> QED BY <2>1, <2>2
<1>16. ASSUME NEW i \in 1 .. Len(doc), \A j \in 1 .. k : i \notin s[j].start + 1 .. s[j].end
       PROVE  /\ i + Moved(s, k, i - 1) \in 1 .. Len(E.doc)
              /\ E.doc[i + Moved(s, k, i - 1)] = doc[i]
  <2>1. i - 1 \in Nat /\ i \in Nat /\ i - 1 \in Int
    BY <1>1
  <2>2. \A j \in 1 .. k - 1 : i \notin s[j].start + 1 .. s[j].end
    <3>1. \A j \in 1 .. k - 1 : j \in 1 .. k
      BY <1>1
    <3> QED BY <1>16, <3>1
  <2> DEFINE x == Moved(s, k - 1, i - 1)
             y == Moved(s, k, i - 1)
  <2>3. i + x \in 1 .. L /\ D.doc[i + x] = doc[i]
    BY <2>2 DEF Turned, L
  <2> HIDE DEF x, y
  <2>4. i <= a \/ i > b
    <3>1. i \notin a + 1 .. b
      <4>1. k \in 1 .. k
        BY <1>1
      <4> QED BY <1>16, <4>1 DEF a, b, op
    <3> QED BY <1>1, <2>1, <3>1
  <2>5. x \in Int /\ y \in Int
    BY <1>5, <2>1 DEF x, y
  <2>6. CASE i <= a
    <3>1. x = 0 /\ y = 0
      <4>1. i - 1 < b
        BY <1>1, <2>1, <2>6
      <4> QED BY <1>5, <2>1, <4>1 DEF x, y
    <3>2. i \in 1 .. L + g /\ i + y = i /\ i + x = i
      BY <1>1, <1>3, <1>8, <2>1, <2>6, <3>1
    <3>3. E.doc[i] = D.doc[i]
      <4>1. i \in 1 .. a
        BY <1>1, <2>1, <2>6
      <4> QED BY <1>18, <4>1
    <3> QED BY <1>9, <2>3, <3>2, <3>3 DEF x, y
  <2>7. CASE i > b
    <3>1. b <= i - 1
      BY <1>1, <2>1, <2>7
    <3>2. y = x + g /\ i - 1 + x >= b
      BY <1>4, <1>5, <2>1, <3>1 DEF x, y
    <3>3. PICK v \in Int : v = i + x
      BY <2>1, <2>5
    <3>4. v \in b + 1 .. L /\ i + y = v + g /\ v + g \in 1 .. L + g
      <4>1. v \in 1 .. L /\ v - 1 >= b
        BY <2>1, <2>3, <2>5, <3>2, <3>3
      <4>2. b + 1 <= v /\ v <= L /\ v + g <= L + g /\ v + g >= 1
        BY <1>0, <3>3, <4>1
      <4>3. i + y = v + g
        BY <1>0, <2>1, <2>5, <3>2, <3>3
      <4> QED BY <1>0, <3>3, <4>2, <4>3
    <3>5. E.doc[i + y] = D.doc[i + x]
      BY <1>18, <3>3, <3>4
    <3> QED BY <1>9, <2>3, <3>4, <3>5 DEF x, y
  <2> QED BY <2>4, <2>6, <2>7
<1>17. Turned(E, s, n, tr, k)
  BY <1>9, <1>10, <1>14, <1>15, <1>16 DEF Turned
<1> QED BY <1>17 DEF E, op

\* What ApplyAll makes of the document and of the carets.
AllDone(ops) ==
  LET done[n \in 0 .. Cardinality(ops)] ==
        IF n = 0 THEN [doc |-> doc, placed |-> <<>>]
        ELSE ApplyOne(done[n - 1], Backwards(ops)[n])
  IN done[Cardinality(ops)]

\* After the last turn: ApplyAll has made all replacements.
LEMMA AllTurned ==
  ASSUME TypeOK, NEW ops, NEW n, NEW tr, Planned(Backwards(ops), ops, n, tr), n = Cardinality(ops)
  PROVE  Turned(AllDone(ops), Backwards(ops), n, tr, n)
<1> DEFINE s == Backwards(ops)
           V == [doc : Seq(Char), placed : Seq(Place(n))]
           zero == [doc |-> doc, placed |-> <<>>]
           More(D, k) == ApplyOne(D, s[k])
           G == [z \in V \X (1 .. n) |-> IF More(z[1], z[2]) \in V THEN More(z[1], z[2]) ELSE z[1]]
           Body(f) == [k \in 0 .. n |-> IF k = 0 THEN zero ELSE More(f[k - 1], k)]
           done == CHOOSE f : f = Body(f)
           Good(D, k) == Turned(D, s, n, tr, k)
<1> HIDE DEF s
<1>1. n \in Nat /\ Planned(s, ops, n, tr)
  BY DEF Planned, s
<1>2. Good(zero, 0) /\ zero \in V
  <2>1. <<>> \in Seq(Place(n)) /\ doc \in Seq(Char)
    BY DEF TypeOK
  <2>2. zero \in V
    BY <2>1
  <2> QED BY <1>1, <2>2, NoneTurned
<1>3. \A k \in 1 .. n : \A D : Good(D, k - 1) => Good(More(D, k), k)
  BY <1>1, ATurn
<1>4. \A k, D : Good(More(D, k), k) => More(D, k) \in V
  <2> TAKE k, D
  <2> HAVE Good(More(D, k), k)
  <2>1. \E t, p : ApplyOne(D, s[k]) = [doc |-> t, placed |-> p]
    BY DEF ApplyOne
  <2>2. More(D, k).doc \in Seq(Char) /\ More(D, k).placed \in Seq(Place(n))
    BY DEF Turned
  <2> HIDE DEF More
  <2>3. \E t, p : More(D, k) = [doc |-> t, placed |-> p]
    BY <2>1 DEF More
  <2> QED BY <2>2, <2>3
<1>5. G \in [V \X (1 .. n) -> V]
  <2> HIDE DEF More, V
  <2> QED OBVIOUS
<1>6. PICK f \in [0 .. n -> V] : f[0] = zero /\ \A k \in 1 .. n : f[k] = G[<<f[k - 1], k>>]
  <2> HIDE DEF G, V
  <2>1. \E f : Recursion(f, n, V, zero, G)
    BY <1>1, <1>2, <1>5, RecursionExists
  <2> QED BY <2>1 DEF Recursion
<1>7. \A k \in 1 .. n : f[k] = IF More(f[k - 1], k) \in V THEN More(f[k - 1], k) ELSE f[k - 1]
  <2> TAKE k \in 1 .. n
  <2>1. f[k - 1] \in V
    <3> HIDE DEF V
    <3> QED BY <1>1
  <2>2. G[<<f[k - 1], k>>] = IF More(f[k - 1], k) \in V THEN More(f[k - 1], k) ELSE f[k - 1]
    <3> HIDE DEF More, V
    <3> QED BY <2>1
  <2> HIDE DEF G, More, V
  <2> QED BY <1>6, <2>2
<1> HIDE DEF G, V, More, zero, Good
<1> DEFINE T == {k \in 0 .. n : Good(f[k], k) /\ (k # 0 => f[k] = More(f[k - 1], k))}
<1>8. 0 \in T
  BY <1>1, <1>2, <1>6
<1>9. ASSUME NEW k \in 1 .. n, k - 1 \in T PROVE k \in T
  <2>1. Good(f[k - 1], k - 1) /\ k \in 0 .. n
    BY <1>1, <1>9
  <2>2. Good(More(f[k - 1], k), k)
    BY <1>3, <2>1
  <2>3. f[k] = More(f[k - 1], k)
    BY <1>4, <1>7, <2>2
  <2> QED BY <2>1, <2>2, <2>3
<1> HIDE DEF T
<1>10. \A k \in 0 .. n : k \in T
  BY <1>1, <1>8, <1>9, IntervalInduction
<1>11. f = Body(f)
  <2>1. f = [k \in 0 .. n |-> f[k]]
    BY <1>6
  <2>2. \A k \in 0 .. n : f[k] = IF k = 0 THEN zero ELSE More(f[k - 1], k)
    BY <1>6, <1>10 DEF T
  <2> QED BY <2>1, <2>2
<1>12. done = Body(done)
  <2> HIDE DEF Body
  <2> QED BY <1>11
<1>13. AllDone(ops) = done[n]
  BY DEF AllDone, More, zero, s
<1> HIDE DEF done
<1>14. done[0] = zero /\ \A k \in 1 .. n : done[k] = More(done[k - 1], k)
  <2>1. 0 \in 0 .. n /\ \A k \in 1 .. n : k \in 0 .. n /\ k # 0
    BY <1>1
  <2> QED BY <1>12, <2>1
<1> DEFINE U == {k \in 0 .. n : Good(done[k], k)}
<1>15. 0 \in U
  BY <1>1, <1>2, <1>14
<1>16. ASSUME NEW k \in 1 .. n, k - 1 \in U PROVE k \in U
  <2>1. Good(done[k - 1], k - 1) /\ k \in 0 .. n
    BY <1>1, <1>16
  <2> QED BY <1>3, <1>14, <2>1
<1> HIDE DEF U
<1>17. \A k \in 0 .. n : k \in U
  BY <1>1, <1>15, <1>16, IntervalInduction
<1>18. n \in U
  BY <1>1, <1>17
<1> QED BY <1>13, <1>18 DEF U, Good, s

\* c is a with b after it.
Joined(c, a, b, S) ==
  /\ c \in Seq(S) /\ Len(c) = Len(a) + Len(b)
  /\ \A i \in 1 .. Len(a) + Len(b) : c[i] = IF i <= Len(a) THEN a[i] ELSE b[i - Len(a)]

\* ConcatProperties, of a list with a name.
LEMMA JoinIs ==
  ASSUME NEW S, NEW a \in Seq(S), NEW b \in Seq(S)
  PROVE  Joined(a \o b, a, b, S)
<1> DEFINE c == a \o b
<1>1. /\ c \in Seq(S) /\ Len(c) = Len(a) + Len(b)
      /\ \A i \in 1 .. Len(a) + Len(b) : c[i] = IF i <= Len(a) THEN a[i] ELSE b[i - Len(a)]
  BY ConcatProperties
<1> HIDE DEF c
<1>2. Joined(c, a, b, S)
  BY <1>1 DEF Joined
<1> QED BY <1>2 DEF c

\* What is in the list is what was placed, the first before the others.
Reordered(list, placed, first, n) ==
  \E q \in [1 .. n -> 1 .. n] :
    /\ q[1] = first
    /\ \A i, j \in 1 .. n : q[i] = q[j] => i = j
    /\ \A k \in 1 .. n : \E i \in 1 .. n : q[i] = k
    /\ \A i \in 1 .. n : list[i] = placed[q[i]]

\* The first is put before the others, which keep their order.
LEMMA MainFirst ==
  ASSUME NEW S, NEW n \in Nat, NEW placed \in Seq(S), Len(placed) = n, NEW first \in 1 .. n
  PROVE  Reordered(<<placed[first]>> \o RemoveAt(placed, first), placed, first, n)
<1> DEFINE q == [i \in 1 .. n |-> IF i = 1 THEN first ELSE IF i - 1 < first THEN i - 1 ELSE i]
           head == <<placed[first]>>
           rest == RemoveAt(placed, first)
<1>1. q \in [1 .. n -> 1 .. n]
  OBVIOUS
<1>2. \A i \in 1 .. n : q[i] = IF i = 1 THEN first ELSE IF i - 1 < first THEN i - 1 ELSE i
  OBVIOUS
<1> HIDE DEF q
<1>3. q[1] = first /\ 1 \in 1 .. n
  BY <1>2
<1>4. \A i, j \in 1 .. n : q[i] = q[j] => i = j
  BY <1>2
<1>5. \A k \in 1 .. n : \E i \in 1 .. n : q[i] = k
  <2> TAKE k \in 1 .. n
  <2>1. CASE k = first
    BY <1>3, <2>1
  <2>2. CASE k < first
    <3>1. k + 1 \in 1 .. n /\ k + 1 # 1 /\ (k + 1) - 1 = k
      BY <2>2
    <3>2. q[k + 1] = k
      BY <1>2, <2>2, <3>1
    <3> QED BY <3>1, <3>2
  <2>3. CASE k > first
    <3>1. k # 1 /\ ~(k - 1 < first)
      BY <2>3
    <3>2. q[k] = k
      BY <1>2, <3>1
    <3> QED BY <3>2
  <2> QED BY <2>1, <2>2, <2>3
<1>6. /\ placed[first] \in S /\ head \in Seq(S) /\ Len(head) = 1 /\ head[1] = placed[first]
  <2>1. placed[first] \in S
    OBVIOUS
  <2> HIDE DEF q
  <2> QED BY <2>1
<1>7. /\ rest \in Seq(S) /\ Len(rest) = n - 1
      /\ \A i \in 1 .. n - 1 : rest[i] = IF i < first THEN placed[i] ELSE placed[i + 1]
  <2>1. first \in DOMAIN placed
    OBVIOUS
  <2> QED BY <2>1, RemoveAtProperties
<1> HIDE DEF head, rest
<1> DEFINE list == head \o rest
<1>10. \A i \in 1 .. Len(head) + Len(rest) : list[i] = IF i <= Len(head) THEN head[i] ELSE rest[i - Len(head)]
  <2>1. head \in Seq(S) /\ rest \in Seq(S)
    BY <1>6, <1>7
  <2> QED BY <2>1, JoinIs DEF Joined
<1> HIDE DEF list
<1>8. \A i \in 1 .. n : list[i] = IF i <= 1 THEN head[i] ELSE rest[i - 1]
  <2>1. Len(head) = 1 /\ Len(rest) = n - 1 /\ Len(head) + Len(rest) = n
    BY <1>6, <1>7
  <2> QED BY <1>10, <2>1
<1>9. \A i \in 1 .. n : list[i] = placed[q[i]]
  <2> TAKE i \in 1 .. n
  <2>1. CASE i = 1
    <3>1. 1 \in 1 .. n /\ 1 <= 1
      BY <1>3
    <3>2. list[1] = head[1]
      BY <1>8, <3>1
    <3>3. placed[q[1]] = head[1]
      BY <1>3, <1>6
    <3> QED BY <2>1, <3>2, <3>3
  <2>2. CASE i # 1
    <3>1. i - 1 \in 1 .. n - 1 /\ ~(i <= 1) /\ (i - 1) + 1 = i
      BY <2>2
    <3>2. rest[i - 1] = IF i - 1 < first THEN placed[i - 1] ELSE placed[i]
      BY <1>7, <3>1
    <3> QED BY <1>2, <1>8, <2>2, <3>1, <3>2
  <2> QED BY <2>1, <2>2
<1>11. Reordered(list, placed, first, n)
  BY <1>1, <1>3, <1>4, <1>5, <1>9 DEF Reordered
<1> QED BY <1>11 DEF list, head, rest

\* AllPossible is what the turns need.
LEMMA OperationsPlanned ==
  ASSUME TypeOK, AfterTyped, NEW how, how = "manual" \/ typed # NoChar, AllPossible(how)
  PROVE  /\ IsFiniteSet(Operations(how)) /\ Cardinality(Operations(how)) = Len(carets)
         /\ Planned(Backwards(Operations(how)), Operations(how), Len(carets), Trailing(how))
<1> DEFINE ops == Operations(how)
<1>1. /\ IsFiniteSet(ops) /\ Cardinality(ops) = Len(carets)
      /\ InTurn(Backwards(ops), ops, Len(carets))
  BY BackwardsIsInTurn
<1>2. Len(carets) \in Nat /\ DOMAIN carets = 1 .. Len(carets)
  BY DEF TypeOK
<1>3. \A op \in ops : Possible(op)
  BY EachIsPossible
<1>4. Trailing(how) \in {0, 1}
  BY DEF Trailing
<1>5. \A op \in ops : Fits(op, Trailing(how)) /\ op.caret \in 1 .. Len(carets)
  BY <1>2, <1>3, PossibleFits
<1> QED BY <1>1, <1>2, <1>4, <1>5 DEF Planned

\* What is left where by all replacements together: D of them in the order s.
Several(s, n, D, how) ==
  /\ IsFiniteSet(Operations(how)) /\ Planned(s, Operations(how), n, Trailing(how))
  /\ Turned(D, s, n, Trailing(how), n)
  /\ doc' = D.doc /\ main' = 1 /\ EndSession /\ n \in Nat \ {0}
  /\ carets' = [i \in 1 .. n |-> carets'[i]]
  /\ \E q \in [1 .. n -> 1 .. n] :
       /\ s[q[1]].caret = main
       /\ \A i, j \in 1 .. n : q[i] = q[j] => i = j
       /\ \A k \in 1 .. n : \E i \in 1 .. n : q[i] = k
       /\ \A i \in 1 .. n : carets'[i] = D.placed[q[i]].at

\* ApplyAll leaves that.
LEMMA SeveralReplaced ==
  ASSUME TypeOK, AfterTyped, NEW how, how = "manual" \/ typed # NoChar, AllPossible(how),
         ApplyAll(Operations(how))
  PROVE  Several(Backwards(Operations(how)), Len(carets), AllDone(Operations(how)), how)
<1> DEFINE ops == Operations(how)
           s == Backwards(ops)
           n == Len(carets)
           D == AllDone(ops)
           placed == D.placed
           first == CHOOSE k \in DOMAIN placed : placed[k].caret = main
           list == <<placed[first]>> \o RemoveAt(placed, first)
<1>1. IsFiniteSet(ops) /\ Cardinality(ops) = n /\ Planned(s, ops, n, Trailing(how))
  BY OperationsPlanned
<1>2. Turned(D, s, n, Trailing(how), n)
  BY <1>1, AllTurned
<1>3. /\ doc' = D.doc /\ carets' = [i \in DOMAIN carets |-> list[i].at]
      /\ main' = 1 /\ EndSession
  <2>1. doc' = AllDone(ops).doc
    BY DEF ApplyAll, AllDone
  <2>2. carets' = [i \in DOMAIN carets |-> list[i].at]
    BY DEF ApplyAll, AllDone
  <2>3. main' = 1 /\ EndSession
    BY DEF ApplyAll
  <2> QED BY <2>1, <2>2, <2>3
<1>4. DOMAIN carets = 1 .. n /\ n \in Nat /\ main \in 1 .. n
  BY DEF TypeOK
<1> HIDE DEF ops, s, n, D
<1>5. placed \in Seq(Place(n)) /\ Len(placed) = n /\ \A j \in 1 .. n : placed[j].caret = s[j].caret
  BY <1>2 DEF Turned
<1>6. first \in 1 .. n /\ placed[first].caret = main
  <2>1. Operation(main, how) \in ops /\ Operation(main, how).caret = main
    BY <1>4, OperationTyped DEF Operations, ops
  <2>2. PICK k \in 1 .. n : s[k] = Operation(main, how)
    BY <1>1, <2>1 DEF Planned, InTurn
  <2>3. k \in DOMAIN placed /\ placed[k].caret = main
    BY <1>5, <2>1, <2>2
  <2>4. first \in DOMAIN placed /\ placed[first].caret = main
    BY <2>3
  <2> QED BY <1>5, <2>4
<1> HIDE DEF first, placed
<1>7. PICK q \in [1 .. n -> 1 .. n] :
        /\ q[1] = first
        /\ \A i, j \in 1 .. n : q[i] = q[j] => i = j
        /\ \A k \in 1 .. n : \E i \in 1 .. n : q[i] = k
        /\ \A i \in 1 .. n : list[i] = placed[q[i]]
  <2>1. Reordered(list, placed, first, n)
    BY <1>4, <1>5, <1>6, MainFirst
  <2> HIDE DEF list
  <2> QED BY <2>1 DEF Reordered
<1> HIDE DEF list
<1>8. \A i \in 1 .. n : carets'[i] = placed[q[i]].at
  BY <1>3, <1>4, <1>7
<1>9. carets' = [i \in 1 .. n |-> carets'[i]]
  BY <1>3, <1>4
<1>10. s[q[1]].caret = main /\ n # 0
  <2>1. placed[first].caret = s[first].caret
    BY <1>5, <1>6
  <2>2. n # 0
    BY <1>4
  <2> QED BY <1>6, <1>7, <2>1, <2>2
<1>11. Several(s, n, D, how)
  <2>1. IsFiniteSet(Operations(how)) /\ Planned(s, Operations(how), n, Trailing(how))
    BY <1>1 DEF ops
  <2>2. n \in Nat \ {0}
    BY <1>4, <1>10
  <2>3. \A i \in 1 .. n : carets'[i] = D.placed[q[i]].at
    BY <1>8 DEF placed
  <2> QED BY <1>2, <1>3, <1>7, <1>9, <1>10, <2>1, <2>2, <2>3 DEF Several
<1> QED BY <1>11 DEF ops, s, n, D

\* So it leaves values of the right kind.
LEMMA SeveralTyped ==
  ASSUME TypeOK, AfterTyped, NEW how, how = "manual" \/ typed # NoChar, AllPossible(how),
         ApplyAll(Operations(how)), active' \in BOOLEAN, typed' \in Char \cup {NoChar}
  PROVE  TypeOK'
<1> DEFINE s == Backwards(Operations(how))
           n == Len(carets)
           D == AllDone(Operations(how))
           tr == Trailing(how)
<1>0. Several(s, n, D, how)
  BY SeveralReplaced
<1> HIDE DEF s, n, D
<1>1. /\ Planned(s, Operations(how), n, tr) /\ Turned(D, s, n, tr, n)
      /\ doc' = D.doc /\ main' = 1 /\ EndSession /\ n \in Nat \ {0}
      /\ carets' = [i \in 1 .. n |-> carets'[i]]
  BY <1>0 DEF Several
<1>2. PICK q \in [1 .. n -> 1 .. n] : \A i \in 1 .. n : carets'[i] = D.placed[q[i]].at
  BY <1>0 DEF Several
<1> HIDE DEF tr
<1>3. doc' \in Seq(Char) /\ Len(doc') \in Nat
  BY <1>1 DEF Turned
<1>4. ASSUME NEW i \in 1 .. n PROVE carets'[i] \in 0 .. Len(doc')
  <2> DEFINE j == q[i]
             u == Begin(s, n, j)
             z == Size(s[j])
             off == CaretOffset(s[j])
  <2>1. j \in 1 .. n
    OBVIOUS
  <2>2. D.placed[j].at = u + off /\ u \in Nat /\ u + z + tr <= Len(doc')
    BY <1>1, <2>1 DEF Turned
  <2>3. s[j] \in Operations(how) /\ tr \in {0, 1}
    BY <1>1, <2>1 DEF Planned, InTurn
  <2>4. Fits(s[j], tr)
    BY <1>1, <2>3 DEF Planned
  <2>5. z \in Nat /\ off \in 0 .. z + tr
    BY <2>4 DEF Fits
  <2>6. carets'[i] = u + off
    BY <1>2, <2>2
  <2> HIDE DEF u, z, off, j
  <2> QED BY <1>3, <2>2, <2>3, <2>5, <2>6
<1>5. carets' \in [1 .. n -> 0 .. Len(doc')]
  BY <1>1, <1>4
<1>6. carets' \in Seq(0 .. Len(doc')) /\ Len(carets') = n
  BY <1>1, <1>5, IsList
<1>7. main' \in DOMAIN carets'
  <2>1. DOMAIN carets' = 1 .. n
    BY <1>5
  <2> QED BY <1>1, <2>1
<1> QED BY <1>1, <1>3, <1>6, <1>7, Ended, TypedAll

\* Replace leaves values of the right kind.
LEMMA ReplaceIsTyped ==
  ASSUME TypeOK, AfterTyped, NEW how, how = "manual" \/ typed # NoChar, Replace(how),
         active' \in BOOLEAN, typed' \in Char \cup {NoChar}
  PROVE  TypeOK'
<1>1. CASE Len(carets) = 1 /\ \A op \in Operations(how) : Possible(op) /\ ApplyReplacement(op)
  <2>1. 1 \in DOMAIN carets
    BY <1>1 DEF TypeOK
  <2>2. PICK op \in Operations(how) : Possible(op) /\ ApplyReplacement(op)
    BY <1>1, <2>1 DEF Operations
  <2>3. Trailing(how) \in {0, 1} /\ Fits(op, Trailing(how))
    BY <2>2, PossibleFits
  <2> QED BY <2>2, <2>3, ApplyReplacementTyped
<1>2. CASE AllPossible(how) /\ ApplyAll(Operations(how))
  BY <1>2, SeveralTyped
<1> QED BY <1>1, <1>2 DEF Replace

\* NextTabstop takes the Tab before the main caret back.
LEMMA TabIsThere ==
  ASSUME TypeOK, AfterTyped, typed # NoChar
  PROVE  /\ carets[main] - 1 \in 0 .. Len(doc) /\ carets[main] - 1 \in Nat
         /\ (carets[main] - 1) + 1 \in (carets[main] - 1) .. Len(doc)
         /\ ((carets[main] - 1) + 1) - (carets[main] - 1) = 1
         /\ Len(doc) \in Nat
<1>1. carets[main] \in 0 .. Len(doc) /\ carets[main] > 0 /\ Len(doc) \in Nat
  BY DEF TypeOK, AfterTyped
<1>2. PICK c \in 0 .. Len(doc) : c = carets[main]
  BY <1>1
<1>3. c > 0
  BY <1>1, <1>2
<1> QED BY <1>1, <1>2, <1>3

\* Going to the next tabstop leaves values of the right kind.
LEMMA NextTabstopTyped ==
  ASSUME TypeOK, Tracked, AfterTyped, NextTabstop
  PROVE  TypeOK' /\ AfterTyped'
<1> DEFINE tab == carets[main] - 1
           ps == session.positions
           cur == session.current
           positions == Removed(ps, tab, 1)
<1>1. typed # NoChar /\ typed' = NoChar /\ session # NoSession /\ typed \in Char
  BY ExpansionConstants DEF NextTabstop, Navigates
<1>2. /\ doc' = Splice(doc, tab, tab + 1, <<>>)
      /\ session' = [positions |-> positions, current |-> cur + 1]
      /\ born' = Splice(born, tab, tab + 1, <<>>)
      /\ carets' = <<positions[cur + 1]>> /\ main' = 1
      /\ active' = active /\ origin' = origin /\ cur < Len(ps)
  BY DEF NextTabstop
<1>3. /\ tab \in 0 .. Len(doc) /\ tab \in Nat /\ tab + 1 \in tab .. Len(doc)
      /\ (tab + 1) - tab = 1 /\ Len(doc) \in Nat
  BY <1>1, TabIsThere
<1>4. /\ session \in Session /\ ps \in Seq(Nat) /\ cur \in DOMAIN ps /\ DOMAIN ps = 1 .. Len(ps)
      /\ \A t \in DOMAIN ps : ps[t] <= Len(doc)
      /\ Len(born) = Len(doc) /\ born \in Seq(Nat) /\ doc \in Seq(Char)
  BY <1>1 DEF TypeOK, Session, Tracked
<1> HIDE DEF tab, ps, cur
<1>5. positions \in Seq(Nat) /\ DOMAIN positions = DOMAIN ps
  <2>1. 1 \in Nat
    OBVIOUS
  <2> QED BY <1>3, <1>4, <2>1, RemovedTyped
<1>6. \A t \in DOMAIN ps : positions[t] \in 0 .. tab + (Len(doc) - (tab + 1))
  BY <1>3, <1>4, RemovedWithin
<1>7. doc' \in Seq(Char) /\ Len(doc') = tab + (Len(doc) - (tab + 1))
  <2> DEFINE d == Splice(doc, tab, tab + 1, <<>>)
  <2>1. d \in Seq(Char) /\ Len(d) = tab + (Len(doc) - (tab + 1))
    <3>1. ASSUME NEW b \in tab .. Len(doc)
          PROVE  /\ Splice(doc, tab, b, <<>>) \in Seq(Char)
                 /\ Len(Splice(doc, tab, b, <<>>)) = tab + (Len(doc) - b)
      BY <1>3, <1>4, CutProperties
    <3> QED BY <1>3, <3>1
  <2> HIDE DEF d
  <2> QED BY <1>2, <2>1 DEF d
<1>8. born' \in Seq(Nat)
  BY <1>2, <1>3, <1>4, CutProperties
<1>9. cur + 1 \in DOMAIN ps /\ cur + 1 \in Nat \ {0}
  BY <1>2, <1>4
<1> HIDE DEF positions
<1>10. \A t \in DOMAIN positions : positions[t] \in 0 .. Len(doc')
  BY <1>5, <1>6, <1>7
<1>11. SessionTyped'
  <2>1. session' \in Session
    BY <1>2, <1>5, <1>9 DEF Session
  <2>2. session'.positions = positions /\ session'.current = cur + 1
    BY <1>2
  <2>3. \A i \in DOMAIN positions : positions[i] <= Len(doc')
    BY <1>10
  <2> QED BY <1>5, <1>9, <2>1, <2>2, <2>3 DEF SessionTyped
<1>12. carets' \in Seq(0 .. Len(doc')) /\ main' \in DOMAIN carets'
  <2>1. positions[cur + 1] \in 0 .. Len(doc')
    BY <1>5, <1>9, <1>10
  <2> DEFINE x == positions[cur + 1]
  <2>2. x \in 0 .. Len(doc') /\ carets' = <<x>> /\ main' = 1
    BY <1>2, <2>1
  <2> HIDE DEF x
  <2> QED BY <2>2, Single
<1>13. active' \in BOOLEAN /\ typed' \in Char \cup {NoChar} /\ origin' \in Seq(Nat)
  BY <1>1, <1>2 DEF TypeOK
<1>14. TypeOK'
  BY <1>7, <1>8, <1>11, <1>12, <1>13, TypedAll
<1> QED BY <1>1, <1>14 DEF AfterTyped

\* Undo and redo leave values of the right kind.
LEMMA UndoOrRedoTyped ==
  ASSUME TypeOK, UndoOrRedo
  PROVE  TypeOK' /\ AfterTyped'
<1>1. /\ EndSession /\ doc' \in Seq(Char) /\ carets' = <<Len(doc')>> /\ main' = 1
      /\ active' = active /\ typed' = typed /\ typed = NoChar
  BY ExpansionConstants DEF UndoOrRedo
<1>2. Len(doc') \in 0 .. Len(doc')
  BY <1>1
<1>3. carets' \in Seq(0 .. Len(doc')) /\ main' \in DOMAIN carets'
  BY <1>1, <1>2, Single
<1>4. active' \in BOOLEAN /\ typed' \in Char \cup {NoChar}
  BY <1>1 DEF TypeOK
<1>5. TypeOK'
  BY <1>1, <1>3, <1>4, Ended, TypedAll
<1> QED BY <1>1, <1>5 DEF AfterTyped

\* Setting carets leaves values of the right kind.
LEMMA SelectTyped ==
  ASSUME TypeOK, Select
  PROVE  TypeOK' /\ AfterTyped'
<1>1. PICK S \in Selections : ToSet(S) \subseteq 0 .. Len(doc) /\ carets' = S /\ main' = Len(S)
  BY DEF Select
<1>2. S \in Seq(Nat) /\ S # <<>>
  BY ExpansionConstants
<1>3. Len(S) \in Nat /\ DOMAIN S = 1 .. Len(S) /\ Len(S) # 0 /\ S \in [1 .. Len(S) -> Nat]
  BY <1>2
<1>4. \A i \in 1 .. Len(S) : S[i] \in 0 .. Len(doc)
  BY <1>1, <1>3 DEF ToSet
<1>5. S \in [1 .. Len(S) -> 0 .. Len(doc)]
  BY <1>3, <1>4
<1>6. S \in Seq(0 .. Len(doc))
  BY <1>3, <1>5, IsList
<1>7. Len(S) \in DOMAIN S
  BY <1>3
<1>8. UNCHANGED <<doc, active, typed, session, born, origin>> /\ typed = NoChar
  BY DEF Select, ghost
<1>9. TypeOK'
  BY <1>1, <1>6, <1>7, <1>8 DEF TypeOK
<1> QED BY <1>8, <1>9 DEF AfterTyped

\* Each step leaves values of the right kind, and after a character has been
\* typed no caret is at the beginning.
LEMMA StepTyped ==
  ASSUME TypeOK, Tracked, AfterTyped, [Next]_vars, \A c \in Typeable : ~Type(c)
  PROVE  TypeOK' /\ AfterTyped'
<1> DEFINE Goal == TypeOK' /\ AfterTyped'
<1>1. ASSUME ManualReplace PROVE Goal
  <2>1. typed = NoChar /\ Replace("manual") /\ active' = active /\ typed' = typed
    BY <1>1 DEF ManualReplace
  <2>2. active' \in BOOLEAN /\ typed' \in Char \cup {NoChar}
    BY <2>1 DEF TypeOK
  <2>3. TypeOK'
    BY <2>1, <2>2, ReplaceIsTyped
  <2> QED BY <2>1, <2>3 DEF AfterTyped
<1>2. ASSUME ReplaceTyped PROVE Goal
  <2>1. typed # NoChar /\ Replace(HowTyped) /\ active' = active /\ typed' = NoChar
    BY <1>2 DEF ReplaceTyped
  <2>2. active' \in BOOLEAN /\ typed' \in Char \cup {NoChar}
    BY <2>1 DEF TypeOK
  <2>3. TypeOK'
    BY <2>1, <2>2, ReplaceIsTyped
  <2> QED BY <2>1, <2>3 DEF AfterTyped
<1>3. ASSUME LeaveTabstop \/ LastTabstop PROVE Goal
  <2>1. EndSession /\ UNCHANGED <<doc, carets, main, active>> /\ typed' = NoChar
    BY <1>3 DEF LeaveTabstop, LastTabstop
  <2>2. TypeOK'
    BY <2>1, Ended, TypedAll DEF TypeOK
  <2> QED BY <2>1, <2>2 DEF AfterTyped
<1>4. ASSUME Switch PROVE Goal
  <2>1. UNCHANGED <<doc, carets, main, typed, session, born, origin>> /\ active' = ~active /\ typed = NoChar
    BY <1>4 DEF Switch, ghost
  <2>2. active' \in BOOLEAN
    BY <2>1 DEF TypeOK
  <2> QED BY <2>1, <2>2 DEF TypeOK, AfterTyped
<1>5. ASSUME LeaveTyped PROVE Goal
  BY <1>5 DEF LeaveTyped, TypeOK, AfterTyped, ghost
<1>6. ASSUME UNCHANGED vars PROVE Goal
  BY <1>6 DEF vars, TypeOK, AfterTyped
<1>7. ASSUME Erase \/ EditElsewhere PROVE Goal
  BY <1>7, EraseTyped, EditElsewhereTyped
<1>8. ASSUME UndoOrRedo \/ Select \/ NextTabstop PROVE Goal
  BY <1>8, UndoOrRedoTyped, SelectTyped, NextTabstopTyped
<1> QED BY <1>1, <1>2, <1>3, <1>4, <1>5, <1>6, <1>7, <1>8 DEF Next, CharAdded

\* What every step needs of the one before it.
Inv == TypeOK /\ Tracked /\ AfterTyped /\ TabstopsFollowText

\* It holds in the beginning ...
LEMMA InvHolds == Init => Inv
<1> SUFFICES ASSUME Init PROVE Inv
  OBVIOUS
<1>1. doc \in Seq(Char) /\ carets = <<0>> /\ 0 \in 0 .. Len(doc)
  <2>1. doc \in Seq(Char) /\ carets = <<0>>
    BY ExpansionConstants DEF Init
  <2> QED BY <2>1
<1>2. carets \in Seq(0 .. Len(doc)) /\ main \in DOMAIN carets
  BY <1>1, Single DEF Init
<1>3. <<>> \in Seq(Nat)
  OBVIOUS
<1> QED BY <1>1, <1>2, <1>3 DEF Init, Inv, TypeOK, Tracked, AfterTyped, TabstopsFollowText

\* ... and every step keeps it.
LEMMA InvStays == Inv /\ [Next]_vars => Inv'
<1> SUFFICES ASSUME Inv, [Next]_vars PROVE Inv'
  OBVIOUS
<1>1. CASE \E c \in Typeable : Type(c)
  BY <1>1, TypeKeeps DEF Inv
<1>2. CASE \A c \in Typeable : ~Type(c)
  <2>1. TypeOK' /\ AfterTyped'
    BY <1>2, StepTyped DEF Inv
  <2>2. TabstopsFollowText' /\ Tracked'
    BY <1>2, <2>1, EditsKeepTabstops DEF Inv
  <2> QED BY <2>1, <2>2 DEF Inv
<1> QED BY <1>1, <1>2

\* The invariant: the variables have their types, the auxiliary ones are of the
\* document, a character whose notice is due is before every caret, and the
\* tabstops of the session are where they were in the text.
THEOREM ExpansionInvariant == Spec => []Inv
BY InvHolds, InvStays, PTL DEF Spec

\* A session's current tabstop and all its positions are of the document, and so
\* are the carets: no position that Plugin.cpp hands to Scintilla is outside.
THEOREM ExpansionTyped == Spec => []TypeOK
<1>1. Inv => TypeOK
  BY DEF Inv
<1> QED BY <1>1, ExpansionInvariant, PTL

\* Tabstop positions are tracked as the text is edited: typing at any number of
\* carets, erasing, edits elsewhere and taking the Tab back leave each tabstop
\* between the characters it was between.
THEOREM TabstopsStay == Spec => []TabstopsFollowText
<1>1. Inv => TabstopsFollowText
  BY DEF Inv
<1> QED BY <1>1, ExpansionInvariant, PTL

\* Typing at the current tabstop, and erasing there.
LEMMA FillingStays ==
  ASSUME TypeOK, AtTabstop, Erase \/ \E c \in Typeable : Type(c)
  PROVE  AtTabstop'
<1> DEFINE ps == session.positions
           cur == session.current
           places == ToSet(carets)
<1>1. /\ session # NoSession /\ session \in Session /\ ps \in Seq(Nat) /\ cur \in DOMAIN ps
      /\ main = 1 /\ Len(carets) = 1 /\ carets \in Seq(0 .. Len(doc)) /\ DOMAIN carets = {1}
      /\ carets[1] = ps[cur] /\ Len(doc) \in Nat /\ carets[1] \in 0 .. Len(doc)
  <2>1. session # NoSession /\ Len(carets) = 1 /\ carets[main] = ps[cur]
    BY DEF AtTabstop
  <2>2. session \in Session /\ cur \in DOMAIN ps
    BY <2>1 DEF TypeOK
  <2>3. ps \in Seq(Nat)
    BY <2>2 DEF Session
  <2>4. carets \in Seq(0 .. Len(doc)) /\ main \in DOMAIN carets /\ Len(doc) \in Nat
    BY DEF TypeOK
  <2>5. DOMAIN carets = {1} /\ main = 1
    BY <2>1, <2>4
  <2>6. carets[1] \in 0 .. Len(doc)
    <3>1. 1 \in DOMAIN carets
      BY <2>5
    <3> QED BY <2>4, <3>1
  <2> QED BY <2>1, <2>2, <2>3, <2>4, <2>5, <2>6
<1> HIDE DEF ps, cur
<1>2. ASSUME NEW qs \in Seq(Nat), session' = [session EXCEPT !.positions = qs]
      PROVE  /\ session' # NoSession /\ session'.positions = qs /\ session'.current = cur
  <2>1. session' \in Session
    BY <1>1, <1>2 DEF Session
  <2> QED BY <1>1, <1>2, <2>1, ExpansionConstants DEF Session, cur
<1>3. CASE Erase
  <2>1. PICK p \in {carets[1] - 1, carets[1]} \cap 0 .. Len(doc) - 1 :
          /\ carets' = <<p>> /\ main' = main
          /\ session' = [session EXCEPT !.positions = Removed(ps, p, 1)]
    BY <1>1, <1>3 DEF Erase, KeepPositions, ps
  <2> DEFINE qs == Removed(ps, p, 1)
  <2>2. p \in Nat /\ 1 \in Nat
    BY <1>1
  <2>3. qs \in Seq(Nat) /\ qs[cur] = IF ps[cur] >= p + 1 THEN ps[cur] - 1 ELSE IF ps[cur] >= p THEN p ELSE ps[cur]
    <3>1. /\ qs \in Seq(Nat)
          /\ \A t \in DOMAIN ps : qs[t] = IF ps[t] >= p + 1 THEN ps[t] - 1 ELSE IF ps[t] >= p THEN p ELSE ps[t]
      BY <1>1, <2>2, RemovedTyped
    <3> HIDE DEF qs
    <3> QED BY <1>1, <3>1
  <2> HIDE DEF qs
  <2>4. session' # NoSession /\ session'.positions = qs /\ session'.current = cur
    BY <1>2, <2>1, <2>3 DEF qs
  <2>5. qs[cur] = p
    BY <1>1, <2>1, <2>2, <2>3
  <2>6. Len(carets') = 1 /\ carets'[main'] = p
    BY <1>1, <2>1
  <2> QED BY <2>4, <2>5, <2>6 DEF AtTabstop
<1>4. CASE \E c \in Typeable : Type(c)
  <2> DEFINE qs == ShiftedAtEach(ps, places, Len(doc))
             m == Cardinality({p \in places : p <= carets[1]})
  <2>1. /\ carets' = [i \in DOMAIN carets |->
                        carets[i] + Cardinality({p \in places : p <= carets[i]})]
        /\ main' = main /\ session' = [session EXCEPT !.positions = qs]
    BY <1>1, <1>4 DEF Type, KeepPositions, ps
  <2>2. places \in SUBSET (0 .. Len(doc))
    BY <1>1 DEF ToSet
  <2>3. qs \in Seq(Nat) /\ qs[cur] = ps[cur] + Cardinality({p \in places : p <= ps[cur]})
    BY <1>1, <2>2, ShiftedAtEachIs
  <2>4. DOMAIN carets' = {1} /\ carets'[1] = carets[1] + m
    BY <1>1, <2>1
  <2>5. Len(carets') = 1
    <3>1. carets' = [i \in {1} |-> carets'[1]]
      BY <1>1, <2>1, <2>4
    <3>2. carets' = <<carets'[1]>>
      BY <3>1
    <3> QED BY <3>2
  <2> HIDE DEF qs
  <2>6. session' # NoSession /\ session'.positions = qs /\ session'.current = cur
    BY <1>2, <2>1, <2>3
  <2>7. carets'[main'] = qs[cur]
    BY <1>1, <2>1, <2>3, <2>4
  <2> QED BY <2>5, <2>6, <2>7 DEF AtTabstop
<1> QED BY <1>3, <1>4

\* Filling a tabstop in does not end the session.
THEOREM FillingStaysAtTabstop == Spec => FillingKeepsTabstop
<1>1. Inv /\ [Next]_vars =>
        [AtTabstop /\ (Erase \/ \E c \in Typeable : Type(c)) => AtTabstop']_vars
  BY FillingStays DEF Inv
<1> QED BY <1>1, ExpansionInvariant, PTL DEF Spec, FillingKeepsTabstop

\* Only the replacements at several carets change the text and leave several.
LEMMA SeveralAre ==
  ASSUME TypeOK, [Next]_vars, AtSeveral
  PROVE  \E how : /\ how = "manual" \/ typed # NoChar
                  /\ Replaced = Operations(how)
                  /\ AllPossible(how) /\ ApplyAll(Operations(how))
<1>1. Len(carets) > 1 /\ Len(carets') > 1 /\ doc' # doc /\ typed' = NoChar
  BY DEF AtSeveral
<1>2. ~(Len(carets) = 1)
  <2> DEFINE n == Len(carets)
  <2>1. n \in Nat
    BY DEF TypeOK
  <2>2. n > 1
    BY <1>1
  <2> HIDE DEF n
  <2>3. n # 1
    BY <2>1, <2>2
  <2> QED BY <2>3 DEF n
<1>3. ASSUME NEW x PROVE carets' # <<x>>
  <2> SUFFICES ASSUME carets' = <<x>> PROVE FALSE
    OBVIOUS
  <2>1. Len(carets') = 1
    OBVIOUS
  <2>2. ~(1 > 1)
    OBVIOUS
  <2> QED BY <1>1, <2>1, <2>2
<1>4. \A c \in Typeable : ~Type(c)
  BY <1>1, ExpansionConstants DEF Type
<1>5. ~Erase /\ ~EditElsewhere
  BY <1>2 DEF Erase, EditElsewhere
<1>6. ~UndoOrRedo
  BY <1>3 DEF UndoOrRedo
<1>7. ~NextTabstop
  BY <1>3 DEF NextTabstop
<1>8. ~Select /\ ~LeaveTabstop /\ ~Switch /\ ~LastTabstop /\ ~LeaveTyped /\ ~UNCHANGED vars
  BY <1>1 DEF Select, LeaveTabstop, Switch, LastTabstop, LeaveTyped, vars
<1>9. CASE ManualReplace
  <2>1. typed = NoChar /\ Replace("manual")
    BY <1>9 DEF ManualReplace
  <2>2. Replaced = Operations("manual")
    BY <2>1 DEF Replaced
  <2>3. AllPossible("manual") /\ ApplyAll(Operations("manual"))
    BY <1>2, <2>1 DEF Replace
  <2> QED BY <2>2, <2>3
<1>10. CASE ReplaceTyped
  <2>1. typed # NoChar /\ Replace(HowTyped)
    BY <1>10 DEF ReplaceTyped
  <2>2. Replaced = Operations(HowTyped)
    BY <2>1 DEF Replaced
  <2>3. AllPossible(HowTyped) /\ ApplyAll(Operations(HowTyped))
    BY <1>2, <2>1 DEF Replace
  <2> QED BY <2>1, <2>2, <2>3
<1> QED BY <1>4, <1>5, <1>6, <1>7, <1>8, <1>9, <1>10 DEF Next, CharAdded

\* What AllPossible promises of the replacements of a step.
LEMMA LimitKept ==
  ASSUME TypeOK, AfterTyped, NEW how, how = "manual" \/ typed # NoChar,
         AllPossible(how), Replaced = Operations(how)
  PROVE  /\ \A op \in Replaced : Possible(op)
         /\ MapThenSumSet(Size, Replaced) <= MaxExpanded
         /\ \A i \in DOMAIN doc :
              Cardinality({op \in Replaced : i \in op.start + 1 .. op.end}) <= 1
<1>1. /\ \A op \in Replaced : Possible(op)
      /\ MapThenSumSet(Size, Replaced) <= MaxExpanded
      /\ \A a, b \in Replaced : a # b => a.end <= b.start \/ b.end <= a.start
  <2>1. \A op \in Replaced : Possible(op)
    BY EachIsPossible
  <2>2. MapThenSumSet(Size, Replaced) <= MaxExpanded
    BY TogetherWithin
  <2>3. ASSUME NEW a \in Replaced, NEW b \in Replaced, a # b
        PROVE  a.end <= b.start \/ b.end <= a.start
    <3> DEFINE s == Backwards(Replaced)
               n == Len(carets)
    <3>1. InTurn(s, Replaced, n) /\ n \in Nat
      BY BackwardsIsInTurn DEF TypeOK
    <3> HIDE DEF s, n
    <3>2. PICK k \in 1 .. n : s[k] = a
      BY <3>1 DEF InTurn
    <3>3. PICK l \in 1 .. n : s[l] = b
      BY <3>1 DEF InTurn
    <3>4. k < l \/ l < k
      BY <2>3, <3>1, <3>2, <3>3
    <3> QED BY <3>1, <3>2, <3>3, <3>4 DEF InTurn
  <2> QED BY <2>1, <2>2, <2>3
<1>2. ASSUME NEW i \in DOMAIN doc
      PROVE  Cardinality({op \in Replaced : i \in op.start + 1 .. op.end}) <= 1
  <2> DEFINE S == {op \in Replaced : i \in op.start + 1 .. op.end}
  <2>1. \A op \in Replaced : op.start \in Nat /\ op.end \in Nat
    BY <1>1, PossibleFits DEF Fits
  <2>2. \A a, b \in S : a = b
    <3> TAKE a, b \in S
    <3>1. /\ a \in Replaced /\ b \in Replaced /\ i \in Nat
          /\ a.start < i /\ i <= a.end /\ b.start < i /\ i <= b.end
      BY <2>1 DEF TypeOK
    <3> QED BY <1>1, <2>1, <3>1
  <2> HIDE DEF S
  <2>3. CASE S = {}
    BY <2>3, FS_EmptySet DEF S
  <2>4. CASE S # {}
    <3>0. PICK x : x \in S
      BY <2>4
    <3>1. S = {x}
      BY <2>2, <3>0
    <3>2. Cardinality(S) = 1
      BY <3>1, FS_Singleton
    <3> QED BY <3>2 DEF S
  <2> QED BY <2>3, <2>4
<1> QED BY <1>1, <1>2

\* Several triggers are replaced only when each caret has a replacement, all
\* together are within the limit, and no two overlap.
THEOREM OutputWithinLimit == Spec => AllWithinLimit
<1> DEFINE Within == /\ \A op \in Replaced : Possible(op)
                     /\ MapThenSumSet(Size, Replaced) <= MaxExpanded
                     /\ \A i \in DOMAIN doc :
                          Cardinality({op \in Replaced : i \in op.start + 1 .. op.end}) <= 1
<1>1. Inv /\ [Next]_vars => [AtSeveral => Within]_vars
  <2> SUFFICES ASSUME Inv, [Next]_vars, AtSeveral PROVE Within
    OBVIOUS
  <2>1. TypeOK /\ AfterTyped
    BY DEF Inv
  <2>2. PICK how : /\ how = "manual" \/ typed # NoChar
                   /\ Replaced = Operations(how)
                   /\ AllPossible(how) /\ ApplyAll(Operations(how))
    BY <2>1, SeveralAre
  <2> QED BY <2>1, <2>2, LimitKept
<1> QED BY <1>1, ExpansionInvariant, PTL DEF Spec, AllWithinLimit

\* A stretch of a sequence that has the elements of another is that one.
LEMMA SameStretch ==
  ASSUME NEW S, NEW d \in Seq(S), NEW t \in Seq(S), NEW a \in Nat, a + Len(t) <= Len(d),
         \A x \in 1 .. Len(t) : d[a + x] = t[x]
  PROVE  SubSeq(d, a + 1, a + Len(t)) = t
<1> DEFINE m == a + 1
           n == a + Len(t)
           c == SubSeq(d, m, n)
<1>1. Len(d) \in Nat /\ Len(t) \in Nat /\ m \in Int /\ n \in Int
  OBVIOUS
<1>2. \A i \in m .. n : d[i] \in S
  <2>1. \A i \in m .. n : i \in 1 .. Len(d)
    BY <1>1
  <2> HIDE DEF m, n
  <2> QED BY <2>1
<1>3. /\ c \in Seq(S) /\ Len(c) = IF m <= n THEN n - m + 1 ELSE 0
      /\ \A i \in 1 .. n - m + 1 : c[i] = d[m + i - 1]
  <2> HIDE DEF m, n
  <2> QED BY <1>1, <1>2, SubSeqProperties
<1> HIDE DEF c
<1>4. Len(c) = Len(t)
  <2>1. n - m + 1 = Len(t) /\ (m <= n \/ Len(t) = 0)
    BY <1>1
  <2>2. ~(m <= n) => Len(t) = 0
    BY <2>1
  <2> HIDE DEF m, n
  <2> QED BY <1>3, <2>1, <2>2
<1>5. ASSUME NEW i \in 1 .. Len(t) PROVE c[i] = t[i]
  <2>1. i \in 1 .. n - m + 1 /\ m + i - 1 = a + i
    BY <1>1
  <2> QED BY <1>3, <2>1
<1>6. c = t
  <2>1. c = [i \in 1 .. Len(c) |-> c[i]] /\ t = [i \in 1 .. Len(t) |-> t[i]]
    BY <1>3
  <2> QED BY <1>4, <1>5, <2>1
<1> QED BY <1>6 DEF c, m, n

\* Shift and Landing are where the turns have put things.
LEMMA CaretsAre ==
  ASSUME TypeOK, AfterTyped, NEW how, how = "manual" \/ typed # NoChar, Replaced = Operations(how),
         NEW s, NEW n, NEW D, Several(s, n, D, how)
  PROVE  /\ n \in Nat /\ s \in [1 .. n -> Replaced]
         /\ \A p : Shift(p) = Moved(s, n, p)
         /\ \A op \in Replaced : \E j \in 1 .. n : s[j] = op
         /\ \A j \in 1 .. n : Landing(s[j]) = D.placed[j].at
<1>1. n \in Nat /\ s \in [1 .. n -> Replaced] /\ \A op \in Replaced : \E j \in 1 .. n : s[j] = op
  BY DEF Several, Planned, InTurn
<1>2. {s[j] : j \in 1 .. n} = Replaced
  BY <1>1
<1>3. ASSUME NEW p PROVE Shift(p) = Moved(s, n, p)
  <2>1. Shift(p) = Gain({op \in Replaced : op.end <= p})
    BY DEF Shift, Gain
  <2> QED BY <1>2, <2>1 DEF Moved
<1>4. ASSUME NEW j \in 1 .. n PROVE Landing(s[j]) = D.placed[j].at
  <2>1. D.placed[j].at = s[j].start + Moved(s, n, s[j].start) + CaretOffset(s[j])
    BY DEF Several, Turned, Begin
  <2> QED BY <1>3, <2>1 DEF Landing
<1> QED BY <1>1, <1>3, <1>4

\* Each text is where its trigger was, and all other text as it was.
LEMMA TextsLand ==
  ASSUME TypeOK, AfterTyped, NEW how, how = "manual" \/ typed # NoChar, Replaced = Operations(how),
         NEW s, NEW n, NEW D, Several(s, n, D, how)
  PROVE  /\ Len(doc') = Len(doc) + Shift(Len(doc))
         /\ \A op \in Replaced :
              LET b == op.start + Shift(op.start) IN SubSeq(doc', b + 1, b + Size(op)) = op.rule.text
         /\ \A i \in DOMAIN doc :
              (\A op \in Replaced : i \notin op.start + 1 .. op.end) => doc'[i + Shift(i - 1)] = doc[i]
<1>1. /\ n \in Nat /\ s \in [1 .. n -> Replaced]
      /\ \A p : Shift(p) = Moved(s, n, p)
      /\ \A op \in Replaced : \E j \in 1 .. n : s[j] = op
  BY CaretsAre
<1>2. /\ Planned(s, Replaced, n, Trailing(how)) /\ Turned(D, s, n, Trailing(how), n) /\ doc' = D.doc
  BY DEF Several
<1>3. doc' \in Seq(Char) /\ Len(doc') = Len(doc) + Shift(Len(doc))
  BY <1>1, <1>2 DEF Turned
<1>4. ASSUME NEW op \in Replaced
      PROVE  LET b == op.start + Shift(op.start) IN SubSeq(doc', b + 1, b + Size(op)) = op.rule.text
  <2>1. PICK j \in 1 .. n : s[j] = op
    BY <1>1
  <2> DEFINE b == op.start + Shift(op.start)
             text == op.rule.text
  <2>2. b = Begin(s, n, j)
    BY <1>1, <2>1 DEF Begin
  <2>3. Trailing(how) \in {0, 1} /\ Fits(op, Trailing(how))
    BY <1>2 DEF Planned
  <2>4. text \in Seq(Char) /\ Size(op) = Len(text) /\ Len(text) \in Nat
    BY <2>3 DEF Fits, Size
  <2>5. /\ b \in Nat /\ b + Len(text) + Trailing(how) <= Len(doc')
        /\ \A x \in 1 .. Len(text) : doc'[b + x] = text[x]
    BY <1>2, <2>1, <2>2, <2>4 DEF Turned
  <2> HIDE DEF b, text
  <2>6. b + Len(text) <= Len(doc')
    BY <1>3, <2>3, <2>4, <2>5
  <2>7. SubSeq(doc', b + 1, b + Len(text)) = text
    BY <1>3, <2>4, <2>5, <2>6, SameStretch
  <2> QED BY <2>4, <2>7 DEF b, text
<1>5. ASSUME NEW i \in DOMAIN doc, \A op \in Replaced : i \notin op.start + 1 .. op.end
      PROVE  doc'[i + Shift(i - 1)] = doc[i]
  <2>1. i \in 1 .. Len(doc)
    BY DEF TypeOK
  <2>2. \A j \in 1 .. n : i \notin s[j].start + 1 .. s[j].end
    BY <1>1, <1>5
  <2>3. D.doc[i + Moved(s, n, i - 1)] = doc[i]
    BY <1>2, <2>1, <2>2 DEF Turned
  <2> QED BY <1>1, <1>2, <2>3
<1> QED BY <1>3, <1>4, <1>5

\* Each caret is where its rule wants it.
LEMMA CaretsLandThere ==
  ASSUME TypeOK, AfterTyped, NEW how, how = "manual" \/ typed # NoChar, Replaced = Operations(how),
         AllPossible(how), NEW s, NEW n, NEW D, Several(s, n, D, how), NEW op \in Replaced
  PROVE  /\ Cardinality({i \in DOMAIN carets' : carets'[i] = Landing(op)})
              = Cardinality({other \in Replaced : Landing(other) = Landing(op)})
         /\ op.caret = main => carets'[main'] = Landing(op)
<1> DEFINE A == {i \in DOMAIN carets' : carets'[i] = Landing(op)}
           B == {other \in Replaced : Landing(other) = Landing(op)}
<1>1. /\ n \in Nat /\ s \in [1 .. n -> Replaced]
      /\ \A o \in Replaced : \E j \in 1 .. n : s[j] = o
      /\ \A j \in 1 .. n : Landing(s[j]) = D.placed[j].at
  BY CaretsAre
<1>2. /\ \A k, l \in 1 .. n : s[k] = s[l] => k = l
      /\ main' = 1 /\ n # 0 /\ carets' = [i \in 1 .. n |-> carets'[i]]
  BY DEF Several, Planned, InTurn
<1>3. PICK q \in [1 .. n -> 1 .. n] :
        /\ s[q[1]].caret = main
        /\ \A i, j \in 1 .. n : q[i] = q[j] => i = j
        /\ \A k \in 1 .. n : \E i \in 1 .. n : q[i] = k
        /\ \A i \in 1 .. n : carets'[i] = D.placed[q[i]].at
  BY DEF Several
<1>4. DOMAIN carets' = 1 .. n /\ \A i \in 1 .. n : q[i] \in 1 .. n /\ carets'[i] = Landing(s[q[i]])
  BY <1>1, <1>2, <1>3
<1> DEFINE f == [i \in A |-> s[q[i]]]
<1>5. IsFiniteSet(A)
  <2>1. A \subseteq 1 .. n
    BY <1>4
  <2>2. 1 \in Int /\ n \in Int
    BY <1>1
  <2> HIDE DEF A
  <2> QED BY <2>1, <2>2, FS_Interval, FS_Subset
<1>6. \A i \in A : i \in 1 .. n /\ s[q[i]] \in B
  BY <1>1, <1>4
<1>7. \A z \in B : \E i \in A : s[q[i]] = z
  <2> TAKE z \in B
  <2>1. PICK k \in 1 .. n : s[k] = z
    BY <1>1
  <2>2. PICK i \in 1 .. n : q[i] = k
    BY <1>3
  <2>3. i \in A
    BY <1>4, <2>1, <2>2
  <2> QED BY <2>1, <2>2, <2>3
<1> HIDE DEF A, B
<1>8. f \in [A -> B] /\ \A i \in A : f[i] = s[q[i]]
  BY <1>6
<1>9. \A x, y \in A : f[x] = f[y] => x = y
  BY <1>2, <1>3, <1>4, <1>6, <1>8
<1> HIDE DEF f
<1>10. \A z \in B : \E i \in A : f[i] = z
  BY <1>7, <1>8
<1>11. Cardinality(B) = Cardinality(A)
  BY <1>5, <1>8, <1>9, <1>10, SameNumber
<1>12. ASSUME op.caret = main PROVE carets'[main'] = Landing(op)
  <2>1. \A o \in Replaced : o = Operation(o.caret, how)
    BY EachIsPossible, PossibleFits
  <2>2. 1 \in 1 .. n
    BY <1>1, <1>2
  <2>3. s[q[1]] \in Replaced
    BY <1>1, <1>4, <2>2
  <2>4. s[q[1]] = op
    BY <1>3, <1>12, <2>1, <2>3
  <2> QED BY <1>2, <1>4, <2>2, <2>4
<1> QED BY <1>11, <1>12 DEF A, B

\* Replacements at several carets, from the last position to the first: each
\* text is where its trigger was, no other character has changed, and each
\* caret is where its own rule wants it.
THEOREM SeveralCaretsLand == Spec => CaretsLand
<1> DEFINE Lands ==
      /\ Len(doc') = Len(doc) + Shift(Len(doc))
      /\ \A op \in Replaced :
           LET s == op.start + Shift(op.start) IN SubSeq(doc', s + 1, s + Size(op)) = op.rule.text
      /\ \A i \in DOMAIN doc :
           (\A op \in Replaced : i \notin op.start + 1 .. op.end) => doc'[i + Shift(i - 1)] = doc[i]
      /\ \A op \in Replaced :
           /\ Cardinality({i \in DOMAIN carets' : carets'[i] = Landing(op)})
                = Cardinality({other \in Replaced : Landing(other) = Landing(op)})
           /\ op.caret = main => carets'[main'] = Landing(op)
<1>1. Inv /\ [Next]_vars => [AtSeveral => Lands]_vars
  <2> SUFFICES ASSUME Inv, [Next]_vars, AtSeveral PROVE Lands
    OBVIOUS
  <2>1. TypeOK /\ AfterTyped
    BY DEF Inv
  <2>2. PICK how : /\ how = "manual" \/ typed # NoChar
                   /\ Replaced = Operations(how)
                   /\ AllPossible(how) /\ ApplyAll(Operations(how))
    BY <2>1, SeveralAre
  <2>3. PICK s, n, D : Several(s, n, D, how)
    BY <2>1, <2>2, SeveralReplaced
  <2> QED BY <2>1, <2>2, <2>3, TextsLand, CaretsLandThere
<1> QED BY <1>1, ExpansionInvariant, PTL DEF Spec, CaretsLand

(***************************************************************************)
(* The order of tabstops.                                                  *)
(***************************************************************************)
Finals(source) == {i \in Tabstops(source) : Number[source[i]] = 0}

\* A session's positions are the tabstops as they are ordered, and perhaps the
\* cursor.
LEMMA StopsAre ==
  ASSUME NEW source \in Source, NEW n, n = Cardinality(Tabstops(source))
  PROVE  /\ n \in Nat /\ Stops(source) \in Seq(Nat)
         /\ Stops(source) # <<>> => n # 0
         /\ \A k \in 1 .. n : Stops(source)[k] = Offset(source, InOrder(source)[k])
         /\ \/ /\ Len(Stops(source)) = n + 1 /\ Finals(source) = {} /\ Cursors(source) # {}
               /\ Stops(source)[n + 1] = CursorOffset(source)
            \/ /\ Len(Stops(source)) = n
               /\ \/ n = 0 \/ Cursors(source) = {} \/ Finals(source) # {}
                  \/ Stops(source)[n] = CursorOffset(source)
<1> DEFINE order == InOrder(source)
           U == 0 .. Len(Text(source))
           stops == [k \in DOMAIN order |-> Offset(source, order[k])]
           c == CursorOffset(source)
<1>1. IsFiniteSet(Tabstops(source)) /\ order \in [1 .. n -> Tabstops(source)]
  BY TabstopsInOrder
<1>2. n \in Nat
  BY <1>1, FS_CardinalityType
<1>3. \A i \in Tabstops(source) : Offset(source, i) \in Nat
  BY OrderIsNumber, OffsetsInText
<1>4. Stops(source) \in Seq(Nat)
  <2>1. Stops(source) \in Seq(U) /\ U \subseteq Nat
    BY StopsInText
  <2> HIDE DEF U
  <2> QED BY <2>1, ListOfMore
<1>5. \/ Stops(source) = stops /\ (stops = <<>> \/ Cursors(source) = {} \/ Finals(source) # {} \/ Last(stops) = c)
      \/ Stops(source) = Append(stops, c) /\ Finals(source) = {} /\ Cursors(source) # {} /\ stops # <<>>
  BY DEF Stops, Finals
<1>6. Cursors(source) # {} => c \in Nat
  BY CursorInText
<1> HIDE DEF order, c
<1>7. stops \in [1 .. n -> Nat] /\ \A k \in 1 .. n : stops[k] = Offset(source, order[k])
  BY <1>1, <1>3
<1> HIDE DEF stops
<1>8. stops \in Seq(Nat) /\ Len(stops) = n
  BY <1>2, <1>7, IsList
<1>9. stops # <<>> <=> n # 0
  BY <1>8
<1>10. CASE Stops(source) = stops /\ (stops = <<>> \/ Cursors(source) = {} \/ Finals(source) # {} \/ Last(stops) = c)
  <2>1. Last(stops) = stops[n]
    BY <1>8 DEF Last
  <2> QED BY <1>2, <1>4, <1>7, <1>8, <1>9, <1>10, <2>1 DEF order, c
<1>11. CASE Stops(source) = Append(stops, c) /\ Finals(source) = {} /\ Cursors(source) # {} /\ stops # <<>>
  <2>1. /\ Len(Append(stops, c)) = n + 1
        /\ \A k \in 1 .. n : Append(stops, c)[k] = stops[k]
        /\ Append(stops, c)[n + 1] = c
    BY <1>2, <1>6, <1>8, <1>11
  <2> QED BY <1>2, <1>4, <1>7, <1>9, <1>11, <2>1 DEF order, c
<1> QED BY <1>5, <1>10, <1>11

\* The positions are those of the marks in the order of their numbers, and the
\* last is that of tabstop 0 or else of the cursor.
Visits(visited, source, at) ==
  LET final == Finals(source)
  IN /\ \A i, j \in Tabstops(source) \ final :
          \/ Number[source[i]] < Number[source[j]]
          \/ Number[source[i]] = Number[source[j]] /\ i < j
          =>
            \E k, l \in DOMAIN visited : k < l /\ visited[k] = at[i] /\ visited[l] = at[j]
     /\ final # {} => Last(visited) = at[Max(final)]
     /\ final = {} /\ Cursors(source) # {} => Last(visited) = at[Min(Cursors(source))]
     /\ ToSet(visited) \subseteq Range(at)

\* So are those of a rule's replacement that begins at b.
LEMMA StopsVisit ==
  ASSUME NEW source \in Source, Stops(source) # <<>>, NEW b \in Nat
  PROVE  Visits([k \in DOMAIN Stops(source) |-> b + Stops(source)[k]], source,
                [i \in DOMAIN source |-> b + Offset(source, i)])
<1> DEFINE n == Cardinality(Tabstops(source))
           stops == Stops(source)
           order == InOrder(source)
           N == Len(source)
           final == Finals(source)
           visited == [k \in DOMAIN stops |-> b + stops[k]]
           at == [i \in DOMAIN source |-> b + Offset(source, i)]
           Ord(i) == Order(source[i])
           Num(i) == Number[source[i]]
<1>1. /\ n \in Nat /\ n # 0 /\ stops \in Seq(Nat)
      /\ \A k \in 1 .. n : stops[k] = Offset(source, order[k])
      /\ \/ /\ Len(stops) = n + 1 /\ final = {} /\ Cursors(source) # {}
            /\ stops[n + 1] = CursorOffset(source)
         \/ /\ Len(stops) = n
            /\ \/ n = 0 \/ Cursors(source) = {} \/ final # {} \/ stops[n] = CursorOffset(source)
  BY StopsAre
<1>2. /\ IsFiniteSet(Tabstops(source)) /\ order \in [1 .. n -> Tabstops(source)]
      /\ \A k, l \in 1 .. n : k < l => (Ord(order[k]) < Ord(order[l])
                                        \/ (Ord(order[k]) = Ord(order[l]) /\ order[k] < order[l]))
  BY TabstopsInOrder
<1>3. N \in Nat /\ DOMAIN source = 1 .. N
  BY DEF Source
<1>4. \A i \in Tabstops(source) : /\ i \in 1 .. N /\ Num(i) \in 0 .. 9 /\ Ord(i) \in 1 .. 10
                                  /\ Ord(i) = IF Num(i) = 0 THEN 10 ELSE Num(i)
  BY OrderIsNumber
<1>5. Cursors(source) # {} =>
        /\ Min(Cursors(source)) \in 1 .. N
        /\ CursorOffset(source) = Offset(source, Min(Cursors(source)))
  BY CursorInText DEF CursorOffset
<1>6. final = {i \in Tabstops(source) : Num(i) = 0}
  BY DEF Finals
<1> HIDE DEF Ord, Num, final, order, n, stops, N
<1>7. /\ DOMAIN visited = DOMAIN stops /\ \A k \in DOMAIN stops : visited[k] = b + stops[k]
      /\ DOMAIN at = 1 .. N /\ \A i \in 1 .. N : at[i] = b + Offset(source, i)
  BY <1>3
<1>19. stops \in Seq(Nat) => Len(visited) = Len(stops)
  OBVIOUS
<1> HIDE DEF visited, at
<1>8. DOMAIN stops = 1 .. Len(stops) /\ \A k \in 1 .. n : k \in DOMAIN stops
  BY <1>1
<1>9. \A k \in 1 .. n : order[k] \in Tabstops(source) /\ order[k] \in 1 .. N /\ visited[k] = at[order[k]]
  BY <1>1, <1>2, <1>4, <1>7, <1>8
<1>10. \A k, l \in 1 .. n : order[k] = order[l] => k = l
  <2> SUFFICES ASSUME NEW k \in 1 .. n, NEW l \in 1 .. n, order[k] = order[l], k < l PROVE FALSE
    <3>1. \A k, l \in 1 .. n : k < l \/ l < k \/ k = l
      BY <1>1
    <3> QED BY <3>1
  <2>1. Ord(order[k]) \in Int /\ order[k] \in Int
    BY <1>4, <1>9
  <2>2. Ord(order[k]) < Ord(order[k]) \/ order[k] < order[k]
    BY <1>2
  <2> QED BY <2>1, <2>2
<1>11. \A i \in Tabstops(source) : \E k \in 1 .. n : order[k] = i
  BY <1>2, <1>10, EnumerationIsOnto DEF n
<1>12. ASSUME NEW i \in Tabstops(source) \ final, NEW j \in Tabstops(source) \ final,
              Num(i) < Num(j) \/ (Num(i) = Num(j) /\ i < j)
       PROVE  \E k, l \in DOMAIN visited : k < l /\ visited[k] = at[i] /\ visited[l] = at[j]
  <2>1. PICK k \in 1 .. n : order[k] = i
    BY <1>11
  <2>2. PICK l \in 1 .. n : order[l] = j
    BY <1>11
  <2>3. /\ Ord(i) \in Nat /\ Ord(j) \in Nat /\ i \in Nat /\ j \in Nat
        /\ Ord(i) < Ord(j) \/ (Ord(i) = Ord(j) /\ i < j)
    BY <1>3, <1>4, <1>6, <1>12
  <2>4. k # l
    <3>1. i # j
      BY <2>3
    <3> QED BY <2>1, <2>2, <3>1
  <2>5. ~(l < k)
    <3>1. ~(Ord(j) < Ord(i)) /\ ~(Ord(j) = Ord(i) /\ j < i)
      BY <2>3
    <3> QED BY <1>2, <2>1, <2>2, <3>1
  <2>6. k < l
    BY <1>1, <2>4, <2>5
  <2> QED BY <1>7, <1>8, <1>9, <2>1, <2>2, <2>6
<1>13. Len(visited) = Len(stops)
  BY <1>1, <1>19
<1>14. ASSUME final # {} PROVE Last(visited) = at[Max(final)]
  <2>1. Len(stops) = n
    BY <1>1, <1>14
  <2>2. final \in SUBSET (0 .. N)
    BY <1>3, <1>4, <1>6
  <2>3. Max(final) \in final /\ \A y \in final : Max(final) >= y
    BY <1>3, <1>14, <2>2, MaxIsGreatest
  <2> DEFINE m == Max(final)
  <2>4. m \in final /\ m \in Tabstops(source) /\ m \in 1 .. N /\ \A y \in final : m >= y
    BY <1>4, <1>6, <2>3
  <2> HIDE DEF m
  <2>5. PICK k \in 1 .. n : order[k] = m
    BY <1>11, <2>4
  <2>6. k = n
    <3> SUFFICES ASSUME k < n PROVE FALSE
      BY <1>1
    <3>1. n \in 1 .. n
      BY <1>1
    <3>2. Ord(m) = 10
      BY <1>4, <1>6, <2>4
    <3>3. Ord(order[n]) \in 1 .. 10 /\ order[n] \in Tabstops(source) /\ order[n] \in 1 .. N
      BY <1>4, <1>9, <3>1
    <3>4. Ord(m) < Ord(order[n]) \/ (Ord(m) = Ord(order[n]) /\ m < order[n])
      BY <1>2, <2>5, <3>1
    <3>5. Ord(order[n]) = 10 /\ m < order[n]
      BY <3>2, <3>3, <3>4
    <3>6. order[n] \in final
      BY <1>4, <1>6, <3>3, <3>5
    <3>7. m >= order[n]
      BY <2>4, <3>6
    <3> QED BY <1>3, <2>4, <3>3, <3>5, <3>7
  <2>7. Last(visited) = at[m]
    BY <1>9, <1>13, <2>1, <2>5, <2>6 DEF Last
  <2> QED BY <2>7 DEF m
<1>15. ASSUME final = {}, Cursors(source) # {} PROVE Last(visited) = at[Min(Cursors(source))]
  <2>1. stops[Len(stops)] = Offset(source, Min(Cursors(source)))
    BY <1>1, <1>5, <1>15
  <2>2. Len(stops) \in DOMAIN stops
    <3>1. Len(stops) \in Nat /\ Len(stops) # 0
      BY <1>1
    <3>2. Len(stops) \in 1 .. Len(stops)
      BY <3>1
    <3> QED BY <1>8, <3>2
  <2>3. Last(visited) = visited[Len(stops)]
    BY <1>13 DEF Last
  <2> QED BY <1>5, <1>7, <1>15, <2>1, <2>2, <2>3
<1>16. ASSUME NEW k \in DOMAIN visited PROVE \E i \in DOMAIN at : visited[k] = at[i]
  <2>1. CASE k \in 1 .. n
    BY <1>7, <1>9, <2>1
  <2>2. CASE k \notin 1 .. n
    <3>1. k = n + 1 /\ Len(stops) = n + 1
      <4>1. k \in 1 .. Len(stops) /\ (Len(stops) = n \/ Len(stops) = n + 1) /\ n \in Nat
        BY <1>1, <1>7, <1>8
      <4> QED BY <2>2, <4>1
    <3>2. Cursors(source) # {} /\ stops[k] = CursorOffset(source)
      BY <1>1, <3>1
    <3> QED BY <1>5, <1>7, <3>2
  <2> QED BY <2>1, <2>2
<1>17. ToSet(visited) \subseteq Range(at)
  BY <1>16 DEF ToSet, Range
<1>18. Visits(visited, source, at)
  BY <1>12, <1>14, <1>15, <1>17 DEF Visits, final, Num
<1> QED BY <1>18 DEF visited, at, stops

\* A session begins with a single replacement's tabstops.
LEMMA BeginsOf ==
  ASSUME TypeOK, AfterTyped, NEW how, how = "manual" \/ typed # NoChar, Replaced = Operations(how),
         Replace(how), session' # NoSession, NEW op \in Replaced
  PROVE  /\ Possible(op) /\ op.rule.stops # <<>>
         /\ session'.positions = [i \in DOMAIN op.rule.stops |-> op.start + op.rule.stops[i]]
<1>1. ~EndSession
  BY DEF EndSession
<1>2. \A o \in Operations(how) : Possible(o) /\ ApplyReplacement(o)
  BY <1>1 DEF Replace, ApplyAll
<1>3. Possible(op) /\ ApplyReplacement(op)
  BY <1>2
<1> DEFINE positions == [i \in DOMAIN op.rule.stops |-> op.start + op.rule.stops[i]]
<1>4. positions # <<>> /\ session' = [positions |-> positions, current |-> 1]
  BY <1>1, <1>3 DEF ApplyReplacement
<1>5. op.rule.stops # <<>>
  <2> SUFFICES ASSUME op.rule.stops = <<>> PROVE positions = <<>>
    BY <1>4
  <2> QED OBVIOUS
<1> QED BY <1>3, <1>4, <1>5

\* A new session visits the marks 1 to 9 in the order of their numbers, and
\* then 0, or without 0 the cursor's.
THEOREM TabstopsVisitedInOrder == Spec => VisitedInOrder
<1> DEFINE InTheirOrder ==
      \A op \in Replaced :
        LET source == Rules[SubSeq(doc, op.start + 1, op.end)].source
            at == [i \in DOMAIN source |-> op.start + Offset(source, i)]
            visited == session'.positions
            final == {i \in Tabstops(source) : Number[source[i]] = 0}
        IN /\ \A i, j \in Tabstops(source) \ final :
                \/ Number[source[i]] < Number[source[j]]
                \/ Number[source[i]] = Number[source[j]] /\ i < j
                =>
                  \E k, l \in DOMAIN visited : k < l /\ visited[k] = at[i] /\ visited[l] = at[j]
           /\ final # {} => Last(visited) = at[Max(final)]
           /\ final = {} /\ Cursors(source) # {} => Last(visited) = at[Min(Cursors(source))]
           /\ ToSet(visited) \subseteq Range(at)
<1>1. Inv /\ [Next]_vars => [Begins => InTheirOrder]_vars
  <2> SUFFICES ASSUME Inv, [Next]_vars, Begins PROVE InTheirOrder
    OBVIOUS
  <2>1. TypeOK /\ AfterTyped /\ session' # NoSession
    BY DEF Inv, Begins
  <2>2. PICK how : (how = "manual" \/ typed # NoChar) /\ Replaced = Operations(how) /\ Replace(how)
    <3>1. CASE ManualReplace
      BY <3>1 DEF ManualReplace, Replaced
    <3>2. CASE ReplaceTyped
      BY <3>2 DEF ReplaceTyped, Replaced
    <3> QED BY <3>1, <3>2 DEF Begins
  <2> SUFFICES ASSUME NEW op \in Replaced
               PROVE  LET source == Rules[SubSeq(doc, op.start + 1, op.end)].source
                      IN Visits(session'.positions, source,
                                [i \in DOMAIN source |-> op.start + Offset(source, i)])
    BY DEF Visits, Finals
  <2> DEFINE source == Rules[SubSeq(doc, op.start + 1, op.end)].source
             b == op.start
             stops == Stops(source)
  <2>3. /\ Possible(op) /\ op.rule.stops # <<>>
        /\ session'.positions = [i \in DOMAIN op.rule.stops |-> b + op.rule.stops[i]]
    BY <2>1, <2>2, BeginsOf
  <2>4. /\ SubSeq(doc, b + 1, op.end) \in DOMAIN Rules /\ Fits(op, Trailing(how))
        /\ op.rule = Expanded[SubSeq(doc, b + 1, op.end)]
    BY <2>1, <2>2, <2>3, PossibleFits
  <2>5. source \in Source /\ op.rule.stops = stops /\ b \in Nat
    <3>1. b \in Nat
      BY <2>4 DEF Fits
    <3>2. source \in Source /\ op.rule.stops = stops
      <4> DEFINE t == SubSeq(doc, b + 1, op.end)
      <4>1. t \in DOMAIN Rules /\ op.rule = Expanded[t]
        BY <2>4
      <4> HIDE DEF t
      <4>2. Rules[t].source \in Source /\ op.rule.stops = Stops(Rules[t].source)
        <5>1. Rules[t].source \in Source
          BY <4>1, ExpandedTyped
        <5>2. Expanded[t].stops = Stops(Rules[t].source)
          BY <4>1 DEF Expanded
        <5> QED BY <4>1, <5>1, <5>2
      <4> QED BY <4>2 DEF t
    <3> QED BY <3>1, <3>2
  <2> HIDE DEF source, b, stops
  <2>6. session'.positions = [i \in DOMAIN stops |-> b + stops[i]] /\ stops # <<>>
    BY <2>3, <2>5
  <2>7. Visits(session'.positions, source, [i \in DOMAIN source |-> b + Offset(source, i)])
    BY <2>5, <2>6, StopsVisit DEF stops
  <2> QED BY <2>7 DEF source, b
<1> QED BY <1>1, ExpansionInvariant, PTL DEF Spec, VisitedInOrder
=============================================================================
