-------------------------- MODULE RuleDraftProofs ---------------------------
(***************************************************************************)
(* Proofs about the rule manager's window and the group manager on top of  *)
(* it, for names, words and edits and for drafts, searches and imports of  *)
(* any kind and size: types, that the fields and the rows are of the rules *)
(* they stand for, that only chosen rules change, and that no rule loses   *)
(* its group or gets another one.                                          *)
(*                                                                         *)
(* The group manager comes first, by itself; then what the loops of the    *)
(* window make, what its helpers do to the list and the fields, what every *)
(* step leaves of draft and list, and the invariant DraftInv.              *)
(***************************************************************************)
EXTENDS RuleDraft, ListLemmas

(***************************************************************************)
(* Drafts.                                                                 *)
(***************************************************************************)
LEMMA DraftParts ==
  ASSUME NEW d \in Draft
  PROVE  /\ d.items \in Seq(Rule) /\ d.groups \in Seq(Group)
         /\ DistinctGroups(d.groups)
         /\ d = [items |-> d.items, groups |-> d.groups]
         /\ DOMAIN d.groups = 1 .. Len(d.groups) /\ Len(d.groups) \in Nat
         /\ DOMAIN d.items = 1 .. Len(d.items) /\ Len(d.items) \in Nat
         /\ \A i \in DOMAIN d.items : d.items[i] \in Rule
         /\ \A g \in DOMAIN d.groups : d.groups[g] \in Group
<1>1. d \in [items : Seq(Rule), groups : Seq(Group)] /\ DistinctGroups(d.groups)
  BY DEF Draft
<1> QED BY <1>1, LenProperties

LEMMA EmptyIsDraft == EmptyDocument \in Draft
<1>1. <<>> \in Seq(Rule) /\ <<>> \in Seq(Group)
  BY EmptySeq
<1>2. DistinctGroups(<<>>)
  BY DEF DistinctGroups
<1> QED BY <1>1, <1>2 DEF EmptyDocument, Draft

\* Rules are relinked one by one, and only in their group.
LEMMA RelinkedProperties ==
  ASSUME NEW items \in Seq(Rule), NEW old, NEW new \in Name \cup {NoGroup}
  PROVE  /\ Relinked(items, old, new) \in Seq(Rule)
         /\ DOMAIN Relinked(items, old, new) = DOMAIN items
         /\ \A i \in DOMAIN items :
              /\ Relinked(items, old, new)[i] =
                   [items[i] EXCEPT !.group = Relinked(items, old, new)[i].group]
              /\ Relinked(items, old, new)[i].group =
                   IF items[i].group = old THEN new ELSE items[i].group
<1>1. Len(items) \in Nat /\ DOMAIN items = 1 .. Len(items) /\ \A i \in DOMAIN items : items[i] \in Rule
  BY LenProperties
<1>2. \A i \in DOMAIN items : [items[i] EXCEPT !.group = new] \in Rule
  BY <1>1 DEF Rule
<1>3. Relinked(items, old, new) \in [1 .. Len(items) -> Rule]
  BY <1>1, <1>2 DEF Relinked
<1>4. Relinked(items, old, new) \in Seq(Rule)
  BY <1>1, <1>3, SeqDef
<1>5. ASSUME NEW i \in DOMAIN items
      PROVE  /\ Relinked(items, old, new)[i] =
                  [items[i] EXCEPT !.group = Relinked(items, old, new)[i].group]
             /\ Relinked(items, old, new)[i].group =
                  IF items[i].group = old THEN new ELSE items[i].group
  <2>1. items[i] \in Rule
    BY <1>1
  <2>2. Relinked(items, old, new)[i] =
          IF items[i].group = old THEN [items[i] EXCEPT !.group = new] ELSE items[i]
    BY DEF Relinked
  <2>3. [items[i] EXCEPT !.group = new].group = new
        /\ items[i] = [items[i] EXCEPT !.group = items[i].group]
    BY <2>1 DEF Rule
  <2> QED BY <2>2, <2>3
<1> QED BY <1>1, <1>3, <1>4, <1>5

(***************************************************************************)
(* The copy after a command.                                               *)
(***************************************************************************)
\* The groups after fields were applied.
LEMMA AppliedGroups ==
  ASSUME work \in Draft, NEW e \in GroupEdits, e.id # NoGroup,
         IF creating THEN current = None ELSE current \in DOMAIN work.groups
  PROVE  /\ Applied(e).groups \in Seq(Group)
         /\ Len(Applied(e).groups) = IF creating THEN Len(work.groups) + 1 ELSE Len(work.groups)
         /\ \A g \in DOMAIN work.groups : g # current => Applied(e).groups[g] = work.groups[g]
         /\ creating => Applied(e).groups[Len(work.groups) + 1].id = e.id
         /\ ~creating => Applied(e).groups[current].id = e.id
<1>1. /\ work.groups \in Seq(Group) /\ Len(work.groups) \in Nat
      /\ DOMAIN work.groups = 1 .. Len(work.groups)
  BY DraftParts
<1>2. Described(e) \in Group /\ Described(e).id = e.id
  BY GroupManagerConstants DEF Described, Group
<1>3. CASE creating
  <2>1. Applied(e).groups = Append(work.groups, Described(e))
    BY <1>3 DEF Applied
  <2>2. /\ Append(work.groups, Described(e)) \in Seq(Group)
        /\ Len(Append(work.groups, Described(e))) = Len(work.groups) + 1
        /\ \A g \in 1 .. Len(work.groups) :
             Append(work.groups, Described(e))[g] = work.groups[g]
        /\ Append(work.groups, Described(e))[Len(work.groups) + 1] = Described(e)
    BY <1>1, <1>2, AppendProperties
  <2> QED BY <1>1, <1>2, <1>3, <2>1, <2>2
<1>4. CASE ~creating
  <2>1. Applied(e).groups = [work.groups EXCEPT ![current] = Described(e)]
    BY <1>4 DEF Applied
  <2>2. current \in 1 .. Len(work.groups)
    BY <1>1, <1>4
  <2>3. /\ [work.groups EXCEPT ![current] = Described(e)] \in Seq(Group)
        /\ Len([work.groups EXCEPT ![current] = Described(e)]) = Len(work.groups)
        /\ \A g \in 1 .. Len(work.groups) :
             [work.groups EXCEPT ![current] = Described(e)][g] =
               IF g = current THEN Described(e) ELSE work.groups[g]
    BY <1>1, <1>2, <2>2, ExceptSeq
  <2> QED BY <1>1, <1>2, <1>4, <2>1, <2>2, <2>3
<1> QED BY <1>3, <1>4

\* The rules after fields were applied.
LEMMA AppliedItems ==
  ASSUME work \in Draft, NEW e \in GroupEdits, e.id # NoGroup
  PROVE  Applied(e).items = IF creating THEN work.items
                            ELSE Relinked(work.items, work.groups[current].id, e.id)
<1>1. work = [items |-> work.items, groups |-> work.groups]
  BY DraftParts
<1>2. CASE creating
  BY <1>1, <1>2 DEF Applied
<1>3. CASE ~creating
  BY <1>3 DEF Applied
<1> QED BY <1>2, <1>3

LEMMA AppliedIsDraft ==
  ASSUME work \in Draft, NEW e \in GroupEdits, e.id # NoGroup,
         IF creating THEN current = None ELSE current \in DOMAIN work.groups,
         Valid(Applied(e))
  PROVE  Applied(e) \in Draft
<1>1. Applied(e) = [items |-> Applied(e).items, groups |-> Applied(e).groups]
  <2>1. work = [items |-> work.items, groups |-> work.groups]
    BY DraftParts
  <2>2. CASE creating
    BY <2>1, <2>2 DEF Applied
  <2>3. CASE ~creating
    BY <2>3 DEF Applied
  <2> QED BY <2>2, <2>3
<1>2. Applied(e).groups \in Seq(Group)
  BY AppliedGroups
<1>3. work.items \in Seq(Rule)
  BY DraftParts
<1>4. e.id \in Name \cup {NoGroup}
  BY GroupManagerConstants
<1>5. Relinked(work.items, work.groups[current].id, e.id) \in Seq(Rule)
  BY <1>3, <1>4, RelinkedProperties
<1>6. Applied(e).items \in Seq(Rule)
  BY <1>3, <1>5, AppliedItems
<1>7. DistinctGroups(Applied(e).groups)
  BY DEF Valid
<1>8. [items |-> Applied(e).items, groups |-> Applied(e).groups]
        \in [items : Seq(Rule), groups : Seq(Group)]
  BY <1>2, <1>6
<1> QED BY <1>1, <1>7, <1>8 DEF Draft

\* The copy without the current group.
LEMMA WithoutCurrentParts ==
  ASSUME work \in Draft, current \in DOMAIN work.groups
  PROVE  /\ WithoutCurrent.groups \in Seq(Group)
         /\ Len(WithoutCurrent.groups) = Len(work.groups) - 1
         /\ \A g \in 1 .. Len(work.groups) - 1 :
              WithoutCurrent.groups[g] = work.groups[IF g < current THEN g ELSE g + 1]
         /\ WithoutCurrent.items = Relinked(work.items, work.groups[current].id, NoGroup)
         /\ Valid(WithoutCurrent) => WithoutCurrent \in Draft
<1>1. /\ work.groups \in Seq(Group) /\ work.items \in Seq(Rule)
      /\ Len(work.groups) \in Nat /\ DOMAIN work.groups = 1 .. Len(work.groups)
  BY DraftParts
<1>2. /\ WithoutCurrent.groups = RemoveAt(work.groups, current)
      /\ WithoutCurrent.items = Relinked(work.items, work.groups[current].id, NoGroup)
      /\ WithoutCurrent = [items |-> WithoutCurrent.items, groups |-> WithoutCurrent.groups]
  BY DEF WithoutCurrent
<1>3. /\ RemoveAt(work.groups, current) \in Seq(Group)
      /\ Len(RemoveAt(work.groups, current)) = Len(work.groups) - 1
      /\ \A g \in 1 .. Len(work.groups) - 1 :
           RemoveAt(work.groups, current)[g] =
             IF g < current THEN work.groups[g] ELSE work.groups[g + 1]
  BY <1>1, RemoveAtProperties
<1>4. WithoutCurrent.items \in Seq(Rule)
  BY <1>1, <1>2, RelinkedProperties
<1>5. ASSUME Valid(WithoutCurrent) PROVE WithoutCurrent \in Draft
  <2>1. DistinctGroups(WithoutCurrent.groups)
    BY <1>5 DEF Valid
  <2>2. [items |-> WithoutCurrent.items, groups |-> WithoutCurrent.groups]
          \in [items : Seq(Rule), groups : Seq(Group)]
    BY <1>2, <1>3, <1>4
  <2> QED BY <1>2, <2>1, <2>2 DEF Draft
<1> QED BY <1>1, <1>2, <1>3, <1>5

(***************************************************************************)
(* Types.                                                                  *)
(***************************************************************************)
LEMMA GroupInitTyped == GroupClosed => GroupTypeOK
BY EmptyIsDraft DEF GroupClosed, GroupTypeOK

\* What refreshList selects is a group of the list, or nothing.
LEMMA RefreshTyped ==
  ASSUME NEW d \in Draft, RefreshGroups(d)
  PROVE  /\ creating' \in BOOLEAN
         /\ current' \in DOMAIN d.groups \cup {None}
         /\ creating' <=> current' = None
<1>1. DOMAIN d.groups = 1 .. Len(d.groups) /\ Len(d.groups) \in Nat /\ d.groups \in Seq(Group)
  BY DraftParts
<1>2. CASE d.groups = <<>>
  BY <1>2 DEF RefreshGroups, BeginNew, None
<1>3. CASE d.groups # <<>>
  <2>1. Len(d.groups) # 0
    BY <1>1, <1>3, EmptySeq
  <2>2. current' = 1 /\ creating' = FALSE
    BY <1>3 DEF RefreshGroups, LoadGroup
  <2>3. 1 \in DOMAIN d.groups /\ 1 # None
    BY <1>1, <2>1 DEF None
  <2> QED BY <2>2, <2>3
<1> QED BY <1>2, <1>3

LEMMA GroupStepTyped ==
  ASSUME GroupTypeOK, [GroupNext]_gvars
  PROVE  GroupTypeOK'
<1>1. CASE UNCHANGED gvars
  BY <1>1 DEF gvars, GroupTypeOK
<1>2. ASSUME work' \in Draft /\ ShowGroups(work') PROVE GroupTypeOK'
  <2>1. /\ creating' \in BOOLEAN
        /\ current' \in DOMAIN work'.groups \cup {None}
        /\ creating' <=> current' = None
    BY <1>2, RefreshTyped DEF ShowGroups
  <2> QED BY <1>2, <2>1 DEF ShowGroups, GroupTypeOK
<1>3. ASSUME NEW g \in DOMAIN work.groups, SelectGroup(g) PROVE GroupTypeOK'
  <2>1. g # None
    BY <1>3, DraftParts DEF GroupTypeOK, None
  <2> QED BY <1>3, <2>1 DEF SelectGroup, LoadGroup, GroupTypeOK
<1>4. ASSUME StartNewGroup PROVE GroupTypeOK'
  BY <1>4 DEF StartNewGroup, BeginNew, GroupTypeOK
<1>5. ASSUME NEW e \in GroupEdits, ApplyGroup(e) PROVE GroupTypeOK'
  <2>1. work \in Draft /\ IF creating THEN current = None ELSE current \in DOMAIN work.groups
    BY <1>5 DEF GroupTypeOK, ApplyGroup
  <2>2. work' = Applied(e) /\ Applied(e) \in Draft
    BY <1>5, <2>1, AppliedIsDraft DEF ApplyGroup
  <2>3. Len(work.groups) \in Nat /\ DOMAIN work.groups = 1 .. Len(work.groups)
    BY <2>1, DraftParts
  <2>4. /\ Len(work'.groups) = IF creating THEN Len(work.groups) + 1 ELSE Len(work.groups)
        /\ DOMAIN work'.groups = 1 .. Len(work'.groups)
    BY <1>5, <2>1, <2>2, AppliedGroups, DraftParts DEF ApplyGroup
  <2>5. current' \in DOMAIN work'.groups /\ current' # None /\ creating' = FALSE
    BY <1>5, <2>1, <2>3, <2>4 DEF ApplyGroup, LoadGroup, None
  <2> QED BY <1>5, <2>2, <2>5 DEF ApplyGroup, GroupTypeOK
<1>6. ASSUME DeleteGroup PROVE GroupTypeOK'
  <2>1. work \in Draft /\ current \in DOMAIN work.groups
    BY <1>6 DEF GroupTypeOK, DeleteGroup
  <2>2. work' = WithoutCurrent /\ WithoutCurrent \in Draft
    BY <1>6, <2>1, WithoutCurrentParts DEF DeleteGroup
  <2>3. /\ creating' \in BOOLEAN
        /\ current' \in DOMAIN work'.groups \cup {None}
        /\ creating' <=> current' = None
    BY <1>6, <2>2, RefreshTyped DEF DeleteGroup
  <2> QED BY <1>6, <2>2, <2>3 DEF DeleteGroup, GroupTypeOK
<1>7. ASSUME CloseGroups PROVE GroupTypeOK'
  BY <1>7, EmptyIsDraft DEF CloseGroups, GroupTypeOK
<1> QED BY <1>1, <1>2, <1>3, <1>4, <1>5, <1>6, <1>7 DEF GroupNext, GroupStep

\* The copy is always a draft with distinct groups, and the fields are of one of
\* them or of one to be made.  (currentIndex_ and creating_ after every command.)
THEOREM GroupsTyped == GroupSpec => []GroupTypeOK
<1>1. GroupClosed => GroupTypeOK
  BY GroupInitTyped
<1>2. GroupTypeOK /\ [GroupNext]_gvars => GroupTypeOK'
  BY GroupStepTyped
<1> QED BY <1>1, <1>2, PTL DEF GroupSpec

(***************************************************************************)
(* Rules and their groups.                                                 *)
(***************************************************************************)
\* In a list of distinct groups, the group of a rule is the only one.
LEMMA HomeIsOne ==
  ASSUME NEW d, DistinctGroups(d.groups), NEW i, NEW h \in DOMAIN d.groups,
         d.groups[h].id = d.items[i].group
  PROVE  Home(d, i) = {h}
BY DEF Home, DistinctGroups

\* Renamed or not, the current group keeps its rules and the others theirs.
LEMMA ApplyKeepsGroups ==
  ASSUME GroupTypeOK, NEW e \in GroupEdits, ApplyGroup(e)
  PROVE  KeepsGroups
<1>1. /\ work \in Draft
      /\ IF creating THEN current = None ELSE current \in DOMAIN work.groups
      /\ e.id # NoGroup /\ ~DuplicateId(e.id)
      /\ work' = Applied(e) /\ Valid(Applied(e))
  BY DEF GroupTypeOK, ApplyGroup
<1>2. Applied(e) \in Draft
  BY <1>1, AppliedIsDraft
<1>3. /\ Applied(e).groups \in Seq(Group)
      /\ Len(Applied(e).groups) = IF creating THEN Len(work.groups) + 1 ELSE Len(work.groups)
      /\ \A g \in DOMAIN work.groups : g # current => Applied(e).groups[g] = work.groups[g]
      /\ ~creating => Applied(e).groups[current].id = e.id
  BY <1>1, AppliedGroups
<1>4. /\ work.items \in Seq(Rule) /\ DistinctGroups(work.groups)
      /\ Len(work.groups) \in Nat /\ DOMAIN work.groups = 1 .. Len(work.groups)
      /\ \A i \in DOMAIN work.items : work.items[i] \in Rule
  BY <1>1, DraftParts
<1>5. /\ DOMAIN Applied(e).groups = 1 .. Len(Applied(e).groups)
      /\ DistinctGroups(Applied(e).groups)
  BY <1>2, DraftParts
<1>6. /\ DOMAIN Applied(e).items = DOMAIN work.items
      /\ \A i \in DOMAIN work.items :
           /\ Applied(e).items[i] = [work.items[i] EXCEPT !.group = Applied(e).items[i].group]
           /\ Applied(e).items[i].group =
                IF ~creating /\ work.items[i].group = work.groups[current].id
                THEN e.id ELSE work.items[i].group
  <2>1. e.id \in Name \cup {NoGroup}
    BY GroupManagerConstants
  <2>2. CASE creating
    <3>1. Applied(e).items = work.items
      BY <1>1, <2>2, AppliedItems
    <3>2. \A i \in DOMAIN work.items :
            work.items[i] = [work.items[i] EXCEPT !.group = work.items[i].group]
      BY <1>4 DEF Rule
    <3> QED BY <2>2, <3>1, <3>2
  <2>3. CASE ~creating
    <3>1. Applied(e).items = Relinked(work.items, work.groups[current].id, e.id)
      BY <1>1, <2>3, AppliedItems
    <3> QED BY <1>4, <2>1, <2>3, <3>1, RelinkedProperties
  <2> QED BY <2>2, <2>3
<1>7. ASSUME NEW i \in DOMAIN work.items, Home(work, i) # {}
      PROVE  Home(Applied(e), i) = Home(work, i)
  <2>1. PICK h \in DOMAIN work.groups : work.groups[h].id = work.items[i].group
    BY <1>7 DEF Home
  <2>2. Home(work, i) = {h}
    BY <1>4, <2>1, HomeIsOne
  <2>3. h \in DOMAIN Applied(e).groups
    BY <1>3, <1>4, <1>5
  <2>4. Applied(e).groups[h].id = Applied(e).items[i].group
    <3>1. CASE h = current
      <4>1. ~creating
        BY <1>1, <1>4, <3>1 DEF None
      <4> QED BY <1>3, <1>6, <2>1, <3>1, <4>1
    <3>2. CASE h # current
      <4>1. Applied(e).groups[h] = work.groups[h]
        BY <1>3, <3>2
      <4>2. ~creating => work.groups[current].id # work.groups[h].id
        BY <1>1, <1>4, <3>2 DEF DistinctGroups
      <4>3. Applied(e).items[i].group = work.items[i].group
        BY <1>6, <2>1, <4>2
      <4> QED BY <2>1, <4>1, <4>3
    <3> QED BY <3>1, <3>2
  <2>5. Home(Applied(e), i) = {h}
    BY <1>5, <2>3, <2>4, HomeIsOne
  <2> QED BY <2>2, <2>5
<1>8. ~(Len(Applied(e).groups) < Len(work.groups))
  BY <1>3, <1>4
<1> QED BY <1>1, <1>6, <1>7, <1>8 DEF KeepsGroups

\* The rules of a deleted group are in none, the others stay where they are.
LEMMA DeleteKeepsGroups ==
  ASSUME GroupTypeOK, DeleteGroup
  PROVE  KeepsGroups
<1>1. /\ work \in Draft /\ current \in DOMAIN work.groups
      /\ work' = WithoutCurrent /\ Valid(WithoutCurrent)
  BY DEF GroupTypeOK, DeleteGroup
<1>2. /\ WithoutCurrent.groups \in Seq(Group)
      /\ Len(WithoutCurrent.groups) = Len(work.groups) - 1
      /\ \A g \in 1 .. Len(work.groups) - 1 :
           WithoutCurrent.groups[g] = work.groups[IF g < current THEN g ELSE g + 1]
      /\ WithoutCurrent.items = Relinked(work.items, work.groups[current].id, NoGroup)
      /\ WithoutCurrent \in Draft
  BY <1>1, WithoutCurrentParts
<1>3. /\ work.items \in Seq(Rule) /\ DistinctGroups(work.groups)
      /\ Len(work.groups) \in Nat /\ DOMAIN work.groups = 1 .. Len(work.groups)
  BY <1>1, DraftParts
<1>4. /\ DOMAIN WithoutCurrent.groups = 1 .. Len(work.groups) - 1
      /\ DistinctGroups(WithoutCurrent.groups)
  BY <1>2, DraftParts
<1>5. /\ DOMAIN WithoutCurrent.items = DOMAIN work.items
      /\ \A i \in DOMAIN work.items :
           /\ WithoutCurrent.items[i] =
                [work.items[i] EXCEPT !.group = WithoutCurrent.items[i].group]
           /\ WithoutCurrent.items[i].group =
                IF work.items[i].group = work.groups[current].id
                THEN NoGroup ELSE work.items[i].group
  BY <1>2, <1>3, RelinkedProperties
<1>6. ASSUME NEW i \in DOMAIN work.items, Home(work, i) # {}
      PROVE  Home(WithoutCurrent, i) = Shifted(Home(work, i), current)
  <2>1. PICK h \in DOMAIN work.groups : work.groups[h].id = work.items[i].group
    BY <1>6 DEF Home
  <2>2. Home(work, i) = {h}
    BY <1>3, <2>1, HomeIsOne
  <2>3. CASE h = current
    <3>1. WithoutCurrent.items[i].group = NoGroup
      BY <1>5, <2>1, <2>3
    <3>2. Home(WithoutCurrent, i) = {}
      BY <1>1, <3>1 DEF Home, Valid, GroupIds
    <3>3. Shifted(Home(work, i), current) = {}
      BY <2>2, <2>3 DEF Shifted
    <3> QED BY <3>2, <3>3
  <2>4. CASE h # current
    <3> DEFINE k == IF h < current THEN h ELSE h - 1
    <3>1. /\ k \in 1 .. Len(work.groups) - 1
          /\ h = IF k < current THEN k ELSE k + 1
      BY <1>1, <1>3, <2>4
    <3>2. WithoutCurrent.groups[k] = work.groups[h]
      BY <1>2, <3>1
    <3>3. work.groups[h].id # work.groups[current].id
      BY <1>1, <1>3, <2>4 DEF DistinctGroups
    <3>4. WithoutCurrent.items[i].group = work.items[i].group
      BY <1>5, <2>1, <3>3
    <3> HIDE DEF k
    <3>5. Home(WithoutCurrent, i) = {k}
      <4>1. /\ k \in DOMAIN WithoutCurrent.groups
            /\ WithoutCurrent.groups[k].id = WithoutCurrent.items[i].group
        BY <1>4, <2>1, <3>1, <3>2, <3>4
      <4> QED BY <1>4, <4>1, HomeIsOne
    <3>6. Shifted(Home(work, i), current) = {k}
      BY <2>2, <2>4 DEF Shifted, k
    <3> QED BY <3>5, <3>6
  <2> QED BY <2>3, <2>4
<1>7. Len(WithoutCurrent.groups) < Len(work.groups)
  BY <1>2, <1>3
<1> QED BY <1>1, <1>5, <1>6, <1>7 DEF KeepsGroups

\* A command that leaves the copy alone.
LEMMA UnchangedKeepsGroups ==
  ASSUME GroupTypeOK, showing, work' = work
  PROVE  KeepsGroups
<1>1. /\ \A i \in DOMAIN work.items : work.items[i] \in Rule
      /\ Len(work.groups) \in Nat
  BY DraftParts DEF GroupTypeOK
<1>2. \A i \in DOMAIN work.items :
        work.items[i] = [work.items[i] EXCEPT !.group = work.items[i].group]
  BY <1>1 DEF Rule
<1>3. ~(Len(work.groups) < Len(work.groups))
  BY <1>1
<1> QED BY <1>2, <1>3 DEF KeepsGroups

\* Applying and deleting groups keeps every rule in its group, whatever the
\* names, however many groups and rules there are.  (applyGroup, deleteGroup.)
THEOREM GroupsKeepTheirRules == GroupSpec => RulesKeepTheirGroups
<1>1. ASSUME GroupTypeOK, [GroupNext]_gvars PROVE [showing /\ showing' => KeepsGroups]_gvars
  <2>1. SUFFICES ASSUME GroupNext, showing, showing' PROVE KeepsGroups
    BY <1>1
  <2>2. ASSUME ShowGroups(work') PROVE KeepsGroups
    BY <2>1, <2>2 DEF ShowGroups
  <2>3. ASSUME NEW g \in DOMAIN work.groups, SelectGroup(g) PROVE KeepsGroups
    BY <1>1, <2>1, <2>3, UnchangedKeepsGroups DEF SelectGroup
  <2>4. ASSUME StartNewGroup PROVE KeepsGroups
    BY <1>1, <2>1, <2>4, UnchangedKeepsGroups DEF StartNewGroup
  <2>5. ASSUME NEW e \in GroupEdits, ApplyGroup(e) PROVE KeepsGroups
    BY <1>1, <2>5, ApplyKeepsGroups
  <2>6. ASSUME DeleteGroup PROVE KeepsGroups
    BY <1>1, <2>6, DeleteKeepsGroups
  <2>7. ASSUME CloseGroups PROVE KeepsGroups
    BY <2>1, <2>7 DEF CloseGroups
  <2> QED BY <2>1, <2>2, <2>3, <2>4, <2>5, <2>6, <2>7 DEF GroupNext, GroupStep
<1> QED BY <1>1, GroupsTyped, PTL DEF GroupSpec, RulesKeepTheirGroups

(***************************************************************************)
(* What the loops make.                                                    *)
(***************************************************************************)
\* Every row is of a rule, and shows it.
LEMMA VisibleProperties ==
  ASSUME NEW d, d.items \in Seq(Rule), NEW lk
  PROVE  /\ Len(Visible(d, lk)) \in Nat
         /\ DOMAIN Visible(d, lk) = 1 .. Len(Visible(d, lk))
         /\ \A r \in DOMAIN Visible(d, lk) :
              /\ Visible(d, lk)[r].index \in DOMAIN d.items
              /\ d.items[Visible(d, lk)[r].index].id = Visible(d, lk)[r].rule
<1> DEFINE Text(i) == IF lk.column = "state" THEN State(d, d.items[i]) ELSE d.items[i].trigger
           Before(i, j) == IF Text(i) = Text(j) THEN i < j
                           ELSE TextBefore(Text(i), Text(j)) = lk.ascending
           Place(s, i) == Cardinality({r \in DOMAIN s : Before(s[r], i)}) + 1
           N == Len(d.items)
           V == Seq(1 .. N)
           Next1(s, n) == IF Shown(d.items[n], lk) THEN InsertAt(s, Place(s, n), n) ELSE s
           Body(f) == [n \in 0 .. N |-> IF n = 0 THEN <<>>
                                        ELSE IF Shown(d.items[n], lk)
                                             THEN InsertAt(f[n - 1], Place(f[n - 1], n), n)
                                             ELSE f[n - 1]]
           sorted == CHOOSE f : f = Body(f)
           rows == sorted[N]
           G == [z \in V \X (1 .. N) |-> Next1(z[1], z[2])]
<1>1. N \in Nat /\ DOMAIN d.items = 1 .. N
  BY LenProperties
<1>2. <<>> \in V
  BY EmptySeq
<1>3. Visible(d, lk) = [r \in DOMAIN rows |-> [index |-> rows[r], rule |-> d.items[rows[r]].id]]
  BY DEF Visible
<1>4. ASSUME NEW s \in V, NEW n \in 1 .. N PROVE Next1(s, n) \in V
  <2> DEFINE R == {r \in DOMAIN s : Before(s[r], n)}
  <2>1. R \subseteq 1 .. Len(s) /\ Len(s) \in Nat
    BY LenProperties
  <2> HIDE DEF R
  <2>2. Cardinality(R) \in 0 .. Len(s)
    <3>1. IsFiniteSet(1 .. Len(s)) /\ Cardinality(1 .. Len(s)) = Len(s)
      <4>1. /\ IsFiniteSet(1 .. Len(s))
            /\ Cardinality(1 .. Len(s)) = IF 1 > Len(s) THEN 0 ELSE Len(s) - 1 + 1
        <5>1. 1 \in Int /\ Len(s) \in Int
          BY <2>1
        <5> QED BY <5>1, FS_Interval
      <4> QED BY <2>1, <4>1
    <3>2. IsFiniteSet(R) /\ Cardinality(R) <= Cardinality(1 .. Len(s))
      BY <2>1, <3>1, FS_Subset
    <3>3. Cardinality(R) \in Nat
      BY <3>2, FS_CardinalityType
    <3> QED BY <2>1, <3>1, <3>2, <3>3
  <2>3. Place(s, n) \in 1 .. Len(s) + 1
    BY <2>1, <2>2 DEF R
  <2> HIDE DEF Place
  <2>4. InsertAt(s, Place(s, n), n) \in V
    BY <2>3, InsertAtProperties
  <2> QED BY <2>4
<1> HIDE DEF Next1
<1>5. PICK f : Recursion(f, N, V, <<>>, G)
  <2>1. G \in [V \X (1 .. N) -> V]
    BY <1>4
  <2> HIDE DEF G, V, N
  <2> QED BY <1>1, <1>2, <2>1, RecursionExists
<1>6. \A n \in 1 .. N : f[n - 1] \in V /\ f[n] = Next1(f[n - 1], n)
  <2> TAKE n \in 1 .. N
  <2>1. f[n - 1] \in V
    <3> HIDE DEF N, V
    <3> QED BY <1>1, <1>5 DEF Recursion
  <2>2. G[<<f[n - 1], n>>] = Next1(f[n - 1], n)
    <3> HIDE DEF V, N
    <3> QED BY <2>1
  <2> HIDE DEF G
  <2> QED BY <1>5, <2>1, <2>2 DEF Recursion
<1> HIDE DEF G
<1>7. f = Body(f)
  <2>1. f = [n \in 0 .. N |-> f[n]] /\ f[0] = <<>>
    BY <1>5 DEF Recursion
  <2>2. \A n \in 1 .. N : f[n] = IF Shown(d.items[n], lk)
                                 THEN InsertAt(f[n - 1], Place(f[n - 1], n), n)
                                 ELSE f[n - 1]
    BY <1>6 DEF Next1
  <2> HIDE DEF Place, N
  <2> QED BY <1>1, <2>1, <2>2
<1>8. sorted = Body(sorted)
  <2> HIDE DEF Body
  <2> QED BY <1>7
<1> HIDE DEF sorted
<1>9. \A n \in 0 .. N : sorted[n] \in V
  <2>1. \A n \in 0 .. N : sorted[n] = IF n = 0 THEN <<>> ELSE Next1(sorted[n - 1], n)
    <3> HIDE DEF Place, N
    <3> QED BY <1>8 DEF Next1
  <2> HIDE DEF Body, N, V
  <2>2. sorted[0] \in V
    <3>1. 0 \in 0 .. N
      BY <1>1
    <3>2. sorted[0] = <<>>
      BY <2>1, <3>1
    <3> QED BY <1>2, <3>2
  <2>3. \A n \in 1 .. N : sorted[n - 1] \in V => sorted[n] \in V
    BY <1>1, <1>4, <2>1
  <2> QED BY <1>1, <2>2, <2>3, StaysIn
<1>10. rows \in V
  <2> HIDE DEF V, Body
  <2> QED BY <1>1, <1>9
<1> HIDE DEF rows, Body
<1>11. Len(rows) \in Nat /\ DOMAIN rows = 1 .. Len(rows) /\ \A r \in DOMAIN rows : rows[r] \in 1 .. N
  BY <1>10
<1> HIDE DEF N, V
<1>12. DOMAIN Visible(d, lk) = 1 .. Len(rows) /\ Len(Visible(d, lk)) = Len(rows)
  <2>1. DOMAIN Visible(d, lk) = 1 .. Len(rows)
    BY <1>3, <1>11
  <2>2. Visible(d, lk) \in Seq([index : {rows[r] : r \in DOMAIN rows},
                                rule : {d.items[rows[r]].id : r \in DOMAIN rows}])
    BY <1>3, <1>11
  <2>3. /\ Len(Visible(d, lk)) \in Nat
        /\ DOMAIN Visible(d, lk) = 1 .. Len(Visible(d, lk))
    BY <2>2, LenProperties
  <2> QED BY <1>11, <2>1, <2>3
<1> QED BY <1>1, <1>3, <1>11, <1>12

DistinctIds(items) == \A i, j \in DOMAIN items : items[i].id = items[j].id => i = j

\* The rules of a list, wherever they are.
Members(items) == {items[i] : i \in DOMAIN items}

\* A rule that is erased is the only one to go.
LEMMA RemoveAtMembers ==
  ASSUME NEW s \in Seq(Rule), DistinctIds(s), NEW p \in DOMAIN s
  PROVE  /\ DistinctIds(RemoveAt(s, p))
         /\ Members(RemoveAt(s, p)) = Members(s) \ {s[p]}
<1> DEFINE t == RemoveAt(s, p)
           Old(i) == IF i < p THEN i ELSE i + 1
<1>1. Len(s) \in Nat /\ DOMAIN s = 1 .. Len(s) /\ p \in 1 .. Len(s)
  BY LenProperties
<1>2. /\ t \in Seq(Rule) /\ Len(t) = Len(s) - 1
      /\ \A i \in 1 .. Len(s) - 1 : t[i] = IF i < p THEN s[i] ELSE s[i + 1]
  BY RemoveAtProperties
<1>3. DOMAIN t = 1 .. Len(s) - 1
  BY <1>2, LenProperties
<1> HIDE DEF t
<1>4. \A i \in DOMAIN t : Old(i) \in DOMAIN s /\ Old(i) # p /\ t[i] = s[Old(i)]
  BY <1>1, <1>2, <1>3
<1>5. \A i, j \in DOMAIN t : Old(i) = Old(j) => i = j
  BY <1>1, <1>3
<1>6. \A k \in DOMAIN s : k # p => \E i \in DOMAIN t : Old(i) = k
  <2> SUFFICES ASSUME NEW k \in DOMAIN s, k # p PROVE \E i \in DOMAIN t : Old(i) = k
    OBVIOUS
  <2>1. CASE k < p
    <3>1. k \in DOMAIN t /\ Old(k) = k
      BY <1>1, <1>3, <2>1
    <3> HIDE DEF Old
    <3> QED BY <3>1
  <2>2. CASE ~(k < p)
    <3>1. k - 1 \in DOMAIN t /\ Old(k - 1) = k
      BY <1>1, <1>3, <2>2
    <3> HIDE DEF Old
    <3> QED BY <3>1
  <2> QED BY <2>1, <2>2
<1> HIDE DEF Old
<1>7. DistinctIds(t)
  BY <1>4, <1>5 DEF DistinctIds
<1>8. ASSUME NEW x \in Members(t) PROVE x \in Members(s) \ {s[p]}
  <2>1. PICK i \in DOMAIN t : x = t[i]
    BY <1>8 DEF Members
  <2>2. s[Old(i)] # s[p]
    BY <1>4 DEF DistinctIds
  <2> QED BY <1>4, <2>1, <2>2 DEF Members
<1>9. ASSUME NEW x \in Members(s) \ {s[p]} PROVE x \in Members(t)
  <2>1. PICK k \in DOMAIN s : x = s[k]
    BY <1>9 DEF Members
  <2>2. PICK i \in DOMAIN t : Old(i) = k
    BY <1>6, <1>9, <2>1
  <2> QED BY <1>4, <2>1, <2>2 DEF Members
<1>10. Members(t) = Members(s) \ {s[p]}
  BY <1>8, <1>9
<1> QED BY <1>7, <1>10 DEF t

\* The rules that are left are those at other indices, and nothing else.
LEMMA ErasedProperties ==
  ASSUME NEW items \in Seq(Rule), DistinctIds(items), NEW indices
  PROVE  /\ Erased(items, indices) \in Seq(Rule)
         /\ DistinctIds(Erased(items, indices))
         /\ Members(Erased(items, indices)) = {items[i] : i \in DOMAIN items \ indices}
<1> DEFINE N == Len(items)
           V == Seq(Rule)
           Next1(s, n) == IF N - n + 1 \in indices \cap DOMAIN s THEN RemoveAt(s, N - n + 1) ELSE s
           Body(f) == [n \in 0 .. N |-> IF n = 0 THEN items
                                        ELSE IF N - n + 1 \in indices THEN RemoveAt(f[n - 1], N - n + 1)
                                        ELSE f[n - 1]]
           rest == CHOOSE f : f = Body(f)
           G == [z \in V \X (1 .. N) |-> Next1(z[1], z[2])]
           Above(n) == {i \in DOMAIN items : i > N - n /\ i \in indices}
           Left(n, s) == /\ s \in V /\ DistinctIds(s)
                         /\ \A i \in 1 .. N - n : i \in DOMAIN s /\ s[i] = items[i]
                         /\ Members(s) = {items[i] : i \in DOMAIN items \ Above(n)}
<1>1. N \in Nat /\ DOMAIN items = 1 .. N
  BY LenProperties
<1>2. Left(0, items)
  <2>1. Above(0) = {}
    BY <1>1
  <2> HIDE DEF Above, N
  <2> QED BY <1>1, <2>1 DEF Members
<1>3. ASSUME NEW n \in 1 .. N, NEW s, Left(n - 1, s)
      PROVE  /\ N - n + 1 \in DOMAIN s
             /\ Left(n, Next1(s, n))
  <2> DEFINE p == N - n + 1
  <2>1. /\ p \in 1 .. N /\ p \in 1 .. N - (n - 1) /\ p - 1 = N - n
        /\ \A i \in 1 .. N - n : i < p /\ i \in 1 .. N - (n - 1) /\ i \in 1 .. N
    BY <1>1
  <2>2. /\ s \in V /\ DistinctIds(s)
        /\ p \in DOMAIN s /\ s[p] = items[p]
        /\ \A i \in 1 .. N - n : i \in DOMAIN s /\ s[i] = items[i]
        /\ Members(s) = {items[i] : i \in DOMAIN items \ Above(n - 1)}
    BY <1>3, <2>1
  <2>3. CASE p \in indices
    <3>1. Above(n) = Above(n - 1) \cup {p}
      BY <1>1, <2>1, <2>3
    <3> HIDE DEF Above, N
    <3>2. {items[i] : i \in DOMAIN items \ Above(n)} = {items[i] : i \in DOMAIN items \ Above(n - 1)} \ {items[p]}
      BY <1>1, <2>1, <3>1 DEF DistinctIds
    <3>3. /\ RemoveAt(s, p) \in V /\ Len(RemoveAt(s, p)) = Len(s) - 1
          /\ \A i \in 1 .. Len(s) - 1 : RemoveAt(s, p)[i] = IF i < p THEN s[i] ELSE s[i + 1]
      BY <2>2, RemoveAtProperties
    <3>4. DistinctIds(RemoveAt(s, p)) /\ Members(RemoveAt(s, p)) = Members(s) \ {s[p]}
      BY <2>2, RemoveAtMembers
    <3>5. ASSUME NEW i \in 1 .. N - n
          PROVE  i \in DOMAIN RemoveAt(s, p) /\ RemoveAt(s, p)[i] = items[i]
      <4>1. i < p /\ p \in 1 .. Len(s) /\ i \in DOMAIN s /\ s[i] = items[i] /\ Len(s) \in Nat
        BY <2>1, <2>2, LenProperties
      <4>2. i \in 1 .. Len(s) - 1
        BY <4>1
      <4>3. DOMAIN RemoveAt(s, p) = 1 .. Len(s) - 1
        BY <3>3, LenProperties
      <4> QED BY <3>3, <4>1, <4>2, <4>3
    <3>6. Next1(s, n) = RemoveAt(s, p)
      BY <2>2, <2>3
    <3> HIDE DEF Next1, p, V
    <3> QED BY <2>2, <3>2, <3>3, <3>4, <3>5, <3>6 DEF p
  <2>4. CASE p \notin indices
    <3>1. Above(n) = Above(n - 1)
      BY <1>1, <2>1, <2>4
    <3>2. Next1(s, n) = s
      BY <2>4
    <3> HIDE DEF Above, N, V, Next1
    <3> QED BY <2>2, <3>1, <3>2
  <2> QED BY <2>2, <2>3, <2>4
<1>4. \A s \in V, n \in 1 .. N : Next1(s, n) \in V
  BY RemoveAtProperties
<1>5. PICK f : Recursion(f, N, V, items, G)
  <2>1. G \in [V \X (1 .. N) -> V] /\ items \in V
    <3> HIDE DEF Next1
    <3> QED BY <1>4
  <2> HIDE DEF G, V, N
  <2> QED BY <1>1, <2>1, RecursionExists
<1>6. \A n \in 1 .. N : f[n - 1] \in V /\ f[n] = Next1(f[n - 1], n)
  <2> TAKE n \in 1 .. N
  <2>1. f[n - 1] \in V
    <3> HIDE DEF N, V
    <3> QED BY <1>1, <1>5 DEF Recursion
  <2> HIDE DEF Next1
  <2>2. G[<<f[n - 1], n>>] = Next1(f[n - 1], n)
    <3> HIDE DEF V, N
    <3> QED BY <2>1
  <2> HIDE DEF G
  <2> QED BY <1>5, <2>1, <2>2 DEF Recursion
<1> HIDE DEF G
<1>7. f[0] = items /\ f = [n \in 0 .. N |-> f[n]]
  BY <1>5 DEF Recursion
<1>8. \A n \in 0 .. N : Left(n, f[n])
  <2> DEFINE T == {n \in 0 .. N : Left(n, f[n])}
  <2>1. 0 \in T
    <3> HIDE DEF N, Left
    <3> QED BY <1>1, <1>2, <1>7
  <2>2. ASSUME NEW n \in 1 .. N, n - 1 \in T PROVE n \in T
    <3> HIDE DEF Left, Next1
    <3>1. Left(n, Next1(f[n - 1], n))
      BY <1>3, <2>2
    <3>2. n \in 0 .. N
      BY <1>1
    <3> QED BY <1>6, <3>1, <3>2
  <2> HIDE DEF T, N
  <2>3. \A n \in 0 .. N : n \in T
    BY <1>1, <2>1, <2>2, IntervalInduction
  <2> QED BY <2>3 DEF T
<1>9. f = Body(f)
  <2>1. \A n \in 1 .. N : f[n] = IF N - n + 1 \in indices THEN RemoveAt(f[n - 1], N - n + 1)
                                 ELSE f[n - 1]
    <3> TAKE n \in 1 .. N
    <3>1. Left(n - 1, f[n - 1])
      <4> HIDE DEF Left
      <4> QED BY <1>1, <1>8
    <3>2. N - n + 1 \in DOMAIN f[n - 1]
      <4> HIDE DEF Left
      <4> QED BY <1>3, <3>1
    <3> QED BY <1>6, <3>2
  <2>2. \A n \in 0 .. N : f[n] = IF n = 0 THEN items
                                 ELSE IF N - n + 1 \in indices THEN RemoveAt(f[n - 1], N - n + 1)
                                 ELSE f[n - 1]
    <3>1. \A n \in 0 .. N : n = 0 \/ n \in 1 .. N
      BY <1>1
    <3> HIDE DEF N
    <3> QED BY <1>7, <2>1, <3>1
  <2> HIDE DEF N
  <2> QED BY <1>7, <2>2
<1>10. rest = Body(rest)
  <2> HIDE DEF Body
  <2> QED BY <1>9
<1> HIDE DEF rest
<1>11. rest[N] = f[N]
  <2> DEFINE T == {n \in 0 .. N : rest[n] = f[n]}
  <2>1. \A n \in 0 .. N : rest[n] = IF n = 0 THEN items
                                    ELSE IF N - n + 1 \in indices THEN RemoveAt(rest[n - 1], N - n + 1)
                                    ELSE rest[n - 1]
    <3> HIDE DEF N
    <3> QED BY <1>10
  <2>2. \A n \in 0 .. N : f[n] = IF n = 0 THEN items
                                 ELSE IF N - n + 1 \in indices THEN RemoveAt(f[n - 1], N - n + 1)
                                 ELSE f[n - 1]
    <3> HIDE DEF N
    <3> QED BY <1>9
  <2> HIDE DEF Body, N
  <2>3. 0 \in T
    BY <1>1, <2>1, <2>2
  <2>4. ASSUME NEW n \in 1 .. N, n - 1 \in T PROVE n \in T
    <3>1. n \in 0 .. N /\ n # 0 /\ rest[n - 1] = f[n - 1]
      BY <1>1, <2>4
    <3> QED BY <2>1, <2>2, <3>1
  <2> HIDE DEF T
  <2>5. \A n \in 0 .. N : n \in T
    BY <1>1, <2>3, <2>4, IntervalInduction
  <2> QED BY <1>1, <2>5 DEF T
<1>12. Erased(items, indices) = f[N]
  <2>1. Erased(items, indices) = rest[N]
    BY DEF Erased, rest
  <2> QED BY <1>11, <2>1
<1>13. Left(N, f[N])
  <2> HIDE DEF Left, N
  <2> QED BY <1>1, <1>8
<1>14. DOMAIN items \ Above(N) = DOMAIN items \ indices
  BY <1>1
<1> HIDE DEF Above, N, Body
<1> QED BY <1>12, <1>13, <1>14

\* Imported rules bring groups of their own.
LEMMA WithGroupsTyped ==
  ASSUME NEW gs \in Seq(Group), NEW rules \in Seq(Rule)
  PROVE  WithGroups(gs, rules) \in Seq(Group)
<1> DEFINE N == Len(rules)
           V == Seq(Group)
           Next1(s, n) == IF rules[n].group \in KnownNames(s) \cup {NoGroup} THEN s
                          ELSE Append(s, NewGroup(rules[n].group))
           Body(f) == [n \in 0 .. N |-> IF n = 0 THEN gs
                                        ELSE IF rules[n].group \in KnownNames(f[n - 1]) \cup {NoGroup}
                                             THEN f[n - 1]
                                             ELSE Append(f[n - 1], NewGroup(rules[n].group))]
           with == CHOOSE f : f = Body(f)
           G == [z \in V \X (1 .. N) |-> Next1(z[1], z[2])]
<1>1. N \in Nat /\ \A n \in 1 .. N : rules[n] \in Rule
  BY LenProperties
<1>2. \A s \in V, n \in 1 .. N : Next1(s, n) \in V
  <2> SUFFICES ASSUME NEW s \in V, NEW n \in 1 .. N, rules[n].group # NoGroup
               PROVE  Append(s, NewGroup(rules[n].group)) \in V
    OBVIOUS
  <2>1. rules[n].group \in Name
    BY <1>1 DEF Rule
  <2>2. NewGroup(rules[n].group) \in Group
    BY <2>1 DEF NewGroup, Group
  <2> QED BY <2>2, AppendProperties
<1>3. PICK f : Recursion(f, N, V, gs, G)
  <2>1. G \in [V \X (1 .. N) -> V] /\ gs \in V
    <3> HIDE DEF Next1
    <3> QED BY <1>2
  <2> HIDE DEF G, V, N
  <2> QED BY <1>1, <2>1, RecursionExists
<1>4. \A n \in 1 .. N : f[n] = Next1(f[n - 1], n)
  <2> TAKE n \in 1 .. N
  <2>1. f[n - 1] \in V
    <3> HIDE DEF N, V
    <3> QED BY <1>1, <1>3 DEF Recursion
  <2> HIDE DEF Next1
  <2>2. G[<<f[n - 1], n>>] = Next1(f[n - 1], n)
    <3> HIDE DEF V, N
    <3> QED BY <2>1
  <2> HIDE DEF G
  <2> QED BY <1>3, <2>2 DEF Recursion
<1> HIDE DEF G
<1>5. f = Body(f)
  <2>1. f[0] = gs /\ f = [n \in 0 .. N |-> f[n]]
    BY <1>3 DEF Recursion
  <2>2. \A n \in 0 .. N : f[n] = IF n = 0 THEN gs ELSE Next1(f[n - 1], n)
    <3>1. \A n \in 0 .. N : n = 0 \/ n \in 1 .. N
      BY <1>1
    <3> HIDE DEF N, Next1
    <3> QED BY <1>4, <2>1, <3>1
  <2> HIDE DEF N
  <2> QED BY <2>1, <2>2
<1>6. with = Body(with)
  <2> HIDE DEF Body
  <2> QED BY <1>5
<1> HIDE DEF with
<1>7. \A n \in 0 .. N : with[n] = IF n = 0 THEN gs ELSE Next1(with[n - 1], n)
  <2> HIDE DEF N
  <2> QED BY <1>6
<1>8. \A n \in 0 .. N : with[n] \in V
  <2> HIDE DEF Body, N, V, Next1
  <2>1. with[0] \in V
    <3>1. 0 \in 0 .. N /\ gs \in V
      BY <1>1 DEF V
    <3>2. with[0] = gs
      BY <1>7, <3>1
    <3> QED BY <3>1, <3>2
  <2>2. \A n \in 1 .. N : with[n - 1] \in V => with[n] \in V
    BY <1>1, <1>2, <1>7
  <2> QED BY <1>1, <2>1, <2>2, StaysIn
<1>9. WithGroups(gs, rules) = with[N]
  BY DEF WithGroups, with
<1> HIDE DEF N, V
<1>10. with[N] \in V
  BY <1>1, <1>8
<1> QED BY <1>9, <1>10 DEF V

\* A trigger that is made is made of words.
LEMMA UniqueTriggerTyped ==
  ASSUME NEW items, NEW base \in Seq(Word), NEW t \in UniqueTrigger(items, base)
  PROVE  t \in Seq(Word)
<1> DEFINE Free(s) == \A i \in DOMAIN items : items[i].trigger # s
           free == {n \in DOMAIN Numerals : Free(Append(base, Numerals[n]))}
<1>1. Numerals \in Seq(Word)
  BY RuleDraftConstants
<1>2. \/ t = base
      \/ \E n \in DOMAIN Numerals : t = Append(base, Numerals[n])
  BY DEF UniqueTrigger
<1>3. \A n \in DOMAIN Numerals : Numerals[n] \in Word
  BY <1>1, LenProperties
<1>4. \A n \in DOMAIN Numerals : Append(base, Numerals[n]) \in Seq(Word)
  BY <1>3, AppendProperties
<1> QED BY <1>2, <1>4

(***************************************************************************)
(* The list and the fields.                                                *)
(***************************************************************************)
\* The list and the fields are a record of these parts.
Shape(v) == DOMAIN v = {"rows", "marked", "selected", "fields", "unapplied"}

\* In the draft d the fields of v are those of the selected rule.
Shows(d, v) ==
  v.selected # None =>
    /\ v.selected \in DOMAIN d.items
    /\ v.fields.id = d.items[v.selected].id
    /\ ~v.unapplied =>
         v.fields = [d.items[v.selected] EXCEPT !.enabled = v.fields.enabled]

Kept(d, v) == Shape(v) /\ Shows(d, v)

\* The fields are of a rule of the draft d, or of none.
Filled(d, v) ==
  /\ v.fields \in Rule
  /\ v.selected \in DOMAIN d.items \cup {None}
  /\ v.unapplied => v.selected # None

\* The rows of v are rules of the draft d, and the marked ones are rows.
Listed(d, v) ==
  /\ Len(v.rows) \in Nat /\ DOMAIN v.rows = 1 .. Len(v.rows)
  /\ \A r \in DOMAIN v.rows : /\ v.rows[r].index \in DOMAIN d.items
                              /\ d.items[v.rows[r].index].id = v.rows[r].rule
  /\ v.marked \subseteq DOMAIN v.rows

Sound(d, v) == Shape(v) /\ Filled(d, v) /\ Listed(d, v)

LEMMA BlankIsRule == Blank \in Rule
<1>1. <<>> \in Seq(Word)
  BY EmptySeq
<1> QED BY <1>1 DEF Blank, Rule, NoRule

LEMMA LoadSound ==
  ASSUME NEW d, d.items \in Seq(Rule), NEW v, Sound(d, v), NEW i,
         i \in DOMAIN d.items \/ ~v.unapplied
  PROVE  Sound(d, LoadDetails(d, v, i))
<1>1. \A n \in DOMAIN d.items : d.items[n] \in Rule /\ n # None
  BY LenProperties DEF None
<1>2. CASE i \in DOMAIN d.items
  <2> DEFINE w == [v EXCEPT !.selected = i, !.fields = d.items[i], !.unapplied = FALSE]
  <2>1. LoadDetails(d, v, i) = w
    BY <1>2 DEF LoadDetails
  <2>2. Shape(w) /\ w.selected = i /\ w.fields = d.items[i] /\ w.unapplied = FALSE
        /\ w.rows = v.rows /\ w.marked = v.marked
    BY DEF Shape, Sound
  <2> HIDE DEF w
  <2> QED BY <1>1, <1>2, <2>1, <2>2 DEF Sound, Filled, Listed
<1>3. CASE i \notin DOMAIN d.items
  <2> DEFINE w == [v EXCEPT !.selected = None, !.fields = Blank]
  <2>1. LoadDetails(d, v, i) = w
    BY <1>3 DEF LoadDetails
  <2>2. Shape(w) /\ w.selected = None /\ w.fields = Blank /\ w.unapplied = v.unapplied
        /\ w.rows = v.rows /\ w.marked = v.marked
    BY DEF Shape, Sound
  <2> HIDE DEF w
  <2> QED BY <1>3, <2>1, <2>2, BlankIsRule DEF Sound, Filled, Listed
<1> QED BY <1>2, <1>3

LEMMA SelectSound ==
  ASSUME NEW d, d.items \in Seq(Rule), NEW v, Sound(d, v), NEW i,
         i \in DOMAIN d.items \/ ~v.unapplied
  PROVE  Sound(d, SelectIndex(d, v, i))
<1> DEFINE rows == {r \in DOMAIN v.rows : v.rows[r].index = i}
           w == [v EXCEPT !.marked = @ \cup rows]
<1>1. /\ Shape(w) /\ w.selected = v.selected /\ w.fields = v.fields /\ w.unapplied = v.unapplied
      /\ w.rows = v.rows /\ w.marked = v.marked \cup rows
  BY DEF Shape, Sound
<1>2. SelectIndex(d, v, i) = v \/ SelectIndex(d, v, i) = LoadDetails(d, w, i)
  BY DEF SelectIndex
<1>3. rows \subseteq DOMAIN v.rows
  OBVIOUS
<1> HIDE DEF w, rows
<1>4. Sound(d, w)
  BY <1>1, <1>3 DEF Sound, Filled, Listed
<1> QED BY <1>1, <1>2, <1>4, LoadSound

LEMMA RefreshSound ==
  ASSUME NEW d, d.items \in Seq(Rule), NEW v, Shape(v), Filled(d, v), NEW lk
  PROVE  Sound(d, Refresh(d, v, lk))
<1> DEFINE rows == Visible(d, lk)
           w == [v EXCEPT !.rows = rows, !.marked = @ \cap DOMAIN rows]
<1>1. /\ Len(rows) \in Nat /\ DOMAIN rows = 1 .. Len(rows)
      /\ \A r \in DOMAIN rows : /\ rows[r].index \in DOMAIN d.items
                                /\ d.items[rows[r].index].id = rows[r].rule
  BY VisibleProperties
<1> HIDE DEF rows
<1>2. /\ Shape(w) /\ w.selected = v.selected /\ w.fields = v.fields /\ w.unapplied = v.unapplied
      /\ w.rows = rows /\ w.marked = v.marked \cap DOMAIN rows
  BY DEF Shape
<1>3. Refresh(d, v, lk) = IF v.selected = None THEN w ELSE SelectIndex(d, w, v.selected)
  BY DEF Refresh, rows
<1> HIDE DEF w
<1>4. Sound(d, w)
  BY <1>1, <1>2 DEF Sound, Filled, Listed
<1>5. v.selected # None => v.selected \in DOMAIN d.items
  BY DEF Filled
<1> QED BY <1>3, <1>4, <1>5, SelectSound

LEMMA ForgetSound ==
  ASSUME NEW d, d.items \in Seq(Rule), NEW v, Shape(v), v.fields \in Rule, NEW lk
  PROVE  Sound(d, Emptied(Refresh(d, Unselect(v), lk)))
<1>1. Shape(Unselect(v)) /\ Filled(d, Unselect(v))
  BY DEF Shape, Filled, Unselect
<1> DEFINE w == Refresh(d, Unselect(v), lk)
           x == Emptied(w)
<1>2. Sound(d, w)
  BY <1>1, RefreshSound
<1> HIDE DEF w
<1>3. /\ Shape(x) /\ x.selected = w.selected /\ x.fields = Blank /\ x.unapplied = w.unapplied
      /\ x.rows = w.rows /\ x.marked = w.marked
  BY <1>2 DEF Shape, Sound, Emptied
<1> HIDE DEF x
<1>4. Sound(d, x)
  BY <1>2, <1>3, BlankIsRule DEF Sound, Filled, Listed
<1> QED BY <1>4 DEF x, w

(***************************************************************************)
(* The fields are those of the selected rule.                              *)
(***************************************************************************)
\* A rule that is loaded is shown as it is; without one nothing is selected.
LEMMA LoadKeeps ==
  ASSUME NEW d, d.items \in Seq(Rule), NEW v, Shape(v), NEW i
  PROVE  Kept(d, LoadDetails(d, v, i))
<1>1. CASE i \in DOMAIN d.items
  <2>1. d.items[i] \in Rule
    BY <1>1
  <2>2. d.items[i] = [d.items[i] EXCEPT !.enabled = d.items[i].enabled]
    BY <2>1 DEF Rule
  <2> DEFINE w == [v EXCEPT !.selected = i, !.fields = d.items[i], !.unapplied = FALSE]
  <2>3. LoadDetails(d, v, i) = w
    BY <1>1 DEF LoadDetails
  <2>4. Shape(w) /\ w.selected = i /\ w.fields = d.items[i] /\ w.unapplied = FALSE
    BY DEF Shape
  <2> HIDE DEF w
  <2> QED BY <1>1, <2>2, <2>3, <2>4 DEF Kept, Shows
<1>2. CASE i \notin DOMAIN d.items
  BY <1>2 DEF LoadDetails, Kept, Shape, Shows
<1> QED BY <1>1, <1>2

LEMMA SelectKeeps ==
  ASSUME NEW d, d.items \in Seq(Rule), NEW v, Kept(d, v), NEW i
  PROVE  Kept(d, SelectIndex(d, v, i))
<1> DEFINE rows == {r \in DOMAIN v.rows : v.rows[r].index = i}
           w == [v EXCEPT !.marked = @ \cup rows]
<1>1. Shape(w)
  BY DEF Kept, Shape
<1>2. Kept(d, LoadDetails(d, w, i))
  BY <1>1, LoadKeeps
<1>3. SelectIndex(d, v, i) = v \/ SelectIndex(d, v, i) = LoadDetails(d, w, i)
  BY DEF SelectIndex
<1> QED BY <1>2, <1>3

\* A list computed anew keeps the rule it had selected, or loads it again.
LEMMA RefreshKeeps ==
  ASSUME NEW d, d.items \in Seq(Rule), NEW v, Kept(d, v), NEW lk
  PROVE  /\ Kept(d, Refresh(d, v, lk))
         /\ v.selected = None => Refresh(d, v, lk).selected = None
<1> DEFINE rows == Visible(d, lk)
           w == [v EXCEPT !.rows = rows, !.marked = @ \cap DOMAIN rows]
<1> HIDE DEF rows
<1>1. /\ Shape(w) /\ w.selected = v.selected
      /\ w.fields = v.fields /\ w.unapplied = v.unapplied
  BY DEF Kept, Shape
<1>2. Refresh(d, v, lk) = IF v.selected = None THEN w ELSE SelectIndex(d, w, v.selected)
  BY DEF Refresh, rows
<1> HIDE DEF w
<1>3. Kept(d, w)
  BY <1>1 DEF Kept, Shows
<1>4. Kept(d, SelectIndex(d, w, v.selected))
  BY <1>3, SelectKeeps
<1> QED BY <1>1, <1>2, <1>3, <1>4

\* It is a list with fields even if what it had in them is of another draft.
LEMMA RefreshShape ==
  ASSUME NEW d, d.items \in Seq(Rule), NEW v, Shape(v), NEW lk
  PROVE  /\ Shape(Refresh(d, v, lk))
         /\ v.selected = None => Refresh(d, v, lk).selected = None
<1> DEFINE rows == Visible(d, lk)
           w == [v EXCEPT !.rows = rows, !.marked = @ \cap DOMAIN rows]
<1> HIDE DEF rows
<1>1. Shape(w) /\ w.selected = v.selected
  BY DEF Shape
<1>2. Refresh(d, v, lk) = IF v.selected = None THEN w ELSE SelectIndex(d, w, v.selected)
  BY DEF Refresh, rows
<1> HIDE DEF w
<1>3. Shape(SelectIndex(d, w, v.selected))
  <2> DEFINE marked == {r \in DOMAIN w.rows : w.rows[r].index = v.selected}
             x == [w EXCEPT !.marked = @ \cup marked]
  <2>1. Shape(x)
    BY <1>1 DEF Shape
  <2>2. Kept(d, LoadDetails(d, x, v.selected))
    BY <2>1, LoadKeeps
  <2>3. \/ SelectIndex(d, w, v.selected) = w
        \/ SelectIndex(d, w, v.selected) = LoadDetails(d, x, v.selected)
    BY DEF SelectIndex
  <2> QED BY <1>1, <2>2, <2>3 DEF Kept
<1> QED BY <1>1, <1>2, <1>3

\* A list that forgets its rule.
LEMMA ForgetKeeps ==
  ASSUME NEW d, d.items \in Seq(Rule), NEW v, Shape(v), NEW lk
  PROVE  Kept(d, Emptied(Refresh(d, Unselect(v), lk)))
<1>1. Kept(d, Unselect(v)) /\ Unselect(v).selected = None
  BY DEF Kept, Shape, Shows, Unselect
<1> DEFINE w == Refresh(d, Unselect(v), lk)
<1>2. Kept(d, w) /\ w.selected = None
  BY <1>1, RefreshKeeps
<1> HIDE DEF w
<1>3. Kept(d, Emptied(w))
  BY <1>2 DEF Kept, Shape, Shows, Emptied
<1> QED BY <1>3 DEF w

(***************************************************************************)
(* The fields and what becomes of the draft.                               *)
(***************************************************************************)
\* Fields that are applied are shown as the rule they have become.
LEMMA CommitKeeps ==
  ASSUME draft.items \in Seq(Rule), view.fields \in Rule, Kept(draft, view), CanCommit
  PROVE  /\ CommittedDraft.items \in Seq(Rule)
         /\ Kept(CommittedDraft, CommittedView)
<1>1. CASE ~Uncommitted
  BY <1>1 DEF CommittedDraft, CommittedView
<1>2. CASE Uncommitted
  <2> DEFINE sel == view.selected
             new == [view.fields EXCEPT !.id = draft.items[sel].id]
             items == [draft.items EXCEPT ![sel] = new]
             v == [view EXCEPT !.unapplied = FALSE]
  <2>1. sel # None /\ sel \in DOMAIN draft.items /\ draft.items[sel] \in Rule
    BY <1>2 DEF CanCommit, Uncommitted
  <2>2. view.fields.id = draft.items[sel].id
    BY <2>1 DEF Kept, Shows
  <2>3. /\ new = view.fields /\ new \in Rule
        /\ view.fields = [view.fields EXCEPT !.enabled = view.fields.enabled]
    BY <2>2 DEF Rule
  <2>4. /\ Shape(v) /\ v.selected = sel /\ v.fields = view.fields /\ v.unapplied = FALSE
    BY DEF Kept, Shape
  <2>5. CommittedDraft.items = items /\ CommittedView = v
    BY <1>2 DEF CommittedDraft, CommittedView, WithFields
  <2> HIDE DEF new, sel, v
  <2>6. items \in Seq(Rule) /\ DOMAIN items = DOMAIN draft.items /\ items[sel] = new
    BY <2>1, <2>3
  <2> HIDE DEF items
  <2> QED BY <2>1, <2>2, <2>3, <2>4, <2>5, <2>6 DEF Kept, Shows
<1> QED BY <1>1, <1>2

\* A rule that is added moves no other.
LEMMA AppendKeeps ==
  ASSUME NEW d, d = [items |-> d.items, groups |-> d.groups], d.items \in Seq(Rule),
         NEW v, Kept(d, v), NEW rule, NEW e, e = [d EXCEPT !.items = Append(@, rule)]
  PROVE  Kept(e, v)
<1> DEFINE S == Rule \cup {rule}
<1>1. d.items \in Seq(S) /\ rule \in S
  OBVIOUS
<1>2. e.items = Append(d.items, rule)
  OBVIOUS
<1> HIDE DEF S
<1>3. /\ Append(d.items, rule) \in Seq(S)
      /\ Len(Append(d.items, rule)) = Len(d.items) + 1
      /\ \A i \in 1 .. Len(d.items) : Append(d.items, rule)[i] = d.items[i]
  BY <1>1, AppendProperties
<1>4. \A i \in DOMAIN d.items : i \in DOMAIN e.items /\ e.items[i] = d.items[i]
  BY <1>1, <1>2, <1>3
<1> QED BY <1>4 DEF Kept, Shows

\* Switching rules on and off changes nothing else of the one in the fields.
LEMMA StateKeeps ==
  ASSUME NEW d, d.items \in Seq(Rule), NEW v, Kept(d, v), NEW indices, NEW on,
         NEW e, e.items = WithState(d.items, indices, on)
  PROVE  Kept(e, v)
<1> SUFFICES ASSUME v.selected # None PROVE Kept(e, v)
  BY DEF Kept, Shows
<1> DEFINE sel == v.selected
           item == d.items[sel]
<1>1. /\ sel \in DOMAIN d.items /\ item \in Rule
      /\ v.fields.id = item.id
      /\ ~v.unapplied => v.fields = [item EXCEPT !.enabled = v.fields.enabled]
  BY DEF Kept, Shows
<1>2. /\ DOMAIN e.items = DOMAIN d.items
      /\ e.items[sel] = IF sel \in indices THEN [item EXCEPT !.enabled = on] ELSE item
  BY <1>1 DEF WithState
<1> HIDE DEF item
<1>3. /\ e.items[sel].id = item.id
      /\ \A b : [e.items[sel] EXCEPT !.enabled = b] = [item EXCEPT !.enabled = b]
  BY <1>1, <1>2 DEF Rule
<1> QED BY <1>1, <1>2, <1>3 DEF Kept, Shows

\* What comes back from the group manager is loaded again.
LEMMA TakeKeeps ==
  ASSUME draft.items \in Seq(Rule), work.items \in Seq(Rule), Kept(draft, view), TakeGroups
  PROVE  Kept(draft', view')
<1>1. CASE ~changed
  BY <1>1 DEF TakeGroups
<1>2. CASE changed
  <2> DEFINE u == [view EXCEPT !.unapplied = FALSE]
  <2>1. PICK v : /\ v = Refresh(work, u, look')
                 /\ view' = IF view.selected # None
                            THEN SelectIndex(work, LoadDetails(work, v, view.selected), view.selected)
                            ELSE Emptied(v)
    BY <1>2 DEF TakeGroups
  <2>2. draft' = work
    BY <1>2 DEF TakeGroups
  <2>3. Shape(u) /\ u.selected = view.selected
    BY DEF Kept, Shape
  <2> HIDE DEF u
  <2>4. Shape(v) /\ (view.selected = None => v.selected = None)
    BY <2>1, <2>3, RefreshShape
  <2>5. CASE view.selected # None
    <3>1. Kept(work, LoadDetails(work, v, view.selected))
      BY <2>4, LoadKeeps
    <3> QED BY <2>1, <2>2, <2>5, <3>1, SelectKeeps
  <2>6. CASE view.selected = None
    BY <2>1, <2>2, <2>4, <2>6 DEF Emptied, Kept, Shape, Shows
  <2> QED BY <2>5, <2>6
<1> QED BY <1>1, <1>2

(***************************************************************************)
(* The fields after a step.                                                *)
(***************************************************************************)
DetailsInv == Kept(draft, view)

\* A command that commits and refreshes, and one that selects a rule as well.
LEMMA CommittedKeeps ==
  ASSUME TypeOK, TypeOK', DetailsInv, CanCommit, draft' = CommittedDraft, NEW lk, NEW i
  PROVE  /\ Kept(draft', CommittedView)
         /\ Kept(draft', Refresh(draft', CommittedView, lk))
         /\ Kept(draft', SelectIndex(draft', Refresh(draft', CommittedView, lk), i))
<1>1. draft.items \in Seq(Rule) /\ view.fields \in Rule /\ draft'.items \in Seq(Rule)
  BY DEF TypeOK, Draft
<1>2. Kept(draft', CommittedView)
  BY <1>1, CommitKeeps DEF DetailsInv
<1>3. Kept(draft', Refresh(draft', CommittedView, lk))
  BY <1>1, <1>2, RefreshKeeps
<1> QED BY <1>1, <1>2, <1>3, SelectKeeps

LEMMA AppendRuleKeeps ==
  ASSUME TypeOK, TypeOK', DetailsInv, CanCommit, NEW rule, AppendRule(rule)
  PROVE  DetailsInv'
<1>1. draft.items \in Seq(Rule) /\ view.fields \in Rule /\ draft'.items \in Seq(Rule)
  BY DEF TypeOK, Draft
<1>2. CommittedDraft.items \in Seq(Rule) /\ Kept(CommittedDraft, CommittedView)
  BY <1>1, CommitKeeps DEF DetailsInv
<1>3. CommittedDraft = [items |-> CommittedDraft.items, groups |-> CommittedDraft.groups]
  BY DEF CommittedDraft, WithFields, TypeOK, Draft
<1>4. draft' = [CommittedDraft EXCEPT !.items = Append(@, rule)]
  BY DEF AppendRule
<1>5. Kept(draft', CommittedView)
  BY <1>2, <1>3, <1>4, AppendKeeps
<1>6. Kept(draft', Refresh(draft', CommittedView, look'))
  BY <1>1, <1>5, RefreshKeeps
<1>7. view' = SelectIndex(draft', Refresh(draft', CommittedView, look'), Len(draft'.items))
  BY DEF AppendRule
<1> QED BY <1>1, <1>6, <1>7, SelectKeeps DEF DetailsInv

LEMMA StepKeeps ==
  ASSUME TypeOK, TypeOK', DetailsInv, [Next]_vars
  PROVE  DetailsInv'
<1>1. /\ draft.items \in Seq(Rule) /\ view.fields \in Rule
      /\ draft'.items \in Seq(Rule) /\ view'.fields \in Rule
      /\ work.items \in Seq(Rule)
  BY DEF TypeOK, GroupTypeOK, Draft
<1>2. Shape(view) /\ Shape(NoView) /\ Kept(draft', NoView)
  BY DEF DetailsInv, Kept, Shape, Shows, NoView
<1>3. Shape(CommittedView)
  BY <1>2 DEF CommittedView, Shape
<1>4. ASSUME UNCHANGED <<draft, view>> PROVE DetailsInv'
  BY <1>4 DEF DetailsInv
<1>5. ASSUME UNCHANGED draft, view' = Refresh(draft, view, look') \/ view' = Refresh(draft, view, look)
      PROVE  DetailsInv'
  BY <1>1, <1>5, RefreshKeeps DEF DetailsInv
<1>6. CASE Open
  BY <1>1, <1>2, <1>6, RefreshKeeps DEF Open, DetailsInv
<1>7. ASSUME NEW d \in Files, Reload(d) PROVE DetailsInv'
  BY <1>1, <1>2, <1>7, ForgetKeeps DEF Reload, DetailsInv
<1>8. ASSUME NEW e \in Edits, EditDetails(e) PROVE DetailsInv'
  <2> DEFINE new == [e EXCEPT !.id = view.fields.id]
  <2>1. view' = [view EXCEPT !.fields = new, !.unapplied = TRUE] /\ draft' = draft
    BY <1>8 DEF EditDetails
  <2>2. /\ view'.fields = new /\ view'.unapplied = TRUE /\ view'.selected = view.selected
        /\ Shape(view')
    BY <1>2, <2>1 DEF Shape
  <2>3. DOMAIN new = DOMAIN e /\ "id" \in DOMAIN new
    BY <1>1, <2>2 DEF Rule
  <2>4. view'.fields.id = view.fields.id
    BY <2>2, <2>3
  <2> HIDE DEF new
  <2> QED BY <2>1, <2>2, <2>4 DEF DetailsInv, Kept, Shows
<1>9. CASE CommitOnly
  BY <1>9, CommittedKeeps DEF CommitOnly, DetailsInv
<1>10. CASE Apply
  BY <1>10, CommittedKeeps DEF Apply, DetailsInv
<1>11. CASE Save
  BY <1>11, CommittedKeeps DEF Save, DetailsInv
<1>12. CASE AddRule
  BY <1>12, AppendRuleKeeps DEF AddRule
<1>13. CASE DuplicateRule
  BY <1>13, AppendRuleKeeps DEF DuplicateRule
<1>14. CASE AskDelete
  BY <1>4, <1>14 DEF AskDelete
<1>15. CASE ConfirmDelete
  BY <1>1, <1>2, <1>15, ForgetKeeps DEF ConfirmDelete, DetailsInv
<1>16. CASE AskState
  BY <1>16, CommittedKeeps DEF AskState, DetailsInv
<1>17. ASSUME NEW on \in BOOLEAN, SetState(on) PROVE DetailsInv'
  <2>1. draft'.items = WithState(draft.items, box.indices, on)
    BY <1>17 DEF SetState, TypeOK, Draft
  <2>2. Kept(draft', view)
    BY <1>1, <2>1, StateKeeps DEF DetailsInv
  <2> QED BY <1>1, <1>17, <2>2, RefreshKeeps DEF SetState, DetailsInv
<1>18. CASE Cancel
  BY <1>4, <1>18 DEF Cancel
<1>19. ASSUME NEW r, NEW others, MarkRow(r, others) PROVE DetailsInv'
  <2> DEFINE v == [view EXCEPT !.marked = others \cup {r}]
  <2>1. Shape(v)
    BY <1>2 DEF Shape
  <2>2. view' = LoadDetails(draft', v, view.rows[r].index)
    BY <1>19 DEF MarkRow
  <2> QED BY <1>1, <2>1, <2>2, LoadKeeps DEF DetailsInv
<1>20. ASSUME NEW marks, ChangeMarks(marks) PROVE DetailsInv'
  BY <1>20 DEF ChangeMarks, DetailsInv, Kept, Shape, Shows
<1>21. ASSUME NEW column, Sort(column) PROVE DetailsInv'
  BY <1>5, <1>21 DEF Sort
<1>22. ASSUME NEW group, Filter(group) PROVE DetailsInv'
  BY <1>5, <1>22 DEF Filter
<1>23. ASSUME NEW query, TypeSearch(query) PROVE DetailsInv'
  BY <1>4, <1>23 DEF TypeSearch
<1>24. CASE SearchTimer
  BY <1>5, <1>24 DEF SearchTimer
<1>25. ASSUME NEW rules, NEW replace, Import(rules, replace) PROVE DetailsInv'
  BY <1>1, <1>3, <1>25, ForgetKeeps DEF Import, DetailsInv
<1>26. CASE ManageGroups
  BY <1>26, CommittedKeeps DEF ManageGroups, DetailsInv
<1>27. ASSUME TakeGroups PROVE DetailsInv'
  BY <1>1, <1>27, TakeKeeps DEF DetailsInv
<1>28. CASE ReturnFromGroups \/ Shutdown
  BY <1>27, <1>28 DEF ReturnFromGroups, Shutdown
<1>29. CASE UseGroups
  BY <1>4, <1>29 DEF UseGroups, mvars
<1>30. CASE Close
  BY <1>2, <1>30 DEF Close, Destroy, DetailsInv
<1>31. CASE UNCHANGED vars
  BY <1>4, <1>31 DEF vars
<1> QED
  BY <1>6, <1>7, <1>8, <1>9, <1>10, <1>11, <1>12, <1>13, <1>14, <1>15, <1>16, <1>17, <1>18,
     <1>19, <1>20, <1>21, <1>22, <1>23, <1>24, <1>25, <1>26, <1>28, <1>29, <1>30, <1>31
     DEF Next, Step

(***************************************************************************)
(* The invariant.                                                          *)
(***************************************************************************)
\* An id that is made is none of the draft's.
IdsAreOld == \A i \in DOMAIN draft.items : draft.items[i].id < FirstId + changes

\* The draft e is d with some rules in other groups.
Regrouped(d, e) ==
  /\ DOMAIN e.items = DOMAIN d.items
  /\ \A i \in DOMAIN d.items : e.items[i] = [d.items[i] EXCEPT !.group = e.items[i].group]

\* A question is about the draft that is there.
BoxIsOfDraft ==
  \/ box = NoBox
  \/ /\ open /\ ~showing
     /\ box.kind \in {"delete", "state"}
     /\ box.indices \subseteq DOMAIN draft.items
     /\ box.rules = {draft.items[i].id : i \in box.indices}

DraftInv ==
  /\ TypeOK
  /\ changes \in Nat /\ IdsAreOld
  /\ Sound(draft, view) /\ Shows(draft, view)
  /\ DOMAIN look = DOMAIN FirstLook
  /\ BoxIsOfDraft
  /\ showing => open /\ Regrouped(draft, work)

\* The draft e has the rules of d, where they were.
SamePlaces(d, e) ==
  /\ DOMAIN e.items = DOMAIN d.items
  /\ \A i \in DOMAIN d.items : e.items[i].id = d.items[i].id

LEMMA InvParts ==
  ASSUME DraftInv
  PROVE  /\ draft \in Draft /\ draft.items \in Seq(Rule) /\ draft.groups \in Seq(Group)
         /\ Len(draft.items) \in Nat /\ DOMAIN draft.items = 1 .. Len(draft.items)
         /\ DistinctIds(draft.items)
         /\ Shape(view) /\ Filled(draft, view) /\ Listed(draft, view)
         /\ Kept(draft, view)
         /\ view.fields \in Rule /\ FirstId \in Nat /\ changes \in Nat
<1>1. draft \in Draft
  BY DEF DraftInv, TypeOK
<1> QED BY <1>1, DraftParts, RuleDraftConstants
        DEF DraftInv, TypeOK, DistinctIds, Sound, Kept, Filled

LEMMA SameListed ==
  ASSUME NEW d, NEW v, NEW e, SamePlaces(d, e), Sound(d, v)
  PROVE  Sound(e, v)
<1>1. Filled(e, v)
  BY DEF SamePlaces, Sound, Filled
<1>2. Listed(e, v)
  BY DEF SamePlaces, Sound, Listed
<1> QED BY <1>1, <1>2 DEF Sound

\* Applied fields are a change of one rule, in its place.
LEMMA CommittedProperties ==
  ASSUME DraftInv, CanCommit
  PROVE  /\ CommittedDraft \in Draft
         /\ SamePlaces(draft, CommittedDraft)
         /\ \A i \in DOMAIN draft.items :
              \/ CommittedDraft.items[i] = draft.items[i]
              \/ /\ Uncommitted /\ view.fields.id = draft.items[i].id
                 /\ CommittedDraft.items[i] = view.fields
         /\ Sound(CommittedDraft, CommittedView)
         /\ DOMAIN CommittedLook = DOMAIN FirstLook
         /\ CommittedLook.filter # NoGroup => CommittedLook.filter \in GroupIds(CommittedDraft.groups)
<1>1. CASE ~Uncommitted
  BY <1>1, InvParts DEF CommittedDraft, CommittedView, CommittedLook, DraftInv, TypeOK, SamePlaces
<1>2. CASE Uncommitted
  <2> DEFINE sel == view.selected
             new == [view.fields EXCEPT !.id = draft.items[sel].id]
             items == [draft.items EXCEPT ![sel] = new]
             v == [view EXCEPT !.unapplied = FALSE]
             groups == IF CreatesGroup THEN Append(draft.groups, NewGroup(view.fields.group))
                       ELSE draft.groups
  <2>1. sel # None /\ sel \in DOMAIN draft.items /\ draft.items[sel] \in Rule
    BY <1>2, InvParts DEF CanCommit, Uncommitted
  <2>2. view.fields.id = draft.items[sel].id /\ view.fields \in Rule
    BY <2>1, InvParts DEF Kept, Shows
  <2>3. new = view.fields
    BY <2>2 DEF Rule
  <2>4. /\ CommittedDraft = [items |-> items, groups |-> groups]
        /\ CommittedView = v
    BY <1>2 DEF CommittedDraft, CommittedView, WithFields
  <2>5. Valid(CommittedDraft)
    BY <1>2 DEF CanCommit, CommittedDraft
  <2>6. groups \in Seq(Group)
    <3>1. CASE CreatesGroup
      <4>1. view.fields.group \in Name
        BY <2>2, <3>1 DEF Rule, CreatesGroup
      <4>2. NewGroup(view.fields.group) \in Group
        BY <4>1 DEF NewGroup, Group
      <4> QED BY <3>1, <4>2, InvParts, AppendProperties
    <3>2. CASE ~CreatesGroup
      BY <3>2, InvParts
    <3> QED BY <3>1, <3>2
  <2>7. /\ Shape(v) /\ v.selected = sel /\ v.fields = view.fields /\ v.unapplied = FALSE
        /\ v.rows = view.rows /\ v.marked = view.marked
    BY InvParts DEF Shape
  <2>8. /\ items \in Seq(Rule) /\ DOMAIN items = DOMAIN draft.items
        /\ \A i \in DOMAIN draft.items : items[i] = IF i = sel THEN view.fields ELSE draft.items[i]
    BY <2>1, <2>2, <2>3, InvParts
  <2>9. /\ CommittedLook = IF CreatesGroup THEN [look EXCEPT !.filter = NoGroup] ELSE look
        /\ DOMAIN look = DOMAIN FirstLook
        /\ look.filter # NoGroup => look.filter \in GroupIds(draft.groups)
    BY <1>2 DEF CommittedLook, DraftInv, TypeOK
  <2>10. /\ DOMAIN CommittedLook = DOMAIN FirstLook
         /\ CommittedLook.filter # NoGroup => CommittedLook.filter \in GroupIds(groups)
    <3>1. CASE CreatesGroup
      <4>1. "filter" \in DOMAIN look
        BY <2>9 DEF FirstLook
      <4> QED BY <2>9, <3>1, <4>1
    <3>2. CASE ~CreatesGroup
      BY <2>9, <3>2
    <3> QED BY <3>1, <3>2
  <2> HIDE DEF items, v, groups, new
  <2>11. CommittedDraft \in Draft
    <3>1. [items |-> items, groups |-> groups] \in [items : Seq(Rule), groups : Seq(Group)]
      BY <2>6, <2>8
    <3>2. DistinctGroups(CommittedDraft.groups)
      BY <2>5 DEF Valid
    <3> QED BY <2>4, <3>1, <3>2 DEF Draft
  <2>12. SamePlaces(draft, CommittedDraft)
    BY <2>2, <2>4, <2>8 DEF SamePlaces
  <2>13. Sound(draft, v)
    BY <2>7, InvParts DEF Sound, Filled, Listed
  <2>14. Sound(CommittedDraft, CommittedView)
    BY <2>4, <2>12, <2>13, SameListed
  <2> QED BY <1>2, <2>2, <2>4, <2>8, <2>10, <2>11, <2>12, <2>14
<1> QED BY <1>1, <1>2

\* A rule at the end of the committed draft.
LEMMA AppendedProperties ==
  ASSUME DraftInv, CanCommit, NEW rule \in Rule, AppendRule(rule)
  PROVE  /\ draft' \in Draft
         /\ Len(draft'.items) = Len(draft.items) + 1
         /\ DOMAIN draft'.items = 1 .. Len(draft.items) + 1
         /\ \A i \in DOMAIN draft.items : draft'.items[i] = CommittedDraft.items[i]
         /\ draft'.items[Len(draft.items) + 1] = rule
         /\ Sound(draft', view')
<1>1. /\ CommittedDraft \in Draft /\ SamePlaces(draft, CommittedDraft)
      /\ Sound(CommittedDraft, CommittedView)
  BY CommittedProperties
<1> DEFINE C == CommittedDraft
           L == Len(draft.items)
<1>2. /\ C.items \in Seq(Rule) /\ C.groups \in Seq(Group) /\ DistinctGroups(C.groups)
      /\ C = [items |-> C.items, groups |-> C.groups]
      /\ DOMAIN C.items = 1 .. Len(C.items) /\ Len(C.items) \in Nat
      /\ L \in Nat /\ DOMAIN draft.items = 1 .. L
  BY <1>1, DraftParts, InvParts
<1>3. Len(C.items) = L
  <2>1. 1 .. Len(C.items) = 1 .. L
    BY <1>1, <1>2 DEF SamePlaces
  <2> HIDE DEF C, L
  <2>2. Len(C.items) \in Nat /\ L \in Nat
    BY <1>2
  <2> QED BY <2>1, <2>2
<1>4. /\ draft' = [C EXCEPT !.items = Append(@, rule)]
      /\ view' = SelectIndex(draft', Refresh(draft', CommittedView, look'), Len(draft'.items))
  BY DEF AppendRule
<1> HIDE DEF C, L
<1>5. draft' = [items |-> Append(C.items, rule), groups |-> C.groups]
  BY <1>2, <1>4
<1>6. /\ Append(C.items, rule) \in Seq(Rule)
      /\ Len(Append(C.items, rule)) = L + 1
      /\ \A i \in 1 .. L : Append(C.items, rule)[i] = C.items[i]
      /\ Append(C.items, rule)[L + 1] = rule
  BY <1>2, <1>3, AppendProperties
<1>7. draft' \in Draft
  BY <1>2, <1>5, <1>6 DEF Draft
<1>8. /\ DOMAIN draft'.items = 1 .. L + 1 /\ Len(draft'.items) = L + 1
      /\ draft'.items \in Seq(Rule)
  BY <1>5, <1>6, <1>7, DraftParts
<1>9. Filled(draft', CommittedView)
  <2>1. DOMAIN C.items \subseteq DOMAIN draft'.items
    BY <1>2, <1>3, <1>8
  <2> QED BY <1>1, <2>1 DEF Sound, Filled, C
<1>10. Sound(draft', Refresh(draft', CommittedView, look'))
  BY <1>1, <1>8, <1>9, RefreshSound DEF Sound
<1>11. Len(draft'.items) \in DOMAIN draft'.items
  BY <1>2, <1>8
<1>12. Sound(draft', view')
  BY <1>4, <1>8, <1>10, <1>11, SelectSound
<1> QED BY <1>2, <1>5, <1>6, <1>7, <1>8, <1>12 DEF C, L

(***************************************************************************)
(* The draft and the list after a step.                                    *)
(***************************************************************************)
\* What every step leaves: a draft of different rules, none with an id that is
\* still to be made but a rule that was added, and a list of its rules.
DraftStands ==
  /\ draft' \in Draft /\ DistinctIds(draft'.items)
  /\ \A i \in DOMAIN draft'.items :
       \/ draft'.items[i].id < FirstId + changes
       \/ ~showing /\ draft'.items[i].id = NewId
  /\ Sound(draft', view')

LEMMA SamePlacesStand ==
  ASSUME DraftInv, draft' \in Draft, SamePlaces(draft, draft'), Sound(draft', view')
  PROVE  DraftStands
BY InvParts DEF DraftStands, SamePlaces, DistinctIds, DraftInv, IdsAreOld

LEMMA SameStands ==
  ASSUME DraftInv, draft' = draft, Sound(draft, view')
  PROVE  DraftStands
<1>1. SamePlaces(draft, draft') /\ draft' \in Draft
  BY InvParts DEF SamePlaces
<1> QED BY <1>1, SamePlacesStand

LEMMA CommitStands ==
  ASSUME DraftInv, CanCommit, draft' = CommittedDraft,
         \/ view' = CommittedView
         \/ \E lk : view' = Refresh(draft', CommittedView, lk)
         \/ \E lk : /\ view.selected # None
                    /\ view' = SelectIndex(draft', Refresh(draft', CommittedView, lk), view.selected)
  PROVE  DraftStands
<1>1. /\ draft' \in Draft /\ SamePlaces(draft, draft') /\ Sound(draft', CommittedView)
      /\ draft'.items \in Seq(Rule)
  BY CommittedProperties, DraftParts
<1>2. ASSUME NEW lk PROVE Sound(draft', Refresh(draft', CommittedView, lk))
  BY <1>1, RefreshSound DEF Sound
<1>3. view.selected # None => view.selected \in DOMAIN draft'.items
  BY <1>1, InvParts DEF Filled, SamePlaces
<1>4. Sound(draft', view')
  BY <1>1, <1>2, <1>3, SelectSound
<1> QED BY <1>1, <1>4, SamePlacesStand

\* A file, or no rules.
LEMMA FileStands ==
  ASSUME DraftInv, draft' \in Files \cup {EmptyDocument}, Sound(draft', view')
  PROVE  DraftStands
<1>1. CASE draft' \in Files
  <2>1. draft' \in Draft /\ Valid(draft')
        /\ \A i \in DOMAIN draft'.items : draft'.items[i].id \in 1 .. FirstId - 1
    BY <1>1, RuleDraftConstants
  <2>2. DistinctIds(draft'.items)
    BY <2>1 DEF Valid, DistinctIds
  <2>3. \A i \in DOMAIN draft'.items : draft'.items[i].id < FirstId + changes
    BY <2>1, InvParts
  <2> QED BY <2>1, <2>2, <2>3 DEF DraftStands
<1>2. CASE draft' = EmptyDocument
  <2>1. draft' \in Draft
    BY <1>2, EmptyIsDraft
  <2>2. DOMAIN draft'.items = {}
    BY <1>2 DEF EmptyDocument
  <2> QED BY <2>1, <2>2 DEF DraftStands, DistinctIds
<1> QED BY <1>1, <1>2

LEMMA NoViewSound == \A d : Sound(d, NoView)
<1>1. /\ Shape(NoView) /\ NoView.fields = Blank /\ NoView.selected = None
      /\ NoView.unapplied = FALSE /\ NoView.rows = <<>> /\ NoView.marked = {}
  BY DEF NoView, Shape
<1>2. Len(<<>>) = 0 /\ DOMAIN <<>> = {} /\ 1 .. 0 = {}
  OBVIOUS
<1> QED BY <1>1, <1>2, BlankIsRule DEF Sound, Filled, Listed

LEMMA AppendStands ==
  ASSUME DraftInv, CanCommit, ~showing, NEW rule \in Rule, rule.id = NewId, AppendRule(rule)
  PROVE  DraftStands
<1> DEFINE L == Len(draft.items)
<1>1. /\ draft' \in Draft /\ Sound(draft', view')
      /\ DOMAIN draft'.items = 1 .. L + 1
      /\ \A i \in DOMAIN draft.items : draft'.items[i] = CommittedDraft.items[i]
      /\ draft'.items[L + 1] = rule
  BY AppendedProperties
<1>2. SamePlaces(draft, CommittedDraft)
  BY CommittedProperties
<1>3. /\ L \in Nat /\ DOMAIN draft.items = 1 .. L /\ FirstId \in Nat /\ changes \in Nat
      /\ \A i \in DOMAIN draft.items : draft.items[i] \in Rule
  BY InvParts
<1>4. \A i \in 1 .. L : draft'.items[i].id = draft.items[i].id /\ draft.items[i].id < NewId
  BY <1>1, <1>2, <1>3 DEF SamePlaces, DraftInv, IdsAreOld, NewId
<1>5. \A i \in 1 .. L : draft.items[i].id \in Nat
  BY <1>3 DEF Rule
<1>6. draft'.items[L + 1].id = NewId /\ NewId \in Nat
  BY <1>1, <1>3 DEF NewId
<1>7. DistinctIds(draft.items)
  BY InvParts
<1>8. DistinctIds(draft'.items)
  <2> SUFFICES ASSUME NEW i \in 1 .. L + 1, NEW j \in 1 .. L + 1,
                      draft'.items[i].id = draft'.items[j].id
               PROVE  i = j
    BY <1>1 DEF DistinctIds
  <2>1. CASE i \in 1 .. L /\ j \in 1 .. L
    BY <1>3, <1>4, <1>7, <2>1 DEF DistinctIds
  <2>2. CASE ~(i \in 1 .. L /\ j \in 1 .. L)
    <3> HIDE DEF L
    <3>1. i = L + 1 \/ i \in 1 .. L
      BY <1>3
    <3>2. j = L + 1 \/ j \in 1 .. L
      BY <1>3
    <3>3. \A k \in 1 .. L : draft'.items[k].id # NewId
      BY <1>4, <1>5, <1>6
    <3> QED BY <1>6, <2>2, <3>1, <3>2, <3>3
  <2> QED BY <2>1, <2>2
<1>9. \A i \in 1 .. L + 1 : draft'.items[i].id < FirstId + changes \/ draft'.items[i].id = NewId
  <2> HIDE DEF L
  <2>1. \A i \in 1 .. L + 1 : i \in 1 .. L \/ i = L + 1
    BY <1>3
  <2>2. \A i \in 1 .. L : draft'.items[i].id < FirstId + changes
    BY <1>4 DEF NewId
  <2> QED BY <1>6, <2>1, <2>2
<1> QED BY <1>1, <1>8, <1>9 DEF DraftStands

LEMMA AddStands == ASSUME DraftInv, AddRule PROVE DraftStands
<1>1. PICK trigger \in UniqueTrigger(CommittedDraft.items, <<New>>) :
        AppendRule([Blank EXCEPT !.id = NewId, !.trigger = trigger, !.enabled = TRUE])
  BY DEF AddRule
<1>2. trigger \in Seq(Word)
  <2>1. <<New>> \in Seq(Word)
    BY RuleDraftConstants
  <2> QED BY <2>1, UniqueTriggerTyped
<1> DEFINE rule == [Blank EXCEPT !.id = NewId, !.trigger = trigger, !.enabled = TRUE]
<1>3. rule \in Rule /\ rule.id = NewId
  <2>1. NewId \in Nat
    BY InvParts DEF NewId
  <2> QED BY <1>2, <2>1, BlankIsRule DEF Rule, Blank
<1>4. AppendRule(rule)
  BY <1>1
<1> HIDE DEF rule
<1> QED BY <1>3, <1>4, AppendStands DEF AddRule, Ready

LEMMA DuplicateStands == ASSUME DraftInv, DuplicateRule PROVE DraftStands
<1> DEFINE old == CommittedDraft.items[view.selected]
<1>1. PICK trigger \in UniqueTrigger(CommittedDraft.items, Append(old.trigger, Copy)) :
        AppendRule([old EXCEPT !.id = NewId, !.trigger = trigger])
  BY DEF DuplicateRule
<1>2. old \in Rule
  <2>1. /\ CommittedDraft \in Draft /\ SamePlaces(draft, CommittedDraft)
        /\ view.selected \in DOMAIN draft.items
    BY CommittedProperties, InvParts DEF DuplicateRule, Filled
  <2>2. view.selected \in DOMAIN CommittedDraft.items
    BY <2>1 DEF SamePlaces
  <2> QED BY <2>1, <2>2, DraftParts
<1> HIDE DEF old
<1>3. trigger \in Seq(Word)
  <2>1. old.trigger \in Seq(Word) /\ Copy \in Word
    BY <1>2, RuleDraftConstants DEF Rule
  <2>2. Append(old.trigger, Copy) \in Seq(Word)
    BY <2>1, AppendProperties
  <2> QED BY <2>2, UniqueTriggerTyped
<1> DEFINE rule == [old EXCEPT !.id = NewId, !.trigger = trigger]
<1>4. rule \in Rule /\ rule.id = NewId
  <2>1. NewId \in Nat
    BY InvParts DEF NewId
  <2> QED BY <1>2, <1>3, <2>1 DEF Rule
<1>5. AppendRule(rule)
  BY <1>1
<1> HIDE DEF rule
<1> QED BY <1>4, <1>5, AppendStands DEF DuplicateRule, Ready

LEMMA DeleteStands == ASSUME DraftInv, ConfirmDelete PROVE DraftStands
<1> DEFINE items == Erased(draft.items, box.indices)
<1>1. /\ items \in Seq(Rule) /\ DistinctIds(items)
      /\ Members(items) = {draft.items[i] : i \in DOMAIN draft.items \ box.indices}
  BY InvParts, ErasedProperties
<1>2. draft = [items |-> draft.items, groups |-> draft.groups]
      /\ draft.groups \in Seq(Group) /\ DistinctGroups(draft.groups)
  BY InvParts, DraftParts
<1>3. draft' = [draft EXCEPT !.items = items]
  BY DEF ConfirmDelete
<1> HIDE DEF items
<1>4. draft' = [items |-> items, groups |-> draft.groups]
  BY <1>2, <1>3
<1>5. draft' \in Draft /\ draft'.items = items
  BY <1>1, <1>2, <1>4 DEF Draft
<1>6. \A i \in DOMAIN items : items[i].id < FirstId + changes
  <2> TAKE i \in DOMAIN items
  <2>1. items[i] \in Members(items)
    BY DEF Members
  <2>2. PICK k \in DOMAIN draft.items : items[i] = draft.items[k]
    BY <1>1, <2>1
  <2> QED BY <2>2 DEF DraftInv, IdsAreOld
<1>7. Sound(draft', view')
  BY <1>1, <1>5, InvParts, ForgetSound DEF ConfirmDelete
<1> QED BY <1>1, <1>5, <1>6, <1>7 DEF DraftStands

LEMMA StateStands ==
  ASSUME DraftInv, NEW on \in BOOLEAN, SetState(on)
  PROVE  DraftStands
<1> DEFINE items == WithState(draft.items, box.indices, on)
<1>1. draft = [items |-> draft.items, groups |-> draft.groups]
      /\ draft.groups \in Seq(Group) /\ DistinctGroups(draft.groups)
      /\ \A i \in DOMAIN draft.items : draft.items[i] \in Rule
  BY InvParts, DraftParts
<1>2. \A i \in DOMAIN draft.items : [draft.items[i] EXCEPT !.enabled = on] \in Rule
                                    /\ [draft.items[i] EXCEPT !.enabled = on].id = draft.items[i].id
  BY <1>1 DEF Rule
<1>3. /\ DOMAIN items = DOMAIN draft.items
      /\ \A i \in DOMAIN draft.items : items[i] \in Rule /\ items[i].id = draft.items[i].id
  BY <1>1, <1>2 DEF WithState
<1>4. items \in Seq(Rule)
  <2>1. items = [i \in DOMAIN draft.items |-> items[i]]
    BY DEF WithState
  <2> HIDE DEF items
  <2>2. items \in [1 .. Len(draft.items) -> Rule] /\ Len(draft.items) \in Nat
    BY <1>3, <2>1, InvParts
  <2> QED BY <2>2, SeqDef
<1>5. draft' = [draft EXCEPT !.items = items]
  BY DEF SetState
<1> HIDE DEF items
<1>6. draft' = [items |-> items, groups |-> draft.groups]
  BY <1>1, <1>5
<1>7. draft' \in Draft /\ draft'.items = items /\ SamePlaces(draft, draft')
  BY <1>1, <1>3, <1>4, <1>6 DEF Draft, SamePlaces
<1>8. Sound(draft', view)
  BY <1>7, SameListed DEF DraftInv
<1>9. Sound(draft', view')
  BY <1>4, <1>7, <1>8, RefreshSound DEF SetState, Sound
<1> QED BY <1>7, <1>9, SamePlacesStand

\* Imported rules come after those that are kept.
LEMMA ImportedProperties ==
  ASSUME DraftInv, NEW rules \in Imports, NEW replace \in BOOLEAN, Import(rules, replace)
  PROVE  /\ DraftStands
         /\ \A j \in DOMAIN draft'.items :
              \/ draft'.items[j].id = NewId
              \/ ~replace /\ j \in DOMAIN draft.items /\ draft'.items[j] = CommittedDraft.items[j]
         /\ ~replace => \A i \in DOMAIN draft.items : i \in DOMAIN draft'.items
                                                     /\ draft'.items[i] = CommittedDraft.items[i]
         /\ DOMAIN draft'.items # {}
<1> DEFINE old == IF replace THEN <<>> ELSE CommittedDraft.items
           new == [n \in DOMAIN rules |-> [rules[n] EXCEPT !.id = NewId]]
           items == old \o new
           groups == WithGroups(CommittedDraft.groups, rules)
<1>1. /\ CommittedDraft \in Draft /\ SamePlaces(draft, CommittedDraft)
      /\ Sound(CommittedDraft, CommittedView)
      /\ CommittedDraft.items \in Seq(Rule) /\ CommittedDraft.groups \in Seq(Group)
  BY CommittedProperties, DraftParts DEF Import
<1>2. rules \in Seq(Rule) /\ \A n \in DOMAIN rules : rules[n] \in Rule
  BY RuleDraftConstants, LenProperties
<1>3. NewId \in Nat
  BY InvParts DEF NewId
<1>4. new \in Seq(Rule) /\ \A n \in DOMAIN new : new[n].id = NewId
  <2>1. \A n \in DOMAIN rules : [rules[n] EXCEPT !.id = NewId] \in Rule
                                /\ [rules[n] EXCEPT !.id = NewId].id = NewId
    BY <1>2, <1>3 DEF Rule
  <2>2. DOMAIN rules = 1 .. Len(rules) /\ Len(rules) \in Nat
    BY <1>2, LenProperties
  <2>3. new \in [1 .. Len(rules) -> Rule]
    BY <2>1, <2>2
  <2>4. \A n \in DOMAIN new : new[n].id = NewId
    BY <2>1
  <2> HIDE DEF new
  <2> QED BY <2>2, <2>3, <2>4, SeqDef
<1>5. old \in Seq(Rule) /\ \A i \in DOMAIN old : old[i].id < FirstId + changes
  <2>1. CASE replace
    <3>1. old = <<>> /\ DOMAIN old = {}
      BY <2>1
    <3> QED BY <3>1, EmptySeq
  <2>2. CASE ~replace
    BY <1>1, <2>2 DEF SamePlaces, DraftInv, IdsAreOld
  <2> QED BY <2>1, <2>2
<1>6. /\ draft' = [items |-> items, groups |-> groups] /\ Valid(draft')
      /\ view' = Emptied(Refresh(draft', Unselect(CommittedView), look'))
      /\ ~showing
  BY DEF Import, Ready
<1>7. groups \in Seq(Group)
  BY <1>1, <1>2, WithGroupsTyped
<1> HIDE DEF old, new, groups
<1>8. /\ items \in Seq(Rule) /\ Len(items) = Len(old) + Len(new)
      /\ \A i \in 1 .. Len(old) + Len(new) :
           items[i] = IF i <= Len(old) THEN old[i] ELSE new[i - Len(old)]
      /\ DOMAIN items = 1 .. Len(old) + Len(new)
  <2>1. /\ items \in Seq(Rule) /\ Len(items) = Len(old) + Len(new)
        /\ \A i \in 1 .. Len(old) + Len(new) :
             items[i] = IF i <= Len(old) THEN old[i] ELSE new[i - Len(old)]
    BY <1>4, <1>5, ConcatProperties
  <2> HIDE DEF items
  <2> QED BY <2>1, LenProperties
<1>9. /\ DOMAIN old = 1 .. Len(old) /\ Len(old) \in Nat
      /\ DOMAIN new = 1 .. Len(new) /\ Len(new) \in Nat
  BY <1>4, <1>5, LenProperties
<1> HIDE DEF items
<1>10. ASSUME NEW i \in DOMAIN items
       PROVE  items[i].id = NewId \/ (i \in DOMAIN old /\ items[i] = old[i])
  <2>1. CASE i <= Len(old)
    BY <1>8, <1>9, <2>1
  <2>2. CASE ~(i <= Len(old))
    <3>1. i - Len(old) \in DOMAIN new
      BY <1>8, <1>9, <2>2
    <3>2. items[i] = new[i - Len(old)]
      BY <1>8, <2>2
    <3> QED BY <1>4, <3>1, <3>2
  <2> QED BY <2>1, <2>2
<1>11. draft' \in Draft /\ draft'.items = items
  <2>1. DistinctGroups(draft'.groups)
    BY <1>6 DEF Valid
  <2> QED BY <1>6, <1>7, <1>8, <2>1 DEF Draft
<1>12. DistinctIds(draft'.items)
  BY <1>6 DEF Valid, DistinctIds
<1>13. Sound(draft', view')
  BY <1>1, <1>6, <1>8, <1>11, ForgetSound DEF Sound, Filled
<1>14. DraftStands
  <2>1. \A i \in DOMAIN items : items[i].id < FirstId + changes \/ items[i].id = NewId
    BY <1>5, <1>10
  <2> QED BY <1>6, <1>11, <1>12, <1>13, <2>1 DEF DraftStands
<1>15. \A i \in DOMAIN old : i \in DOMAIN items /\ items[i] = old[i]
  BY <1>8, <1>9
<1>16. DOMAIN items # {}
  <2>1. rules # <<>> /\ DOMAIN new = DOMAIN rules
    BY RuleDraftConstants DEF new
  <2>2. Len(new) # 0
    <3>1. Len(rules) # 0 /\ DOMAIN rules = 1 .. Len(rules) /\ Len(rules) \in Nat
      BY <1>2, <2>1, EmptySeq, LenProperties
    <3>2. 1 \in DOMAIN new
      BY <2>1, <3>1
    <3> QED BY <1>9, <3>2
  <2>3. Len(old) + Len(new) \in DOMAIN items
    BY <1>8, <1>9, <2>2
  <2> QED BY <2>3
<1>17. /\ replace => DOMAIN old = {}
       /\ ~replace => old = CommittedDraft.items
       /\ DOMAIN CommittedDraft.items = DOMAIN draft.items
  BY <1>1 DEF SamePlaces, old
<1> QED BY <1>10, <1>11, <1>14, <1>15, <1>16, <1>17

LEMMA TakeStands ==
  ASSUME DraftInv, showing, TakeGroups
  PROVE  DraftStands
<1>1. CASE ~changed
  BY <1>1, SameStands DEF TakeGroups, DraftInv
<1>2. CASE changed
  <2> DEFINE u == [view EXCEPT !.unapplied = FALSE]
             sel == view.selected
  <2>1. PICK v : /\ v = Refresh(work, u, look')
                 /\ view' = IF sel # None
                            THEN SelectIndex(work, LoadDetails(work, v, sel), sel)
                            ELSE Emptied(v)
    BY <1>2 DEF TakeGroups
  <2>2. draft' = work /\ work \in Draft /\ work.items \in Seq(Rule)
    BY <1>2, DraftParts DEF TakeGroups, DraftInv, TypeOK, GroupTypeOK
  <2>3. SamePlaces(draft, draft')
    <3>1. Regrouped(draft, work) /\ \A i \in DOMAIN draft.items : draft.items[i] \in Rule
      BY InvParts DEF DraftInv
    <3> QED BY <2>2, <3>1 DEF SamePlaces, Regrouped, Rule
  <2>4. /\ Shape(u) /\ u.selected = sel /\ u.fields = view.fields /\ u.unapplied = FALSE
        /\ Filled(draft, view)
    BY InvParts DEF Shape
  <2> HIDE DEF u
  <2>5. Filled(work, u) /\ (sel # None => sel \in DOMAIN work.items)
    BY <2>2, <2>3, <2>4 DEF Filled, SamePlaces
  <2>6. Sound(work, v)
    BY <2>1, <2>2, <2>4, <2>5, RefreshSound
  <2>7. CASE sel # None
    BY <2>1, <2>2, <2>5, <2>6, <2>7, LoadSound, SelectSound, SamePlacesStand, <2>3
  <2>8. CASE sel = None
    <3>1. /\ Shape(Emptied(v)) /\ Emptied(v).selected = v.selected /\ Emptied(v).fields = Blank
          /\ Emptied(v).unapplied = v.unapplied /\ Emptied(v).rows = v.rows
          /\ Emptied(v).marked = v.marked
      BY <2>6 DEF Sound, Shape, Emptied
    <3>2. Sound(work, Emptied(v))
      BY <2>6, <3>1, BlankIsRule DEF Sound, Filled, Listed
    <3> QED BY <2>1, <2>2, <2>3, <2>8, <3>2, SamePlacesStand
  <2> QED BY <2>7, <2>8
<1> QED BY <1>1, <1>2

LEMMA MarkStands ==
  ASSUME DraftInv, NEW r \in DOMAIN view.rows, NEW others \in {{}, view.marked}, MarkRow(r, others)
  PROVE  DraftStands
<1> DEFINE v == [view EXCEPT !.marked = others \cup {r}]
           i == view.rows[r].index
<1>1. /\ draft' \in Draft /\ SamePlaces(draft, draft')
      /\ draft'.items \in Seq(Rule)
  <2>1. (CanCommit /\ draft' = CommittedDraft) \/ draft' = draft
    BY DEF MarkRow
  <2> QED BY <2>1, CommittedProperties, InvParts, DraftParts DEF SamePlaces
<1>2. /\ Shape(v) /\ v.selected = view.selected /\ v.fields = view.fields
      /\ v.unapplied = view.unapplied /\ v.rows = view.rows /\ v.marked = others \cup {r}
  BY InvParts DEF Shape
<1>3. view' = LoadDetails(draft', v, i)
  BY DEF MarkRow
<1> HIDE DEF v
<1>4. Sound(draft, v)
  BY <1>2, InvParts DEF Sound, Filled, Listed
<1>5. Sound(draft', v)
  BY <1>1, <1>4, SameListed
<1>6. i \in DOMAIN draft'.items
  BY <1>1, InvParts DEF Listed, SamePlaces
<1> QED BY <1>1, <1>3, <1>5, <1>6, LoadSound, SamePlacesStand

LEMMA StepStands == ASSUME DraftInv, Step PROVE DraftStands
<1>1. draft.items \in Seq(Rule) /\ Shape(view) /\ Filled(draft, view) /\ Listed(draft, view)
      /\ Sound(draft, view)
  BY InvParts DEF DraftInv
<1>2. ASSUME UNCHANGED <<draft, view>> PROVE DraftStands
  BY <1>1, <1>2, SameStands
<1>3. ASSUME UNCHANGED draft, \E lk : view' = Refresh(draft, view, lk) PROVE DraftStands
  BY <1>1, <1>3, RefreshSound, SameStands
<1>4. CASE Open
  <2>1. draft' \in Draft
    BY <1>4, EmptyIsDraft, RuleDraftConstants DEF Open
  <2>2. Sound(draft', view')
    BY <1>4, <2>1, NoViewSound, RefreshSound, DraftParts DEF Open, Sound
  <2> QED BY <1>4, <2>2, FileStands DEF Open
<1>5. ASSUME NEW d \in Files, Reload(d) PROVE DraftStands
  <2>1. draft' = d /\ draft'.items \in Seq(Rule)
    BY <1>5, RuleDraftConstants, DraftParts DEF Reload
  <2>2. Sound(draft', view')
    BY <1>1, <1>5, <2>1, ForgetSound DEF Reload, Filled
  <2> QED BY <2>1, <2>2, FileStands
<1>6. ASSUME NEW e \in Edits, EditDetails(e) PROVE DraftStands
  <2> DEFINE new == [e EXCEPT !.id = view.fields.id]
             v == [view EXCEPT !.fields = new, !.unapplied = TRUE]
  <2>1. new \in Rule
    BY <1>1, RuleDraftConstants DEF Filled, Rule
  <2>2. view' = v /\ draft' = draft /\ view.selected # None
    BY <1>6 DEF EditDetails
  <2> HIDE DEF new
  <2>3. /\ Shape(v) /\ v.selected = view.selected /\ v.fields = new
        /\ v.rows = view.rows /\ v.marked = view.marked
    BY <1>1 DEF Shape
  <2> HIDE DEF v
  <2>4. Sound(draft, view')
    BY <1>1, <2>1, <2>2, <2>3 DEF Sound, Filled, Listed
  <2> QED BY <2>2, <2>4, SameStands
<1>7. CASE CommitOnly
  BY <1>7, CommitStands DEF CommitOnly
<1>8. CASE Apply
  BY <1>8, CommitStands DEF Apply, Uncommitted
<1>9. CASE Save
  BY <1>9, CommitStands DEF Save
<1>10. CASE AddRule
  BY <1>10, AddStands
<1>11. CASE DuplicateRule
  BY <1>11, DuplicateStands
<1>12. CASE AskDelete
  BY <1>2, <1>12 DEF AskDelete
<1>13. CASE ConfirmDelete
  BY <1>13, DeleteStands
<1>14. CASE AskState
  BY <1>14, CommitStands DEF AskState
<1>15. ASSUME NEW on \in BOOLEAN, SetState(on) PROVE DraftStands
  BY <1>15, StateStands
<1>16. CASE Cancel
  BY <1>2, <1>16 DEF Cancel
<1>17. ASSUME NEW r \in DOMAIN view.rows, NEW others \in {{}, view.marked}, MarkRow(r, others)
       PROVE  DraftStands
  BY <1>17, MarkStands
<1>18. ASSUME NEW marks \in MarksWithoutLoading, ChangeMarks(marks) PROVE DraftStands
  <2> DEFINE v == [view EXCEPT !.marked = marks]
  <2>1. marks \subseteq DOMAIN view.rows
    BY <1>1, <1>18 DEF MarksWithoutLoading, Listed
  <2>2. view' = v /\ draft' = draft
    BY <1>18 DEF ChangeMarks
  <2>3. /\ Shape(v) /\ v.selected = view.selected /\ v.fields = view.fields
        /\ v.unapplied = view.unapplied /\ v.rows = view.rows /\ v.marked = marks
    BY <1>1 DEF Shape
  <2> HIDE DEF v
  <2>4. Sound(draft, view')
    BY <1>1, <2>1, <2>2, <2>3 DEF Sound, Filled, Listed
  <2> QED BY <2>2, <2>4, SameStands
<1>19. ASSUME NEW column, Sort(column) PROVE DraftStands
  BY <1>3, <1>19 DEF Sort
<1>20. ASSUME NEW group, Filter(group) PROVE DraftStands
  BY <1>3, <1>20 DEF Filter
<1>21. ASSUME NEW query, TypeSearch(query) PROVE DraftStands
  BY <1>2, <1>21 DEF TypeSearch
<1>22. CASE SearchTimer
  BY <1>3, <1>22 DEF SearchTimer
<1>23. ASSUME NEW rules \in Imports, NEW replace \in BOOLEAN, Import(rules, replace)
       PROVE  DraftStands
  BY <1>23, ImportedProperties
<1>24. CASE ManageGroups
  BY <1>24, CommitStands DEF ManageGroups
<1>25. CASE ReturnFromGroups
  BY <1>25, TakeStands DEF ReturnFromGroups, CloseGroups
<1>26. CASE UseGroups
  BY <1>2, <1>26 DEF UseGroups, mvars
<1>27. CASE Close
  BY <1>27, NoViewSound, FileStands DEF Close, Destroy
<1>28. CASE Shutdown
  BY <1>28, TakeStands DEF Shutdown, CloseGroups
<1> QED
  BY <1>4, <1>5, <1>6, <1>7, <1>8, <1>9, <1>10, <1>11, <1>12, <1>13, <1>14, <1>15, <1>16, <1>17,
     <1>18, <1>19, <1>20, <1>21, <1>22, <1>23, <1>24, <1>25, <1>26, <1>27, <1>28 DEF Step

(***************************************************************************)
(* The rest of the window.                                                 *)
(***************************************************************************)
\* A step of the window is one of the group manager, or none of its concern.
LEMMA StepGroups ==
  ASSUME draft' \in Draft, Step
  PROVE  [GroupNext]_gvars
<1>1. ASSUME ShowGroups(draft') PROVE GroupNext
  <2>1. work' = draft'
    BY <1>1 DEF ShowGroups
  <2>2. work' \in Draft /\ ShowGroups(work')
    BY <1>1, <2>1
  <2> QED BY <2>2 DEF GroupNext
<1>2. ASSUME CloseGroups \/ GroupStep PROVE GroupNext
  BY <1>2 DEF GroupNext
<1>3. \/ UNCHANGED gvars \/ ShowGroups(draft') \/ CloseGroups \/ GroupStep
  BY DEF Step, Open, Reload, EditDetails, CommitOnly, Apply, Save, AddRule, DuplicateRule, AppendRule,
         AskDelete, ConfirmDelete, AskState, SetState, Cancel, MarkRow, ChangeMarks, Sort, Filter,
         TypeSearch, SearchTimer, Import, ManageGroups, ReturnFromGroups, UseGroups, Close, Shutdown
<1> QED BY <1>1, <1>2, <1>3

\* The filter is always for a group of the draft, or for none.
LEMMA StepLook ==
  ASSUME DraftInv, Step
  PROVE  /\ DOMAIN look' = DOMAIN FirstLook
         /\ look'.filter # NoGroup => look'.filter \in GroupIds(draft'.groups)
<1> DEFINE Fits == /\ DOMAIN look' = DOMAIN FirstLook
                   /\ look'.filter # NoGroup => look'.filter \in GroupIds(draft'.groups)
<1>1. /\ DOMAIN look = {"query", "filter", "column", "ascending"}
      /\ DOMAIN look = DOMAIN FirstLook
      /\ look.filter # NoGroup => look.filter \in GroupIds(draft.groups)
  BY DEF DraftInv, TypeOK, FirstLook
<1>2. ASSUME look' = look, draft'.groups = draft.groups PROVE Fits
  BY <1>1, <1>2
<1>3. ASSUME CanCommit, draft' = CommittedDraft, look' = CommittedLook PROVE Fits
  BY <1>3, CommittedProperties
<1>4. ASSUME look' = [look EXCEPT !.filter = NoGroup] \/ look' = Unfiltered(look) PROVE Fits
  BY <1>1, <1>4 DEF Unfiltered
<1>5. ASSUME look' = FirstLook PROVE Fits
  BY <1>5 DEF FirstLook
<1>6. CASE Open \/ Close
  BY <1>5, <1>6 DEF Open, Close, Destroy
<1>7. ASSUME NEW d \in Files, Reload(d) PROVE Fits
  BY <1>4, <1>7 DEF Reload
<1>8. CASE CommitOnly \/ Apply \/ Save \/ AskState \/ ManageGroups
  BY <1>3, <1>8 DEF CommitOnly, Apply, Save, AskState, ManageGroups
<1>9. CASE AddRule \/ DuplicateRule
  BY <1>4, <1>9 DEF AddRule, DuplicateRule, AppendRule
<1>10. ASSUME NEW rules, NEW replace, Import(rules, replace) PROVE Fits
  BY <1>4, <1>10 DEF Import
<1>11. CASE AskDelete \/ Cancel \/ SearchTimer \/ UseGroups
  BY <1>2, <1>11 DEF AskDelete, Cancel, SearchTimer, UseGroups, mvars
<1>12. ASSUME NEW e, EditDetails(e) PROVE Fits
  BY <1>2, <1>12 DEF EditDetails
<1>13. ASSUME look' = look, \E items : draft' = [draft EXCEPT !.items = items] PROVE Fits
  <2>1. draft = [items |-> draft.items, groups |-> draft.groups]
    BY InvParts, DraftParts
  <2>2. draft'.groups = draft.groups
    BY <1>13, <2>1
  <2> QED BY <1>2, <1>13, <2>2
<1>14. CASE ConfirmDelete
  BY <1>13, <1>14 DEF ConfirmDelete
<1>15. ASSUME NEW on, SetState(on) PROVE Fits
  BY <1>13, <1>15 DEF SetState
<1>16. ASSUME NEW r, NEW others, MarkRow(r, others) PROVE Fits
  BY <1>2, <1>3, <1>16 DEF MarkRow
<1>17. ASSUME NEW marks, ChangeMarks(marks) PROVE Fits
  BY <1>2, <1>17 DEF ChangeMarks
<1>18. ASSUME NEW column, Sort(column) PROVE Fits
  <2>1. draft' = draft
    BY <1>18 DEF Sort
  <2>2. \/ look' = [look EXCEPT !.ascending = ~@]
        \/ look' = [look EXCEPT !.column = column, !.ascending = TRUE]
    BY <1>18 DEF Sort
  <2>3. DOMAIN look' = DOMAIN look /\ look'.filter = look.filter
    BY <1>1, <2>2
  <2> QED BY <1>1, <2>1, <2>3
<1>19. ASSUME NEW group \in (GroupIds(draft.groups) \cap Filters) \cup {NoGroup}, Filter(group)
       PROVE  Fits
  BY <1>1, <1>19 DEF Filter
<1>20. ASSUME NEW query, TypeSearch(query) PROVE Fits
  BY <1>1, <1>20 DEF TypeSearch
<1>21. CASE ReturnFromGroups \/ Shutdown
  <2>1. TakeGroups
    BY <1>21 DEF ReturnFromGroups, Shutdown
  <2> QED BY <1>2, <1>4, <2>1 DEF TakeGroups
<1> QED
  BY <1>6, <1>7, <1>8, <1>9, <1>10, <1>11, <1>12, <1>14, <1>15, <1>16, <1>17, <1>18, <1>19, <1>20, <1>21
     DEF Step

\* A question and the group manager each have the window to themselves, so that
\* what a question is about is still there when it is answered.
LEMMA StepBox == ASSUME DraftInv, Step PROVE BoxIsOfDraft'
<1>1. ASSUME box' = NoBox PROVE BoxIsOfDraft'
  BY <1>1 DEF BoxIsOfDraft
<1>2. ASSUME UNCHANGED <<draft, box, open, showing>> PROVE BoxIsOfDraft'
  BY <1>2 DEF DraftInv, BoxIsOfDraft
<1>3. ASSUME Ready, UNCHANGED box PROVE BoxIsOfDraft'
  BY <1>1, <1>3 DEF Ready
<1>4. showing \/ ~open => box = NoBox
  BY DEF DraftInv, BoxIsOfDraft, TypeOK
<1>5. MarkedIndices(view) \subseteq DOMAIN draft.items
  BY InvParts DEF MarkedIndices, Listed
<1>6. CASE AskDelete
  <2>1. box' = [kind |-> "delete", indices |-> MarkedIndices(view),
                rules |-> {draft.items[i].id : i \in MarkedIndices(view)}]
    BY <1>6 DEF AskDelete, Ask
  <2>2. open' /\ ~showing' /\ draft' = draft
    BY <1>6 DEF AskDelete, Ready, gvars
  <2> QED BY <1>5, <2>1, <2>2 DEF BoxIsOfDraft
<1>7. CASE AskState
  <2>1. box' = [kind |-> "state", indices |-> MarkedIndices(view),
                rules |-> {draft.items[i].id : i \in MarkedIndices(view)}]
    BY <1>7 DEF AskState, Ask
  <2>2. open' /\ ~showing' /\ draft' = CommittedDraft
    BY <1>7 DEF AskState, Ready, gvars
  <2>3. SamePlaces(draft, draft')
    BY <1>7, <2>2, CommittedProperties DEF AskState
  <2>4. DOMAIN draft'.items = DOMAIN draft.items
        /\ {draft'.items[i].id : i \in MarkedIndices(view)}
             = {draft.items[i].id : i \in MarkedIndices(view)}
    BY <1>5, <2>3 DEF SamePlaces
  <2> QED BY <1>5, <2>1, <2>2, <2>4 DEF BoxIsOfDraft
<1>8. CASE Open \/ Close \/ UseGroups \/ ReturnFromGroups \/ Shutdown
  <2>1. box' = box \/ box' = NoBox
    BY <1>8 DEF Open, Close, Destroy, UseGroups, mvars, ReturnFromGroups, Shutdown
  <2>2. ~open \/ showing \/ box = NoBox
    BY <1>8 DEF Open, Close, Ready, UseGroups, ReturnFromGroups, Shutdown, CloseGroups, GroupStep,
                SelectGroup, StartNewGroup, ApplyGroup, DeleteGroup
  <2> QED BY <1>1, <1>4, <2>1, <2>2
<1>9. CASE ConfirmDelete \/ Cancel \/ \E on \in BOOLEAN : SetState(on)
  BY <1>1, <1>9 DEF ConfirmDelete, Cancel, SetState
<1>10. CASE SearchTimer
  BY <1>2, <1>10 DEF SearchTimer, gvars
<1>11. CASE CommitOnly \/ Apply \/ Save \/ AddRule \/ DuplicateRule \/ ManageGroups
  BY <1>3, <1>11 DEF CommitOnly, Apply, Save, AddRule, DuplicateRule, AppendRule, ManageGroups, Ready
<1>12. ASSUME NEW rules, NEW replace, Import(rules, replace) PROVE BoxIsOfDraft'
  BY <1>3, <1>12 DEF Import
<1> QED
  BY <1>3, <1>6, <1>7, <1>8, <1>9, <1>10, <1>11, <1>12
     DEF Step, Reload, EditDetails, MarkRow, ChangeMarks, Sort, Filter, TypeSearch

LEMMA RegroupedTwice ==
  ASSUME NEW d, d.items \in Seq(Rule), NEW e, Regrouped(d, e), NEW f, Regrouped(e, f)
  PROVE  Regrouped(d, f)
<1> SUFFICES ASSUME NEW i \in DOMAIN d.items
             PROVE  f.items[i] = [d.items[i] EXCEPT !.group = f.items[i].group]
  BY DEF Regrouped
<1>1. d.items[i] \in Rule
  BY LenProperties
<1>2. /\ e.items[i] = [d.items[i] EXCEPT !.group = e.items[i].group]
      /\ f.items[i] = [e.items[i] EXCEPT !.group = f.items[i].group]
  BY DEF Regrouped
<1> QED BY <1>1, <1>2 DEF Rule

\* While the group manager is open its copy has the rules of the draft.
LEMMA StepShowing ==
  ASSUME DraftInv, draft' \in Draft, Step
  PROVE  showing' => open' /\ Regrouped(draft', work')
<1> SUFFICES ASSUME showing' PROVE open' /\ Regrouped(draft', work')
  OBVIOUS
<1>1. CASE ManageGroups
  <2>1. open' /\ work' = draft'
    BY <1>1 DEF ManageGroups, Ready, ShowGroups
  <2>2. \A i \in DOMAIN draft'.items : draft'.items[i] \in Rule
    BY DraftParts
  <2> QED BY <2>1, <2>2 DEF Regrouped, Rule
<1>2. CASE UseGroups
  <2>1. GroupTypeOK /\ GroupStep /\ showing /\ draft' = draft /\ open' = open
    BY <1>2 DEF UseGroups, DraftInv, TypeOK, mvars, GroupStep, SelectGroup, StartNewGroup, ApplyGroup,
                DeleteGroup
  <2>2. KeepsGroups
    <3>1. ASSUME NEW g \in DOMAIN work.groups, SelectGroup(g) PROVE KeepsGroups
      BY <2>1, <3>1, UnchangedKeepsGroups DEF SelectGroup
    <3>2. CASE StartNewGroup
      BY <2>1, <3>2, UnchangedKeepsGroups DEF StartNewGroup
    <3>3. ASSUME NEW e \in GroupEdits, ApplyGroup(e) PROVE KeepsGroups
      BY <2>1, <3>3, ApplyKeepsGroups
    <3>4. CASE DeleteGroup
      BY <2>1, <3>4, DeleteKeepsGroups
    <3> QED BY <2>1, <3>1, <3>2, <3>3, <3>4 DEF GroupStep
  <2>3. Regrouped(work, work')
    BY <2>2 DEF KeepsGroups, Regrouped
  <2>4. open /\ Regrouped(draft, work) /\ draft.items \in Seq(Rule)
    BY <2>1, InvParts DEF DraftInv
  <2> QED BY <2>1, <2>3, <2>4, RegroupedTwice
<1>3. CASE SearchTimer
  BY <1>3 DEF SearchTimer, gvars, DraftInv
<1>4. ASSUME ~showing, UNCHANGED gvars PROVE FALSE
  BY <1>4 DEF gvars
<1>5. box = NoBox \/ ~showing
  BY DEF DraftInv, BoxIsOfDraft
<1>6. CASE AskDelete \/ AskState \/ ConfirmDelete \/ Cancel
  <2>1. box # NoBox \/ ~showing
    BY <1>6 DEF AskDelete, AskState, ConfirmDelete, Cancel, Ready, NoBox
  <2> QED BY <1>4, <1>5, <1>6, <2>1 DEF AskDelete, AskState, ConfirmDelete, Cancel
<1>7. ASSUME NEW on, SetState(on) PROVE FALSE
  <2>1. box # NoBox
    BY <1>7 DEF SetState, NoBox
  <2> QED BY <1>4, <1>5, <1>7, <2>1 DEF SetState
<1>8. CASE ReturnFromGroups \/ Shutdown
  BY <1>8 DEF ReturnFromGroups, Shutdown, CloseGroups
<1>9. ASSUME NEW rules, NEW replace, Import(rules, replace) PROVE FALSE
  BY <1>4, <1>9 DEF Import, Ready
<1>10. CASE Open
  <2>1. ~showing
    BY <1>10 DEF Open, DraftInv, TypeOK
  <2> QED BY <1>4, <1>10, <2>1 DEF Open
<1>11. ASSUME AddRule \/ DuplicateRule PROVE FALSE
  BY <1>4, <1>11 DEF AddRule, DuplicateRule, AppendRule, Ready
<1> QED
  BY <1>1, <1>2, <1>3, <1>4, <1>6, <1>7, <1>8, <1>9, <1>10, <1>11
     DEF Step, Reload, EditDetails, CommitOnly, Apply, Save, MarkRow, ChangeMarks, Sort, Filter,
         TypeSearch, Close, Ready

\* A window that is closed has nothing left.
LEMMA StepClosed ==
  ASSUME DraftInv, Step
  PROVE  /\ open' \in BOOLEAN /\ searching' \in BOOLEAN /\ pending' \in BOOLEAN
         /\ ~open' => /\ view' = NoView /\ draft' = EmptyDocument
                      /\ box' = NoBox /\ ~searching' /\ ~showing' /\ ~pending'
<1>1. /\ open \in BOOLEAN /\ searching \in BOOLEAN /\ pending \in BOOLEAN
      /\ ~open => /\ box = NoBox /\ ~searching /\ ~showing /\ ~pending
      /\ showing => open
  BY DEF DraftInv, TypeOK
<1>2. CASE Close
  BY <1>1, <1>2 DEF Close, Destroy, Ready, gvars
<1>3. CASE Open
  BY <1>1, <1>3 DEF Open
<1>4. CASE ~Close /\ ~Open
  <2>1. open
    <3>1. Ready \/ box # NoBox \/ searching \/ showing => open
      BY <1>1 DEF Ready
    <3>2. ConfirmDelete \/ (\E on \in BOOLEAN : SetState(on)) \/ Cancel => box # NoBox
      BY DEF ConfirmDelete, SetState, Cancel, NoBox
    <3>3. UseGroups \/ ReturnFromGroups \/ Shutdown => showing
      BY DEF UseGroups, ReturnFromGroups, Shutdown, CloseGroups, GroupStep, SelectGroup,
             StartNewGroup, ApplyGroup, DeleteGroup
    <3>4. SearchTimer => searching
      BY DEF SearchTimer
    <3> QED
      BY <1>4, <3>1, <3>2, <3>3, <3>4
         DEF Step, Reload, EditDetails, CommitOnly, Apply, Save, AddRule, DuplicateRule,
             AskDelete, AskState, MarkRow, ChangeMarks, Sort, Filter, TypeSearch, Import, ManageGroups
  <2>2. /\ open' = open
        /\ searching' \in {searching, TRUE, FALSE} /\ pending' \in {pending, TRUE}
    BY <1>4 DEF Step, Reload, EditDetails, CommitOnly, Apply, Save, AddRule, DuplicateRule, AppendRule,
           AskDelete, ConfirmDelete, AskState, SetState, Cancel, MarkRow, ChangeMarks, Sort, Filter,
           TypeSearch, SearchTimer, Import, ManageGroups, ReturnFromGroups, UseGroups, Shutdown, mvars
  <2> QED BY <1>1, <2>1, <2>2
<1> QED BY <1>2, <1>3, <1>4

(***************************************************************************)
(* The invariant holds.                                                    *)
(***************************************************************************)
LEMMA InitHolds == Init => DraftInv
<1> SUFFICES ASSUME Init PROVE DraftInv
  OBVIOUS
<1>1. GroupTypeOK /\ ~showing
  BY GroupInitTyped DEF Init, GroupClosed
<1>2. Sound(draft, view) /\ view = NoView /\ draft \in Draft /\ DOMAIN draft.items = {}
      /\ draft = EmptyDocument
  BY NoViewSound, EmptyIsDraft DEF Init, EmptyDocument
<1>3. view.selected = None /\ view.fields = Blank /\ view.unapplied = FALSE /\ view.marked = {}
  BY <1>2 DEF NoView
<1>4. /\ open = FALSE /\ searching = FALSE /\ pending = FALSE /\ box = NoBox /\ look = FirstLook
      /\ box.kind = "none" /\ look.filter = NoGroup /\ changes = 0
  BY DEF Init, NoBox, FirstLook
<1>5. TypeOK
  BY <1>1, <1>2, <1>3, <1>4, BlankIsRule DEF TypeOK
<1> QED BY <1>1, <1>2, <1>3, <1>4, <1>5 DEF DraftInv, IdsAreOld, Shows, BoxIsOfDraft

\* Whoever makes an id counts a change.
LEMMA StepIds ==
  ASSUME DraftInv, DraftStands, Bounded, ~open' => draft' = EmptyDocument
  PROVE  changes' \in Nat /\ IdsAreOld'
<1> DEFINE n == IF showing /\ showing' /\ work' # work THEN 1
                ELSE IF showing \/ draft' \in Files \cup {draft, EmptyDocument} THEN 0 ELSE 1
<1>1. n \in {0, 1} /\ changes' = IF open' THEN changes + n ELSE 0
  BY DEF Bounded
<1>2. changes \in Nat /\ FirstId \in Nat
  BY InvParts
<1>3. ASSUME NEW i \in DOMAIN draft'.items PROVE draft'.items[i].id < FirstId + changes'
  <2>1. open'
    <3>1. DOMAIN EmptyDocument.items = {}
      BY DEF EmptyDocument
    <3> QED BY <1>3, <3>1
  <2>2. draft'.items[i].id \in Nat
    <3>1. draft'.items[i] \in Rule
      BY <1>3, DraftParts DEF DraftStands
    <3> QED BY <3>1 DEF Rule
  <2>3. CASE draft'.items[i].id < FirstId + changes
    <3> HIDE DEF n
    <3> QED BY <1>1, <1>2, <2>1, <2>2, <2>3
  <2>4. CASE ~showing /\ draft'.items[i].id = NewId
    <3>1. draft' \notin Files
      <4>1. draft' \in Files => draft'.items[i].id \in 1 .. FirstId - 1
        BY <1>3, RuleDraftConstants
      <4> QED BY <1>2, <2>4, <4>1 DEF NewId
    <3>2. draft' # draft
      <4>1. draft' = draft => draft'.items[i].id < FirstId + changes
        BY <1>3 DEF DraftInv, IdsAreOld
      <4> QED BY <1>2, <2>4, <4>1 DEF NewId
    <3>3. draft' # EmptyDocument
      BY <1>3 DEF EmptyDocument
    <3>4. n = 1
      BY <2>4, <3>1, <3>2, <3>3
    <3> HIDE DEF n
    <3> QED BY <1>1, <1>2, <2>1, <2>4, <3>4 DEF NewId
  <2> QED BY <1>3, <2>3, <2>4 DEF DraftStands
<1> HIDE DEF n
<1> QED BY <1>1, <1>2, <1>3 DEF IdsAreOld

LEMMA InvStep == ASSUME DraftInv, Next PROVE DraftInv'
<1>1. Step /\ Bounded
  BY DEF Next
<1>2. DraftStands
  BY <1>1, StepStands
<1>3. draft' \in Draft /\ DistinctIds(draft'.items) /\ Sound(draft', view')
  BY <1>2 DEF DraftStands
<1>4. GroupTypeOK'
  BY <1>1, <1>3, StepGroups, GroupStepTyped DEF DraftInv, TypeOK
<1>5. /\ DOMAIN look' = DOMAIN FirstLook
      /\ look'.filter # NoGroup => look'.filter \in GroupIds(draft'.groups)
  BY <1>1, StepLook
<1>6. BoxIsOfDraft'
  BY <1>1, StepBox
<1>7. showing' => open' /\ Regrouped(draft', work')
  BY <1>1, <1>3, StepShowing
<1>8. /\ open' \in BOOLEAN /\ searching' \in BOOLEAN /\ pending' \in BOOLEAN
      /\ ~open' => /\ view' = NoView /\ draft' = EmptyDocument
                   /\ box' = NoBox /\ ~searching' /\ ~showing' /\ ~pending'
  BY <1>1, StepClosed
<1>9. changes' \in Nat /\ IdsAreOld'
  BY <1>1, <1>2, <1>8, StepIds
<1>10. box'.kind \in {"none", "delete", "state"}
  BY <1>6 DEF BoxIsOfDraft, NoBox
<1>11. TypeOK'
  BY <1>3, <1>4, <1>5, <1>8, <1>10 DEF TypeOK, Sound, Filled, Listed, DistinctIds
<1>12. Kept(draft', view')
  <2>1. TypeOK /\ DetailsInv
    BY InvParts DEF DraftInv, DetailsInv
  <2> QED BY <1>11, <2>1, StepKeeps DEF DetailsInv
<1> QED BY <1>3, <1>5, <1>6, <1>7, <1>9, <1>11, <1>12 DEF DraftInv, Kept

LEMMA StutterKeeps == ASSUME DraftInv, UNCHANGED vars PROVE DraftInv'
BY DEF DraftInv, TypeOK, GroupTypeOK, IdsAreOld, BoxIsOfDraft, vars

\* A question is about rules of the draft, the group manager's copy has the rules
\* of the draft, an id that is made is new, and list and fields are of the draft.
THEOREM DraftInvariant == Spec => []DraftInv
BY InitHolds, InvStep, StutterKeeps, PTL DEF Spec

\* In the draft rule ids and group ids are distinct, whatever is edited, imported
\* or taken from the group manager (of triggers nothing is said: a draft may have
\* some that a save would refuse); marks are of rows, changes are of a
\* selected rule, the filter is for a group of the draft, and a window that is
\* closed has left no timer, question or group manager.
THEOREM DraftTyped == Spec => []TypeOK
<1>1. DraftInv => TypeOK
  BY DEF DraftInv
<1> QED BY <1>1, DraftInvariant, PTL

\* Whatever is searched, sorted, marked, deleted, added, imported or regrouped,
\* the fields are those of the rule they would be applied to, as the draft has
\* it.  (selectedDocumentIndex_ and detailsDirty_ in RuleManager.cpp.)
THEOREM DetailsAreOfSelected == Spec => []DetailsShowSelected
<1>1. DraftInv => DetailsShowSelected
  BY DEF DraftInv, Shows, DetailsShowSelected
<1> QED BY <1>1, DraftInvariant, PTL

\* A row is always of the rule whose columns it shows, however old it is.
\* (visibleRows_, which only refreshList computes.)
THEOREM RowsAreTheirRules == Spec => []RowsShowTheirRules
<1>1. DraftInv => RowsShowTheirRules
  BY DEF DraftInv, Sound, Listed, RowsShowTheirRules
<1> QED BY <1>1, DraftInvariant, PTL

\* In the window the group manager does nothing that it does not do by itself on
\* any draft.  (manageGroups, and the end of Notepad++ while it is open.)
THEOREM WindowUsesGroups == Spec => GroupSpec
<1>1. Init => GroupClosed
  BY DEF Init
<1>2. DraftInv /\ [Next]_vars => [GroupNext]_gvars
  <2>1. ASSUME DraftInv, Next PROVE [GroupNext]_gvars
    BY <2>1, StepStands, StepGroups DEF Next, DraftStands
  <2>2. ASSUME UNCHANGED vars PROVE UNCHANGED gvars
    BY <2>2 DEF vars, gvars
  <2> QED BY <2>1, <2>2
<1> QED BY <1>1, <1>2, DraftInvariant, PTL DEF Spec, GroupSpec

\* So no rule of a draft that is edited with it loses its group.
THEOREM DraftKeepsGroups == Spec => RulesKeepTheirGroups
BY WindowUsesGroups, GroupsKeepTheirRules

(***************************************************************************)
(* Who changes a rule.                                                     *)
(***************************************************************************)
\* The rules that were asked about, when the answer is given.
Asked == IF box' = NoBox THEN box.rules ELSE {}

Alike(r, s, Fields) == \A f \in DOMAIN r \ Fields : r[f] = s[f]

\* A change of a rule that the user has chosen, by fields, answer or group.
Chosen(old, new) ==
  \/ new = old
  \/ Uncommitted /\ view.fields.id = old.id /\ new = view.fields
  \/ box.kind = "state" /\ old.id \in Asked /\ Alike(old, new, {"enabled"})
  \/ showing /\ ~showing' /\ Alike(old, new, {"group"})

\* OnlyChosenRulesChange of one step, by places instead of ids.
ChosenOnly ==
  /\ box.kind = "delete" /\ draft' # draft => RuleIds(draft') = RuleIds(draft) \ Asked
  /\ box.kind # "delete" => RuleIds(draft) \subseteq RuleIds(draft')
  /\ \A i \in DOMAIN draft.items, j \in DOMAIN draft'.items :
       draft'.items[j].id = draft.items[i].id => Chosen(draft.items[i], draft'.items[j])
  /\ box.kind = "state" /\ draft' # draft =>
       /\ Asked \subseteq RuleIds(draft')
       /\ \E on \in BOOLEAN : \A j \in DOMAIN draft'.items :
            draft'.items[j].id \in Asked => draft'.items[j].enabled = on

LEMMA SameIsChosen == ASSUME DraftInv, draft' = draft PROVE ChosenOnly
BY InvParts DEF ChosenOnly, Chosen, DistinctIds

\* No rule goes and none comes: what is left is what became of each.
LEMMA InPlaceIsChosen ==
  ASSUME DraftInv, box = NoBox, SamePlaces(draft, draft'),
         \A i \in DOMAIN draft.items : Chosen(draft.items[i], draft'.items[i])
  PROVE  ChosenOnly
<1>1. RuleIds(draft') = RuleIds(draft)
  BY DEF RuleIds, SamePlaces
<1>2. ASSUME NEW i \in DOMAIN draft.items, NEW j \in DOMAIN draft'.items,
             draft'.items[j].id = draft.items[i].id
      PROVE  Chosen(draft.items[i], draft'.items[j])
  <2>1. i = j
    BY <1>2, InvParts DEF SamePlaces, DistinctIds
  <2> QED BY <2>1
<1>3. box.kind = "none"
  BY DEF NoBox
<1> QED BY <1>1, <1>2, <1>3 DEF ChosenOnly

LEMMA CommitIsChosen ==
  ASSUME DraftInv, box = NoBox, CanCommit, draft' = CommittedDraft
  PROVE  ChosenOnly
<1>1. /\ SamePlaces(draft, draft')
      /\ \A i \in DOMAIN draft.items : Chosen(draft.items[i], draft'.items[i])
  BY CommittedProperties DEF Chosen
<1> QED BY <1>1, InPlaceIsChosen

\* Rules with new ids come behind the committed draft.
LEMMA GrowthIsChosen ==
  ASSUME DraftInv, box = NoBox, CanCommit, DistinctIds(draft'.items),
         \A i \in DOMAIN draft.items : i \in DOMAIN draft'.items
                                       /\ draft'.items[i] = CommittedDraft.items[i]
  PROVE  ChosenOnly
<1>1. /\ SamePlaces(draft, CommittedDraft)
      /\ \A i \in DOMAIN draft.items : Chosen(draft.items[i], CommittedDraft.items[i])
  BY CommittedProperties DEF Chosen
<1>2. \A i \in DOMAIN draft.items : draft'.items[i].id = draft.items[i].id
  BY <1>1 DEF SamePlaces
<1>3. RuleIds(draft) \subseteq RuleIds(draft')
  BY <1>2 DEF RuleIds
<1>4. ASSUME NEW i \in DOMAIN draft.items, NEW j \in DOMAIN draft'.items,
             draft'.items[j].id = draft.items[i].id
      PROVE  Chosen(draft.items[i], draft'.items[j])
  <2>1. j = i
    BY <1>2, <1>4 DEF DistinctIds
  <2> QED BY <1>1, <2>1
<1>5. box.kind = "none"
  BY DEF NoBox
<1> QED BY <1>3, <1>4, <1>5 DEF ChosenOnly

LEMMA AppendIsChosen ==
  ASSUME DraftInv, DistinctIds(draft'.items), AddRule \/ DuplicateRule
  PROVE  ChosenOnly
<1>1. box = NoBox /\ CanCommit
  BY DEF AddRule, DuplicateRule, Ready
<1>2. PICK rule : AppendRule(rule)
  BY DEF AddRule, DuplicateRule
<1> DEFINE C == CommittedDraft
           S == Rule \cup {rule}
<1>3. /\ C \in Draft /\ SamePlaces(draft, C)
      /\ C.items \in Seq(Rule) /\ C = [items |-> C.items, groups |-> C.groups]
  BY <1>1, CommittedProperties, DraftParts
<1>4. draft' = [C EXCEPT !.items = Append(@, rule)]
  BY <1>2 DEF AppendRule
<1>5. C.items \in Seq(S) /\ rule \in S
  BY <1>3, ListOfMore
<1> HIDE DEF C, S
<1>6. draft'.items = Append(C.items, rule)
  BY <1>3, <1>4
<1>7. /\ Append(C.items, rule) \in Seq(S)
      /\ Len(Append(C.items, rule)) = Len(C.items) + 1
      /\ \A i \in 1 .. Len(C.items) : Append(C.items, rule)[i] = C.items[i]
  BY <1>5, AppendProperties
<1>8. /\ DOMAIN C.items = 1 .. Len(C.items) /\ Len(C.items) \in Nat
      /\ DOMAIN Append(C.items, rule) = 1 .. Len(Append(C.items, rule))
  BY <1>5, <1>7, LenProperties
<1>9. \A i \in DOMAIN C.items : i \in DOMAIN draft'.items /\ draft'.items[i] = C.items[i]
  BY <1>6, <1>7, <1>8
<1>10. DOMAIN C.items = DOMAIN draft.items
  BY <1>3 DEF SamePlaces
<1> QED BY <1>1, <1>9, <1>10, GrowthIsChosen DEF C

\* What goes is what was asked about, wherever it is in the list.
LEMMA DeleteIsChosen == ASSUME DraftInv, ConfirmDelete PROVE ChosenOnly
<1> DEFINE items == Erased(draft.items, box.indices)
<1>1. /\ DistinctIds(items) /\ DistinctIds(draft.items)
      /\ Members(items) = {draft.items[i] : i \in DOMAIN draft.items \ box.indices}
  BY InvParts, ErasedProperties
<1>2. draft'.items = items
  <2>1. draft = [items |-> draft.items, groups |-> draft.groups]
    BY InvParts, DraftParts
  <2>2. draft' = [draft EXCEPT !.items = items]
    BY DEF ConfirmDelete
  <2> HIDE DEF items
  <2> QED BY <2>1, <2>2
<1> HIDE DEF items
<1>3. box.kind = "delete" /\ box # NoBox /\ box' = NoBox
  BY DEF ConfirmDelete, NoBox
<1>4. /\ box.indices \subseteq DOMAIN draft.items
      /\ Asked = {draft.items[i].id : i \in box.indices}
  BY <1>3 DEF DraftInv, BoxIsOfDraft, Asked
<1>5. \A j \in DOMAIN items : \E i \in DOMAIN draft.items \ box.indices : items[j] = draft.items[i]
  BY <1>1 DEF Members
<1>6. \A i \in DOMAIN draft.items \ box.indices : \E j \in DOMAIN items : items[j] = draft.items[i]
  BY <1>1 DEF Members
<1>7. RuleIds(draft') = RuleIds(draft) \ Asked
  <2>1. ASSUME NEW id \in RuleIds(draft') PROVE id \in RuleIds(draft) \ Asked
    <3>1. PICK j \in DOMAIN items : id = items[j].id
      BY <1>2, <2>1 DEF RuleIds
    <3>2. PICK i \in DOMAIN draft.items \ box.indices : items[j] = draft.items[i]
      BY <1>5
    <3>3. id \notin Asked
      BY <1>1, <1>4, <3>1, <3>2 DEF DistinctIds
    <3> QED BY <3>1, <3>2, <3>3 DEF RuleIds
  <2>2. ASSUME NEW id \in RuleIds(draft) \ Asked PROVE id \in RuleIds(draft')
    <3>1. PICK i \in DOMAIN draft.items : id = draft.items[i].id
      BY <2>2 DEF RuleIds
    <3>2. i \notin box.indices
      BY <1>4, <2>2, <3>1
    <3>3. PICK j \in DOMAIN items : items[j] = draft.items[i]
      BY <1>6, <3>2
    <3> QED BY <1>2, <3>1, <3>3 DEF RuleIds
  <2> QED BY <2>1, <2>2
<1>8. ASSUME NEW i \in DOMAIN draft.items, NEW j \in DOMAIN draft'.items,
             draft'.items[j].id = draft.items[i].id
      PROVE  draft'.items[j] = draft.items[i]
  <2>1. PICK k \in DOMAIN draft.items : items[j] = draft.items[k]
    BY <1>2, <1>5, <1>8
  <2>2. k = i
    BY <1>1, <1>2, <1>8, <2>1 DEF DistinctIds
  <2> QED BY <1>2, <2>1, <2>2
<1> QED BY <1>3, <1>7, <1>8 DEF ChosenOnly, Chosen

\* All that was asked about is switched, and nothing else.
LEMMA StateIsChosen ==
  ASSUME DraftInv, NEW on \in BOOLEAN, SetState(on)
  PROVE  ChosenOnly
<1> DEFINE items == WithState(draft.items, box.indices, on)
<1>1. draft'.items = items
  <2>1. draft = [items |-> draft.items, groups |-> draft.groups]
    BY InvParts, DraftParts
  <2>2. draft' = [draft EXCEPT !.items = items]
    BY DEF SetState
  <2> HIDE DEF items
  <2> QED BY <2>1, <2>2
<1>2. box.kind = "state" /\ box # NoBox /\ box' = NoBox
  BY DEF SetState, NoBox
<1>3. /\ box.indices \subseteq DOMAIN draft.items
      /\ Asked = {draft.items[i].id : i \in box.indices}
  BY <1>2 DEF DraftInv, BoxIsOfDraft, Asked
<1>4. /\ DOMAIN items = DOMAIN draft.items
      /\ \A i \in DOMAIN draft.items :
           items[i] = IF i \in box.indices THEN [draft.items[i] EXCEPT !.enabled = on]
                      ELSE draft.items[i]
  BY DEF WithState
<1> HIDE DEF items
<1>5. \A i \in DOMAIN draft.items : draft.items[i] \in Rule
  BY InvParts, DraftParts
<1>6. ASSUME NEW i \in DOMAIN draft.items
      PROVE  /\ items[i].id = draft.items[i].id
             /\ i \in box.indices => items[i].enabled = on
             /\ i \in box.indices => Alike(draft.items[i], items[i], {"enabled"})
             /\ i \notin box.indices => items[i] = draft.items[i]
  <2>1. CASE i \in box.indices
    <3>1. items[i] = [draft.items[i] EXCEPT !.enabled = on] /\ draft.items[i] \in Rule
      BY <1>4, <1>5, <2>1
    <3> QED BY <2>1, <3>1 DEF Rule, Alike
  <2>2. CASE i \notin box.indices
    BY <1>4, <2>2
  <2> QED BY <2>1, <2>2
<1>7. DistinctIds(draft.items)
  BY InvParts
<1>8. RuleIds(draft') = RuleIds(draft) /\ Asked \subseteq RuleIds(draft)
  BY <1>1, <1>3, <1>4, <1>6 DEF RuleIds
<1>9. ASSUME NEW i \in DOMAIN draft.items, NEW j \in DOMAIN draft'.items,
             draft'.items[j].id = draft.items[i].id
      PROVE  Chosen(draft.items[i], draft'.items[j])
  <2>1. j = i
    BY <1>1, <1>4, <1>6, <1>7, <1>9 DEF DistinctIds
  <2>2. CASE i \in box.indices
    <3>1. draft.items[i].id \in Asked
      BY <1>3, <2>2
    <3> QED BY <1>1, <1>2, <1>6, <2>1, <2>2, <3>1 DEF Chosen
  <2>3. CASE i \notin box.indices
    BY <1>1, <1>6, <2>1, <2>3 DEF Chosen
  <2> QED BY <2>2, <2>3
<1>10. ASSUME NEW j \in DOMAIN draft'.items, draft'.items[j].id \in Asked
       PROVE  draft'.items[j].enabled = on
  <2>1. PICK i \in box.indices : draft'.items[j].id = draft.items[i].id
    BY <1>3, <1>10
  <2>2. i = j
    BY <1>1, <1>3, <1>4, <1>6, <1>7, <2>1 DEF DistinctIds
  <2> QED BY <1>1, <1>3, <1>6, <2>2
<1> QED BY <1>2, <1>8, <1>9, <1>10 DEF ChosenOnly

LEMMA TakeIsChosen ==
  ASSUME DraftInv, TakeGroups, CloseGroups
  PROVE  ChosenOnly
<1>1. showing /\ ~showing' /\ box = NoBox /\ Regrouped(draft, work)
  BY DEF CloseGroups, DraftInv, BoxIsOfDraft
<1>2. draft' = draft \/ draft' = work
  BY DEF TakeGroups
<1>3. CASE draft' = work
  <2>1. ASSUME NEW i \in DOMAIN draft.items
        PROVE  /\ work.items[i].id = draft.items[i].id
               /\ Alike(draft.items[i], work.items[i], {"group"})
    <3>1. /\ work.items[i] = [draft.items[i] EXCEPT !.group = work.items[i].group]
          /\ draft.items[i] \in Rule
      BY <1>1, InvParts, DraftParts DEF Regrouped
    <3> QED BY <3>1 DEF Rule, Alike
  <2>2. SamePlaces(draft, draft')
    BY <1>1, <1>3, <2>1 DEF SamePlaces, Regrouped
  <2>3. \A i \in DOMAIN draft.items : Chosen(draft.items[i], draft'.items[i])
    BY <1>1, <1>3, <2>1 DEF Chosen
  <2> QED BY <1>1, <2>2, <2>3, InPlaceIsChosen
<1> QED BY <1>2, <1>3, SameIsChosen

LEMMA StepIsChosen ==
  ASSUME DraftInv, Next, open, open', draft' \notin Files,
         RuleIds(draft) \cap RuleIds(draft') # {} \/ RuleIds(draft') = {}
  PROVE  ChosenOnly
<1>1. Step /\ DistinctIds(draft'.items)
  BY StepStands DEF Next, DraftStands
<1>2. CASE Open
  BY <1>2 DEF Open
<1>3. ASSUME NEW d \in Files, Reload(d) PROVE FALSE
  BY <1>3 DEF Reload
<1>4. CASE CommitOnly \/ Apply \/ Save \/ AskState \/ ManageGroups
  BY <1>4, CommitIsChosen DEF CommitOnly, Apply, Save, AskState, ManageGroups, Ready
<1>5. CASE AddRule \/ DuplicateRule
  BY <1>1, <1>5, AppendIsChosen
<1>6. CASE ConfirmDelete
  BY <1>6, DeleteIsChosen
<1>7. ASSUME NEW on \in BOOLEAN, SetState(on) PROVE ChosenOnly
  BY <1>7, StateIsChosen
<1>8. ASSUME NEW r, NEW others, MarkRow(r, others) PROVE ChosenOnly
  BY <1>8, CommitIsChosen, SameIsChosen DEF MarkRow, Ready
<1>9. ASSUME NEW rules \in Imports, NEW replace \in BOOLEAN, Import(rules, replace)
      PROVE  ChosenOnly
  <2>1. /\ \A j \in DOMAIN draft'.items :
             \/ draft'.items[j].id = NewId
             \/ ~replace /\ j \in DOMAIN draft.items /\ draft'.items[j] = CommittedDraft.items[j]
        /\ ~replace => \A i \in DOMAIN draft.items : i \in DOMAIN draft'.items
                                                    /\ draft'.items[i] = CommittedDraft.items[i]
        /\ DOMAIN draft'.items # {}
    BY <1>9, ImportedProperties
  <2>2. box = NoBox /\ CanCommit
    BY <1>9 DEF Import, Ready
  <2>3. CASE ~replace
    BY <1>1, <2>1, <2>2, <2>3, GrowthIsChosen
  <2>4. CASE replace
    <3>1. \A j \in DOMAIN draft'.items : draft'.items[j].id = NewId
      BY <2>1, <2>4
    <3>2. ASSUME NEW i \in DOMAIN draft.items PROVE draft.items[i].id # NewId
      <4>1. draft.items[i].id < NewId /\ NewId \in Nat
        BY InvParts DEF DraftInv, IdsAreOld, NewId
      <4>2. draft.items[i] \in Rule
        BY InvParts, DraftParts
      <4> QED BY <4>1, <4>2 DEF Rule
    <3>3. RuleIds(draft) \cap RuleIds(draft') = {} /\ RuleIds(draft') # {}
      BY <2>1, <3>1, <3>2 DEF RuleIds
    <3> QED BY <3>3
  <2> QED BY <2>3, <2>4
<1>10. CASE ReturnFromGroups \/ Shutdown
  BY <1>10, TakeIsChosen DEF ReturnFromGroups, Shutdown
<1>11. CASE Close
  BY <1>11 DEF Close, Destroy
<1> QED
  BY <1>1, <1>2, <1>3, <1>4, <1>5, <1>6, <1>7, <1>8, <1>9, <1>10, <1>11, SameIsChosen
     DEF Step, EditDetails, AskDelete, Cancel, ChangeMarks, Sort, Filter, TypeSearch, SearchTimer,
         UseGroups, mvars

\* The only rule with an id.
LEMMA RuleOfIsIt ==
  ASSUME NEW d, DistinctIds(d.items), NEW id \in RuleIds(d)
  PROVE  RuleOf(d, id) \in DOMAIN d.items /\ d.items[RuleOf(d, id)].id = id
<1>1. \E i \in DOMAIN d.items : d.items[i].id = id
  BY DEF RuleIds
<1> QED BY <1>1 DEF RuleOf

\* No command touches a rule that its user did not choose: by the row that was
\* marked, by the fields that were loaded or by the group.  (deleteSelectedRules,
\* setSelectedState, commitDetails, manageGroups.)
THEOREM OnlyChosenChange == Spec => OnlyChosenRulesChange
<1> DEFINE Chosen1 ==
      LET asked == IF box' = NoBox THEN box.rules ELSE {}
          Same(r, s, Fields) == \A f \in DOMAIN r \ Fields : r[f] = s[f]
      IN /\ box.kind = "delete" /\ draft' # draft => RuleIds(draft') = RuleIds(draft) \ asked
         /\ box.kind # "delete" => RuleIds(draft) \subseteq RuleIds(draft')
         /\ \A id \in RuleIds(draft) \cap RuleIds(draft') :
              LET old == draft.items[RuleOf(draft, id)]
                  new == draft'.items[RuleOf(draft', id)]
              IN \/ new = old
                 \/ Uncommitted /\ view.fields.id = id /\ new = view.fields
                 \/ box.kind = "state" /\ id \in asked /\ Same(old, new, {"enabled"})
                 \/ showing /\ ~showing' /\ Same(old, new, {"group"})
         /\ box.kind = "state" /\ draft' # draft =>
              \E on \in BOOLEAN : \A id \in asked : draft'.items[RuleOf(draft', id)].enabled = on
<1>1. ASSUME DraftInv, Next, open, open', draft' \notin Files,
             RuleIds(draft) \cap RuleIds(draft') # {} \/ RuleIds(draft') = {}
      PROVE  Chosen1
  <2>1. ChosenOnly
    BY <1>1, StepIsChosen
  <2>2. DistinctIds(draft.items) /\ DistinctIds(draft'.items)
    BY <1>1, InvParts, StepStands DEF Next, DraftStands
  <2>3. ASSUME NEW id \in RuleIds(draft) \cap RuleIds(draft')
        PROVE  LET old == draft.items[RuleOf(draft, id)]
                   new == draft'.items[RuleOf(draft', id)]
               IN old.id = id /\ Chosen(old, new)
    BY <2>1, <2>2, RuleOfIsIt DEF ChosenOnly
  <2>4. ASSUME box.kind = "state", draft' # draft
        PROVE  \E on \in BOOLEAN : \A id \in Asked : draft'.items[RuleOf(draft', id)].enabled = on
    <3>1. PICK on \in BOOLEAN : \A j \in DOMAIN draft'.items :
            draft'.items[j].id \in Asked => draft'.items[j].enabled = on
      BY <2>1, <2>4 DEF ChosenOnly
    <3>2. Asked \subseteq RuleIds(draft')
      BY <2>1, <2>4 DEF ChosenOnly
    <3> QED BY <2>2, <3>1, <3>2, RuleOfIsIt
  <2>5. /\ box.kind = "delete" /\ draft' # draft => RuleIds(draft') = RuleIds(draft) \ Asked
        /\ box.kind # "delete" => RuleIds(draft) \subseteq RuleIds(draft')
    BY <2>1 DEF ChosenOnly
  <2> QED BY <2>3, <2>4, <2>5 DEF Chosen, Asked, Alike
<1>2. DraftInv /\ [Next]_vars =>
        [open /\ open' /\ draft' \notin Files
           /\ (RuleIds(draft) \cap RuleIds(draft') # {} \/ RuleIds(draft') = {}) => Chosen1]_vars
  <2> HIDE DEF Chosen1
  <2> QED BY <1>1
<1> QED BY <1>2, DraftInvariant, PTL DEF Spec, OnlyChosenRulesChange
=============================================================================
