---------------------------- MODULE GroupManager ----------------------------
(***************************************************************************)
(* The group manager: a modal window in which the groups of a draft are    *)
(* created, renamed, switched and deleted, on a copy of the draft that     *)
(* goes back to the rule manager when the window is closed and something   *)
(* was applied.  A rule belongs to a group by naming its id, so that a new *)
(* id has to reach every rule of the group and no other.                   *)
(*                                                                         *)
(* Groups are positions in the copy's list, as the window's list has them: *)
(* it always shows all of them in the order of the document.  What the     *)
(* user has put in the fields is an argument of applyGroup, the only one   *)
(* to read them; that the window asks before it fills them anew            *)
(* (confirmDiscard) changes nothing else.                                  *)
(***************************************************************************)
EXTENDS RuleDocument

CONSTANTS
  Name,           \* ids and display names of groups, without the empty one
  Word,           \* what triggers are made of
  GroupEdits      \* what a user may put in the fields: id, name, enabled

Group == [id : Name, name : Name, enabled : BOOLEAN]
Rule == [id : Nat, trigger : Seq(Word), enabled : BOOLEAN,
         group : Name \cup {NoGroup}, immediate : BOOLEAN]

\* Drafts; one may be invalid, but never in its groups.
Draft == {d \in [items : Seq(Rule), groups : Seq(Group)] : DistinctGroups(d.groups)}

ASSUME GroupManagerConstants ==
  /\ NoGroup \notin Name
  /\ GroupEdits \subseteq [id : Name \cup {NoGroup}, name : Name \cup {NoGroup}, enabled : BOOLEAN]

VARIABLES
  showing,        \* the window is open
  work,           \* document_: the copy of the draft
  current,        \* currentIndex_: the group in the fields, 0 for none
  creating,       \* creating_: the fields are for a group that is to be made
  changed         \* changed_

gvars == <<showing, work, current, creating, changed>>

None == 0
EmptyDocument == [items |-> <<>>, groups |-> <<>>]

\* The fields are of a group of the list, or of one that is to be made.
GroupTypeOK ==
  /\ showing \in BOOLEAN /\ creating \in BOOLEAN /\ changed \in BOOLEAN
  /\ work \in Draft
  /\ showing => /\ current \in DOMAIN work.groups \cup {None}
                /\ creating <=> current = None
  /\ ~showing => work = EmptyDocument /\ current = None /\ ~creating /\ ~changed

GroupClosed ==
  /\ showing = FALSE
  /\ work = EmptyDocument
  /\ current = None
  /\ creating = FALSE
  /\ changed = FALSE

-----------------------------------------------------------------------------
\* loadSelected: group g is in the fields.
LoadGroup(g) ==
  /\ current' = g
  /\ creating' = FALSE

\* beginNew
BeginNew ==
  /\ current' = None
  /\ creating' = TRUE

\* refreshList without a group to select: the first one, or a new one.
RefreshGroups(d) == IF d.groups = <<>> THEN BeginNew ELSE LoadGroup(1)

\* The window opens on a copy of draft d.
ShowGroups(d) ==
  /\ ~showing
  /\ showing' = TRUE
  /\ work' = d
  /\ changed' = FALSE
  /\ RefreshGroups(d)

\* A row is selected.
SelectGroup(g) ==
  /\ showing
  /\ LoadGroup(g)
  /\ UNCHANGED <<showing, work, changed>>

StartNewGroup ==
  /\ showing
  /\ BeginNew
  /\ UNCHANGED <<showing, work, changed>>

-----------------------------------------------------------------------------
\* The group that the fields e describe; an empty name is the id.
Described(e) == [e EXCEPT !.name = IF @ = NoGroup THEN e.id ELSE @]

\* Rules of the group "old" are rules of the group "new".
Relinked(items, old, new) ==
  [i \in DOMAIN items |->
     IF items[i].group = old THEN [items[i] EXCEPT !.group = new] ELSE items[i]]

\* duplicateId: another group has the id already.
DuplicateId(id) == \E g \in DOMAIN work.groups : g # current /\ work.groups[g].id = id

\* MUTANT of Applied: the old id is read after it was overwritten.
AppliedLate(e) ==
  IF creating
  THEN [work EXCEPT !.groups = Append(@, Described(e))]
  ELSE [groups |-> [work.groups EXCEPT ![current] = Described(e)],
        items |-> Relinked(work.items, e.id, e.id)]

\* The copy with the fields applied, to a new group or to the current one.
Applied(e) ==
  IF creating
  THEN [work EXCEPT !.groups = Append(@, Described(e))]
  ELSE [groups |-> [work.groups EXCEPT ![current] = Described(e)],
        items |-> Relinked(work.items, work.groups[current].id, e.id)]

\* applyGroup; a copy that RuleStore refuses is rolled back: no step.
ApplyGroup(e) ==
  /\ showing
  /\ creating \/ current # None
  /\ e.id # NoGroup
  /\ ~DuplicateId(e.id)
  /\ Valid(Applied(e))
  /\ work' = Applied(e)
  /\ changed' = TRUE
  /\ LoadGroup(IF creating THEN Len(work.groups) + 1 ELSE current)
  /\ UNCHANGED showing

\* The copy without the current group, its rules in none.
WithoutCurrent ==
  [groups |-> RemoveAt(work.groups, current),
   items |-> Relinked(work.items, work.groups[current].id, NoGroup)]

\* deleteGroup, confirmed.
DeleteGroup ==
  /\ showing
  /\ current # None
  /\ Valid(WithoutCurrent)
  /\ work' = WithoutCurrent
  /\ changed' = TRUE
  /\ RefreshGroups(WithoutCurrent)
  /\ UNCHANGED showing

\* WM_CLOSE; the caller takes work if changed.
CloseGroups ==
  /\ showing
  /\ showing' = FALSE
  /\ work' = EmptyDocument
  /\ current' = None
  /\ creating' = FALSE
  /\ changed' = FALSE

\* What the user does in the window.
GroupStep ==
  \/ \E g \in DOMAIN work.groups : SelectGroup(g)
  \/ StartNewGroup
  \/ \E e \in GroupEdits : ApplyGroup(e)
  \/ DeleteGroup

-----------------------------------------------------------------------------
\* The window by itself, opened on any draft.
GroupNext ==
  \/ work' \in Draft /\ ShowGroups(work')
  \/ GroupStep
  \/ CloseGroups

GroupSpec == GroupClosed /\ [][GroupNext]_gvars

-----------------------------------------------------------------------------
\* The groups a rule belongs to, as positions in the list.
Home(d, i) == {g \in DOMAIN d.groups : d.groups[g].id = d.items[i].group}

\* Where the groups of a list are after the one at position p was deleted.
Shifted(gs, p) == {IF g < p THEN g ELSE g - 1 : g \in gs \ {p}}

\* Applying and deleting a group keeps every rule in the group it was in, under
\* whatever id; those of a deleted group are in none, and nothing but the group
\* of a rule ever changes.  Only a rule whose group does not exist may find one,
\* when a group gets the id it names.  (applyGroup, deleteGroup: each has to
\* find the rules of a group by its id before that id is gone.)
KeepsGroups ==
  /\ DOMAIN work'.items = DOMAIN work.items
  /\ \A i \in DOMAIN work.items :
       /\ work'.items[i] = [work.items[i] EXCEPT !.group = work'.items[i].group]
       /\ Home(work, i) # {} =>
            IF Len(work'.groups) < Len(work.groups)
            THEN Home(work', i) = Shifted(Home(work, i), current)
            ELSE Home(work', i) = Home(work, i)

RulesKeepTheirGroups == [][showing /\ showing' => KeepsGroups]_gvars
=============================================================================
