----------------------------- MODULE RuleDraft ------------------------------
(***************************************************************************)
(* The rule manager's window over one draft: a virtual list that shows     *)
(* some of the rules in some order, the fields of one of them, commands    *)
(* on the marked rows, and the modal group manager on top.                 *)
(*                                                                         *)
(* A row is a position, and so is the rule behind it: the list keeps its   *)
(* marks by position when its rows are sorted, filtered or fewer, and      *)
(* commands translate marked rows to indices of the document.  Everything  *)
(* here is about whether a position still means the rule it was taken for. *)
(*                                                                         *)
(* One action per command or message.  A command that ends without an      *)
(* effect, such as one whose commit is refused, is no step.  Whether the   *)
(* rules differ from the file is in the module RuleFile.                   *)
(***************************************************************************)
EXTENDS GroupManager

CONSTANTS
  Files,        \* documents that are loaded
  Edits,        \* what a user may put in the fields, as rules (of any id)
  Imports,      \* rules to import, one at a time (of any ids)
  Queries,      \* what a user searches for: words
  NoQuery,      \* the empty search
  Filters,      \* groups a user filters by
  Columns,      \* columns to sort by, of {"state", "trigger"}
  WordOrder,    \* all words in their order, those of the state column too
  New, Copy,    \* the words for an added rule and for a duplicate
  Numerals,     \* bound: the words "2", "3", ... for a trigger that exists
  FirstId,      \* ids of files are less than those that are made
  MaxChanges,   \* bound on the changes to a draft
  MaxLook       \* bound on how many of search, filter, column and order differ
                \* from those of a new window

ASSUME RuleDraftConstants ==
  /\ Files \subseteq Draft /\ \A d \in Files : Valid(d)
  /\ \A d \in Files : \A i \in DOMAIN d.items : d.items[i].id \in 1 .. FirstId - 1
  /\ Edits \subseteq Rule
  /\ Imports \subseteq Seq(Rule) /\ <<>> \notin Imports
  /\ {New, Copy} \subseteq Word /\ Numerals \in Seq(Word)
  /\ FirstId \in Nat /\ MaxChanges \in Nat /\ MaxLook \in Nat

VARIABLES
  open,         \* the window exists
  draft,        \* document_: items and groups
  view,         \* the list and the fields, see TypeOK
  look,         \* search text, group filter, sort column and order
  searching,    \* the search timer is armed
  box,          \* a question on the screen and the rules it is about
  pending,      \* pendingClose_ was set, WM_CLOSE is posted
  changes       \* the changes made to the draft since the window was opened

mvars == <<open, draft, view, look, searching, box, pending>>
vars == <<open, draft, view, look, searching, box, pending, changes,
          showing, work, current, creating, changed>>

NoRule == 0
NoBox == [kind |-> "none", indices |-> {}, rules |-> {}]
Blank == [id |-> NoRule, trigger |-> <<>>, enabled |-> FALSE, group |-> NoGroup, immediate |-> FALSE]
NoView == [rows |-> <<>>, marked |-> {}, selected |-> None, fields |-> Blank, unapplied |-> FALSE]
FirstLook == [query |-> NoQuery, filter |-> NoGroup, column |-> "trigger", ascending |-> TRUE]

RuleIds(d) == {d.items[i].id : i \in DOMAIN d.items}

\* view.rows: visibleRows_, each with the index it keeps and the rule whose
\* columns it shows; marked: the rows the list has marked; selected:
\* selectedDocumentIndex_; fields: the controls, with the rule they were loaded
\* from; unapplied: detailsDirty_.
TypeOK ==
  /\ GroupTypeOK
  /\ open \in BOOLEAN /\ searching \in BOOLEAN /\ pending \in BOOLEAN
  /\ draft \in Draft
  /\ view.fields \in Rule
  /\ \A i, j \in DOMAIN draft.items : draft.items[i].id = draft.items[j].id => i = j
  /\ view.marked \subseteq DOMAIN view.rows
  /\ view.unapplied => view.selected # None
  /\ look.filter # NoGroup => look.filter \in GroupIds(draft.groups)
  /\ box.kind \in {"none", "delete", "state"}
  /\ ~open => /\ view = NoView /\ draft = EmptyDocument
              /\ box = NoBox /\ ~searching /\ ~showing /\ ~pending

Init ==
  /\ open = FALSE
  /\ draft = EmptyDocument
  /\ view = NoView
  /\ look = FirstLook
  /\ searching = FALSE
  /\ box = NoBox
  /\ pending = FALSE
  /\ changes = 0
  /\ GroupClosed

-----------------------------------------------------------------------------
\* The list.

Rank(word) == CHOOSE n \in DOMAIN WordOrder : WordOrder[n] = word

TextBefore(s, t) ==
  \/ IsStrictPrefix(s, t)
  \/ \E n \in DOMAIN s \cap DOMAIN t :
       /\ SubSeq(s, 1, n - 1) = SubSeq(t, 1, n - 1)
       /\ Rank(s[n]) < Rank(t[n])

\* The state column: what the rule's own mark and its group's make of it.
State(d, rule) ==
  IF ~rule.enabled THEN <<"Rule off">>
  ELSE IF rule.group = NoGroup THEN <<"On">>
  ELSE IF rule.group \notin GroupIds(d.groups) THEN <<"Missing group">>
  ELSE IF \E g \in DOMAIN d.groups : d.groups[g].id = rule.group /\ ~d.groups[g].enabled
       THEN <<"Group off">>
       ELSE <<"On">>

Shown(rule, lk) ==
  /\ lk.filter # NoGroup => rule.group = lk.filter
  /\ lk.query # NoQuery => \/ rule.group = lk.query
                           \/ \E n \in DOMAIN rule.trigger : rule.trigger[n] = lk.query

\* refreshList and sortVisibleRows: the rows in the order of a column, each put
\* in its place among those of the rules before it.
Visible(d, lk) ==
  LET Text(i) == IF lk.column = "state" THEN State(d, d.items[i]) ELSE d.items[i].trigger
      Before(i, j) == IF Text(i) = Text(j) THEN i < j
                      ELSE TextBefore(Text(i), Text(j)) = lk.ascending
      Place(s, i) == Cardinality({r \in DOMAIN s : Before(s[r], i)}) + 1
      sorted[n \in 0 .. Len(d.items)] ==
        IF n = 0 THEN <<>>
        ELSE IF Shown(d.items[n], lk) THEN InsertAt(sorted[n - 1], Place(sorted[n - 1], n), n)
        ELSE sorted[n - 1]
      rows == sorted[Len(d.items)]
  IN [r \in DOMAIN rows |-> [index |-> rows[r], rule |-> d.items[rows[r]].id]]

\* loadDetails: rule i is in the fields, changes in them are gone.
LoadDetails(d, v, i) ==
  IF i \in DOMAIN d.items
  THEN [v EXCEPT !.selected = i, !.fields = d.items[i], !.unapplied = FALSE]
  ELSE [v EXCEPT !.selected = None, !.fields = Blank]

\* selectDocumentIndex: a row that becomes marked loads its rule, one that is
\* marked already does not, and other rows keep their marks.
SelectIndex(d, v, i) ==
  LET rows == {r \in DOMAIN v.rows : v.rows[r].index = i}
  IN IF rows \subseteq v.marked THEN v
     ELSE LoadDetails(d, [v EXCEPT !.marked = @ \cup rows], i)

\* refreshList: new rows under the old marks, then the selected rule again.
Refresh(d, v, lk) ==
  LET rows == Visible(d, lk)
      w == [v EXCEPT !.rows = rows, !.marked = @ \cap DOMAIN rows]
  IN IF v.selected = None THEN w ELSE SelectIndex(d, w, v.selected)

\* Nothing is selected any more and the fields are empty.
Unselect(v) == [v EXCEPT !.selected = None, !.unapplied = FALSE]
Emptied(v) == [v EXCEPT !.fields = Blank]

-----------------------------------------------------------------------------
\* commitDetails.

Uncommitted == view.selected # None /\ view.unapplied

\* The fields name a group that does not exist: it is created.
CreatesGroup == /\ view.fields.group # NoGroup
                /\ view.fields.group \notin GroupIds(draft.groups)

WithFields ==
  [items |-> [draft.items EXCEPT ![view.selected] =
                [view.fields EXCEPT !.id = draft.items[view.selected].id]],
   groups |-> IF CreatesGroup THEN Append(draft.groups, NewGroup(view.fields.group))
              ELSE draft.groups]

CanCommit ==
  Uncommitted => /\ view.selected \in DOMAIN draft.items
                 /\ view.fields.trigger # <<>>
                 /\ Valid(WithFields)

CommittedDraft == IF Uncommitted THEN WithFields ELSE draft
CommittedView == IF Uncommitted THEN [view EXCEPT !.unapplied = FALSE] ELSE view
CommittedLook == IF Uncommitted /\ CreatesGroup THEN [look EXCEPT !.filter = NoGroup] ELSE look

\* The window takes input: no question and no group manager in front of it.
Ready == open /\ box = NoBox /\ ~showing

\* The rules behind the marked rows.
MarkedIndices(v) == {v.rows[r].index : r \in v.marked}

-----------------------------------------------------------------------------
\* showRuleManager, when no window exists; a file that does not load leaves an
\* empty draft.
Open ==
  /\ ~open
  /\ open' = TRUE
  /\ draft' \in Files \cup {EmptyDocument}
  /\ view' = Refresh(draft', NoView, FirstLook)
  /\ look' = FirstLook
  /\ UNCHANGED <<searching, box, pending, gvars>>

\* loadDocument: the draft is given up for the file.
Reload(d) ==
  /\ Ready
  /\ draft' = d
  /\ look' = [look EXCEPT !.filter = NoGroup]
  /\ view' = Emptied(Refresh(d, Unselect(view), look'))
  /\ UNCHANGED <<open, searching, box, pending, gvars>>

EditDetails(e) ==
  /\ Ready
  /\ view.selected # None
  /\ view' = [view EXCEPT !.fields = [e EXCEPT !.id = view.fields.id], !.unapplied = TRUE]
  /\ UNCHANGED <<open, draft, look, searching, box, pending, gvars>>

\* The commit at the head of a command that then leaves the draft alone: test,
\* export, a save or an import that fails or is cancelled.  The list keeps
\* showing what it showed.
CommitOnly ==
  /\ Ready
  /\ Uncommitted /\ CanCommit
  /\ draft' = CommittedDraft
  /\ view' = CommittedView
  /\ look' = CommittedLook
  /\ UNCHANGED <<open, searching, box, pending, gvars>>

\* "Apply to draft": commitDetails with a refresh.
Apply ==
  /\ Ready
  /\ Uncommitted /\ CanCommit
  /\ draft' = CommittedDraft
  /\ look' = CommittedLook
  /\ view' = SelectIndex(draft', Refresh(draft', CommittedView, look'), view.selected)
  /\ UNCHANGED <<open, searching, box, pending, gvars>>

\* saveDocument that succeeds.
Save ==
  /\ Ready
  /\ CanCommit
  /\ Valid(CommittedDraft)
  /\ draft' = CommittedDraft
  /\ look' = CommittedLook
  /\ view' = Refresh(draft', CommittedView, look')
  /\ UNCHANGED <<open, searching, box, pending, gvars>>

-----------------------------------------------------------------------------
\* Rules are added.

Unfiltered(lk) == [lk EXCEPT !.query = NoQuery, !.filter = NoGroup]

\* The base, or the base with the first numeral that no trigger has.
UniqueTrigger(items, base) ==
  LET Free(t) == \A i \in DOMAIN items : items[i].trigger # t
      free == {n \in DOMAIN Numerals : Free(Append(base, Numerals[n]))}
  IN IF Free(base) THEN {base}
     ELSE {Append(base, Numerals[n]) : n \in {n \in free : \A k \in free : n <= k}}

\* makeGuid: an id that no rule ever had.
NewId == FirstId + changes

\* The rule goes to the end of the committed draft and is selected; its row is
\* marked in addition to those that are.
AppendRule(rule) ==
  /\ draft' = [CommittedDraft EXCEPT !.items = Append(@, rule)]
  /\ look' = Unfiltered(look)
  /\ view' = SelectIndex(draft', Refresh(draft', CommittedView, look'), Len(draft'.items))
  /\ UNCHANGED <<open, searching, box, pending, gvars>>

AddRule ==
  /\ Ready
  /\ CanCommit
  /\ \E trigger \in UniqueTrigger(CommittedDraft.items, <<New>>) :
       AppendRule([Blank EXCEPT !.id = NewId, !.trigger = trigger, !.enabled = TRUE])

DuplicateRule ==
  /\ Ready
  /\ view.selected # None
  /\ CanCommit
  /\ \E rule \in {CommittedDraft.items[view.selected]} :
       \E trigger \in UniqueTrigger(CommittedDraft.items, Append(rule.trigger, Copy)) :
         AppendRule([rule EXCEPT !.id = NewId, !.trigger = trigger])

-----------------------------------------------------------------------------
\* Commands on the marked rows.  The rules are looked up before the question is
\* asked; the search timer may refresh the list behind it.

Ask(kind, indices) ==
  box' = [kind |-> kind, indices |-> indices, rules |-> {draft.items[i].id : i \in indices}]

AskDelete ==
  /\ Ready
  /\ MarkedIndices(view) # {}
  /\ Ask("delete", MarkedIndices(view))
  /\ UNCHANGED <<open, draft, view, look, searching, pending, gvars>>

\* MUTANT of Erased: from the first to the last.
ErasedUpwards(items, indices) ==
  LET rest[n \in 0 .. Len(items)] ==
        IF n = 0 THEN items
        ELSE IF n \in indices \cap DOMAIN rest[n - 1] THEN RemoveAt(rest[n - 1], n)
        ELSE rest[n - 1]
  IN rest[Len(items)]

\* Erased from the last to the first, so that the indices stay right.
Erased(items, indices) ==
  LET rest[n \in 0 .. Len(items)] ==
        IF n = 0 THEN items
        ELSE IF Len(items) - n + 1 \in indices THEN RemoveAt(rest[n - 1], Len(items) - n + 1)
        ELSE rest[n - 1]
  IN rest[Len(items)]

\* MUTANT of ConfirmDelete: selectedDocumentIndex_ is not reset.
ConfirmDeleteSelected ==
  /\ box.kind = "delete"
  /\ box' = NoBox
  /\ draft' = [draft EXCEPT !.items = Erased(@, box.indices)]
  /\ view' = Refresh(draft', view, look)
  /\ UNCHANGED <<open, look, searching, pending, gvars>>

\* MUTANT of ConfirmDelete: the list is not refreshed.
ConfirmDeleteUnrefreshed ==
  /\ box.kind = "delete"
  /\ box' = NoBox
  /\ draft' = [draft EXCEPT !.items = Erased(@, box.indices)]
  /\ view' = Emptied(Unselect(view))
  /\ UNCHANGED <<open, look, searching, pending, gvars>>

ConfirmDelete ==
  /\ box.kind = "delete"
  /\ box' = NoBox
  /\ draft' = [draft EXCEPT !.items = Erased(@, box.indices)]
  /\ view' = Emptied(Refresh(draft', Unselect(view), look))
  /\ UNCHANGED <<open, look, searching, pending, gvars>>

AskState ==
  /\ Ready
  /\ CanCommit
  /\ MarkedIndices(view) # {}
  /\ draft' = CommittedDraft
  /\ view' = CommittedView
  /\ look' = CommittedLook
  /\ Ask("state", MarkedIndices(view))
  /\ UNCHANGED <<open, searching, pending, gvars>>

WithState(items, indices, on) ==
  [i \in DOMAIN items |-> IF i \in indices THEN [items[i] EXCEPT !.enabled = on] ELSE items[i]]

SetState(on) ==
  /\ box.kind = "state"
  /\ box' = NoBox
  /\ draft' = [draft EXCEPT !.items = WithState(@, box.indices, on)]
  /\ view' = Refresh(draft', view, look)
  /\ UNCHANGED <<open, look, searching, pending, gvars>>

Cancel ==
  /\ box # NoBox
  /\ box' = NoBox
  /\ UNCHANGED <<open, draft, view, look, searching, pending, gvars>>

-----------------------------------------------------------------------------
\* What the user does to the list.

\* Row r is marked, the other marks stay (with Ctrl) or go.  When the fields have
\* changes and the row is of another rule, they are committed first or the row
\* is not marked; a virtual list need not ask for that, and then they are lost.
MarkRow(r, others) ==
  /\ Ready
  /\ r \notin view.marked
  /\ \/ /\ Uncommitted /\ view.rows[r].index # view.selected /\ CanCommit
        /\ draft' = CommittedDraft
        /\ look' = CommittedLook
     \/ UNCHANGED <<draft, look>>
  /\ view' = LoadDetails(draft', [view EXCEPT !.marked = others \cup {r}], view.rows[r].index)
  /\ UNCHANGED <<open, searching, box, pending, gvars>>

\* Marks change and no rule is loaded: a click beside the rows or on one of
\* several marked rows, Ctrl on a marked row, a range with Shift.
ChangeMarks(marks) ==
  /\ Ready
  /\ view' = [view EXCEPT !.marked = marks]
  /\ UNCHANGED <<open, draft, look, searching, box, pending, gvars>>

MarksWithoutLoading ==
  {{}} \cup {{r} : r \in view.marked} \cup {view.marked \ {r} : r \in view.marked}
       \cup {lo .. hi : lo, hi \in DOMAIN view.rows}

\* A click on a column's header.
Sort(column) ==
  /\ Ready
  /\ look' = IF look.column = column THEN [look EXCEPT !.ascending = ~@]
             ELSE [look EXCEPT !.column = column, !.ascending = TRUE]
  /\ view' = Refresh(draft, view, look')
  /\ UNCHANGED <<open, draft, searching, box, pending, gvars>>

Filter(group) ==
  /\ Ready
  /\ look' = [look EXCEPT !.filter = group]
  /\ view' = Refresh(draft, view, look')
  /\ UNCHANGED <<open, draft, searching, box, pending, gvars>>

\* The list follows when the timer fires.
TypeSearch(query) ==
  /\ Ready
  /\ query # look.query
  /\ look' = [look EXCEPT !.query = query]
  /\ searching' = TRUE
  /\ UNCHANGED <<open, draft, view, box, pending, gvars>>

\* Timers fire behind questions and behind the group manager too.
SearchTimer ==
  /\ searching
  /\ searching' = FALSE
  /\ view' = Refresh(draft, view, look)
  /\ UNCHANGED <<open, draft, look, box, pending, gvars>>

-----------------------------------------------------------------------------
\* importRules, accepted: at the end of the committed draft or in its place.
Import(rules, replace) ==
  /\ Ready
  /\ CanCommit
  /\ \E d \in {[items |-> (IF replace THEN <<>> ELSE CommittedDraft.items) \o
                           [n \in DOMAIN rules |-> [rules[n] EXCEPT !.id = NewId]],
                groups |-> WithGroups(CommittedDraft.groups, rules)]} :
       /\ Valid(d)
       /\ draft' = d
  /\ look' = Unfiltered(look)
  /\ view' = Emptied(Refresh(draft', Unselect(CommittedView), look'))
  /\ UNCHANGED <<open, searching, box, pending, gvars>>

\* manageGroups: the modal window opens on a copy of the committed draft.
ManageGroups ==
  /\ Ready
  /\ CanCommit
  /\ draft' = CommittedDraft
  /\ view' = CommittedView
  /\ look' = CommittedLook
  /\ ShowGroups(draft')
  /\ UNCHANGED <<open, searching, box, pending>>

\* MUTANT of TakeGroups: the group filter is not built anew.
TakeGroupsFiltered ==
  IF changed
  THEN /\ draft' = work
       /\ UNCHANGED look
       /\ \E v \in {Refresh(work, [view EXCEPT !.unapplied = FALSE], look)} :
            view' = IF view.selected # None
                    THEN SelectIndex(work, LoadDetails(work, v, view.selected), view.selected)
                    ELSE Emptied(v)
  ELSE UNCHANGED <<draft, look, view>>

\* The loop of show ends; a changed copy becomes the draft, the list and the
\* fields show it.
TakeGroups ==
  IF changed
  THEN /\ draft' = work
       /\ look' = [look EXCEPT !.filter = NoGroup]
       /\ \E v \in {Refresh(work, [view EXCEPT !.unapplied = FALSE], look')} :
            view' = IF view.selected # None
                    THEN SelectIndex(work, LoadDetails(work, v, view.selected), view.selected)
                    ELSE Emptied(v)
  ELSE UNCHANGED <<draft, look, view>>

ReturnFromGroups ==
  /\ CloseGroups
  /\ TakeGroups
  /\ UNCHANGED <<open, searching, box, pending>>

UseGroups ==
  /\ GroupStep
  /\ UNCHANGED mvars

-----------------------------------------------------------------------------
Destroy ==
  /\ open' = FALSE
  /\ draft' = EmptyDocument
  /\ view' = NoView
  /\ look' = FirstLook
  /\ searching' = FALSE
  /\ box' = NoBox
  /\ pending' = FALSE

\* WM_CLOSE with a draft that was saved or is given up, or when Notepad++ ends.
Close ==
  /\ Ready
  /\ Destroy
  /\ UNCHANGED gvars

\* Notepad++ ends while the group manager is open: it is closed first, and its
\* owner closes once manageGroups has returned.
Shutdown ==
  /\ showing
  /\ CloseGroups
  /\ TakeGroups
  /\ pending' = TRUE
  /\ UNCHANGED <<open, searching, box>>

Step ==
  \/ Open
  \/ \E d \in Files : Reload(d)
  \/ \E e \in Edits : EditDetails(e)
  \/ CommitOnly \/ Apply \/ Save
  \/ AddRule \/ DuplicateRule
  \/ AskDelete \/ ConfirmDelete \/ AskState
  \/ \E on \in BOOLEAN : SetState(on)
  \/ Cancel
  \/ \E r \in DOMAIN view.rows, others \in {{}, view.marked} : MarkRow(r, others)
  \/ \E marks \in MarksWithoutLoading : ChangeMarks(marks)
  \/ \E column \in Columns : Sort(column)
  \/ \E group \in (GroupIds(draft.groups) \cap Filters) \cup {NoGroup} : Filter(group)
  \/ \E query \in Queries \cup {NoQuery} : TypeSearch(query)
  \/ SearchTimer
  \/ \E rules \in Imports, replace \in BOOLEAN : Import(rules, replace)
  \/ ManageGroups \/ ReturnFromGroups \/ UseGroups
  \/ Close \/ Shutdown

\* Loading a file is no change, and the group manager's count when they are applied.
Bounded ==
  /\ \E n \in {IF showing /\ showing' /\ work' # work THEN 1
               ELSE IF showing \/ draft' \in Files \cup {draft, EmptyDocument} THEN 0 ELSE 1} :
       changes' = IF open' THEN changes + n ELSE 0
  /\ changes' <= MaxChanges
  /\ Cardinality({f \in DOMAIN look' : look'[f] # FirstLook[f]}) <= MaxLook

Next == Step /\ Bounded

Spec == Init /\ [][Next]_vars

-----------------------------------------------------------------------------
\* What the fields show is the rule they would be applied to, as the draft has
\* it, but for changes not applied.  The Enabled box is excepted: setSelectedState
\* changes the draft and leaves a box that is shown as it was, see the README.
\* (Deleting, adding, sorting, importing and groups all move or change rules under
\* the index in selectedDocumentIndex_.)
DetailsShowSelected ==
  view.selected # None =>
    /\ view.selected \in DOMAIN draft.items
    /\ view.fields.id = draft.items[view.selected].id
    /\ ~view.unapplied =>
         view.fields = [draft.items[view.selected] EXCEPT !.enabled = view.fields.enabled]

\* A row stands for the rule whose columns it shows, so that a click on it or a
\* command on it reaches that rule, although the rows are computed only now and then.
RowsShowTheirRules ==
  \A r \in DOMAIN view.rows :
    /\ view.rows[r].index \in DOMAIN draft.items
    /\ draft.items[view.rows[r].index].id = view.rows[r].rule

RuleOf(d, id) == CHOOSE i \in DOMAIN d.items : d.items[i].id = id

\* While the draft is not replaced by a file or by imported rules, a rule only
\* goes when it was asked about, and changes only as the fields that were loaded
\* from it say, in its state when it was asked about, or in its group when the
\* group manager returns; a command on marked rows reaches all of them.
\* (deleteSelectedRules, setSelectedState, commitDetails: indices against rules.)
OnlyChosenRulesChange ==
  [][open /\ open' /\ draft' \notin Files /\ (RuleIds(draft) \cap RuleIds(draft') # {} \/ RuleIds(draft') = {}) =>
       LET asked == IF box' = NoBox THEN box.rules ELSE {}
           Same(r, s, Fields) == \A f \in DOMAIN r \ Fields : r[f] = s[f]
       IN /\ box.kind = "delete" /\ draft' # draft => RuleIds(draft') = RuleIds(draft) \ asked
          /\ box.kind # "delete" => RuleIds(draft) \subseteq RuleIds(draft')
          /\ \A id \in RuleIds(draft) \cap RuleIds(draft') :
               LET old == draft.items[RuleOf(draft, id)]
                   new == draft'.items[RuleOf(draft', id)]
               IN \/ new = old
                  \/ Uncommitted /\ view.fields.id = id /\ new = view.fields
                  \/ box.kind = "state" /\ id \in asked /\ Same(old, new, {"enabled"})
                  \/ showing /\ ~showing' /\ Same(old, new, {"group"})
          /\ box.kind = "state" /\ draft' # draft =>
               \E on \in BOOLEAN : \A id \in asked : draft'.items[RuleOf(draft', id)].enabled = on
    ]_vars
=============================================================================
