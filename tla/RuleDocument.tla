---------------------------- MODULE RuleDocument ----------------------------
(***************************************************************************)
(* A document of rules as the manager's windows and an import see it: a    *)
(* list of rules and a list of groups, tied by nothing but the group id    *)
(* that a rule names.                                                      *)
(*                                                                         *)
(* A trigger is a sequence (of words in the windows, of characters in an   *)
(* import).  Valid is coarser than RuleStore: of a rule by itself it asks  *)
(* only for a trigger that is not empty, and it knows neither case nor     *)
(* capture templates, which may begin one another.  The module RuleStore   *)
(* has these.                                                              *)
(***************************************************************************)
EXTENDS Integers, SequencesExt

CONSTANT NoGroup   \* the empty group id

GroupIds(gs) == {gs[g].id : g \in DOMAIN gs}

\* What an import takes for known: ids and display names.
KnownNames(gs) == GroupIds(gs) \cup {gs[g].name : g \in DOMAIN gs}

DistinctGroups(gs) == \A i, j \in DOMAIN gs : gs[i].id = gs[j].id => i = j

\* RuleStore accepts the document, as far as ids, triggers and groups go.
Valid(d) ==
  /\ NoGroup \notin GroupIds(d.groups)
  /\ DistinctGroups(d.groups)
  /\ \A i, j \in DOMAIN d.items :
       /\ d.items[i].trigger # <<>>
       /\ i # j => d.items[i].id # d.items[j].id /\ d.items[i].trigger # d.items[j].trigger
       /\ d.items[i].immediate => ~IsStrictPrefix(d.items[i].trigger, d.items[j].trigger)

\* A group for an id that has none.
NewGroup(id) == [id |-> id, name |-> id, enabled |-> TRUE]

\* ensureImportedGroups: imported rules bring the groups that are not known.
WithGroups(gs, rules) ==
  LET with[n \in 0 .. Len(rules)] ==
        IF n = 0 THEN gs
        ELSE IF rules[n].group \in KnownNames(with[n - 1]) \cup {NoGroup} THEN with[n - 1]
        ELSE Append(with[n - 1], NewGroup(rules[n].group))
  IN with[Len(rules)]
=============================================================================
