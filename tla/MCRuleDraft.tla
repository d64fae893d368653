---------------------------- MODULE MCRuleDraft -----------------------------
(***************************************************************************)
(* An instance of RuleDraft for TLC.                                       *)
(***************************************************************************)
EXTENDS RuleDraft

MCRule(id, trigger, group, immediate) ==
  [id |-> id, trigger |-> trigger, enabled |-> TRUE, group |-> group, immediate |-> immediate]

MCGroup(id, name, enabled) == [id |-> id, name |-> name, enabled |-> enabled]

\* A file in which the second rule's group does not exist; its immediate
\* trigger makes a draft with a copy of it invalid.
MCFiles ==
  {[items |-> <<MCRule(1, <<"b">>, "g", FALSE), MCRule(2, <<"a">>, "h", TRUE)>>,
    groups |-> <<MCGroup("g", "g", TRUE)>>]}

\* A change that sorts a rule elsewhere, may need a group and may be refused.
MCEdits == {MCRule(0, <<"a">>, "h", FALSE)}

MCImports == {<<MCRule(0, <<"b">>, "h", FALSE)>>}

\* Another id, with the name left out, and switched off.
MCGroupEdits == {MCGroup("h", "", FALSE)}

MCWordOrder == <<"Group off", "Missing group", "On", "Rule off", "2", "3", "4", "5", "a", "b", "copy">>
MCWord == {"a", "b", "copy", "2", "3", "4", "5"}
MCNumerals == <<"2", "3", "4", "5">>
=============================================================================
