---------------------------- MODULE MCRuleStore ----------------------------
(***************************************************************************)
(* Instances of RuleStore for TLC.                                         *)
(***************************************************************************)
EXTENDS RuleStore

CONSTANTS a, A, b

MCLower == a :> a @@ A :> a @@ b :> b

MCCode == [n \in 0 .. 9 |-> n] @@ A :> 10 @@ a :> 11 @@ b :> 12

\* A literal rule without case for a delimiter.
Plain(id, trigger) ==
  [id |-> id, enabled |-> TRUE, sound |-> TRUE, trigger |-> trigger, group |-> Nothing,
   caseSensitive |-> FALSE, capture |-> FALSE, activation |-> {"space"}, extensions |-> {},
   languages |-> {}, globs |-> {}, uses |-> {}]

Template(id, trigger) == [Plain(id, trigger) EXCEPT !.capture = TRUE, !.uses = {1}]

MCItem == {
  Plain("l1", <<a, b>>),
  [Plain("l2", <<A, b>>) EXCEPT !.caseSensitive = TRUE, !.activation = {"space", "immediate"}],
  [Plain("l3", <<a, A>>) EXCEPT !.activation = {"immediate"}, !.group = "g"],
  [Plain(Nothing, <<a, b>>) EXCEPT !.caseSensitive = TRUE, !.languages = {"l"}],
  [Plain("l1", <<a, b, b>>) EXCEPT !.globs = {<<a, Star, b>>, <<Star, One, a, Star>>, <<Star, b, Star, a, One>>}],
  [Plain("l6", <<b>>) EXCEPT !.enabled = FALSE, !.extensions = {"e"}],
  [Plain("l9", <<A>>) EXCEPT !.caseSensitive = TRUE, !.activation = {"immediate"}],
  Template("c1", <<A, 1>>),
  [Template("c2", <<1, b>>) EXCEPT !.globs = {<<One, Star, Star>>, <<b, One, a, Star>>}],
  [Template("c3", <<a, 1, b, 2>>) EXCEPT !.caseSensitive = TRUE, !.uses = {1, 2}],
  [Template("c4", <<a, 2>>) EXCEPT !.activation = {"space", "immediate"}, !.uses = {2}],
  Template("c5", <<1, 2>>),
  Template("c6", <<2, b>>),
  [Plain("l7", <<A>>) EXCEPT !.activation = {}],
  [Plain("l8", <<A>>) EXCEPT !.sound = FALSE]}

MCGroupList == {
  <<>>,
  <<[id |-> "g", name |-> Nothing, enabled |-> TRUE], [id |-> "h", name |-> "g", enabled |-> FALSE]>>}

MCText == {<<a>>, <<A, b>>, <<a, b>>, <<a, A>>, <<b>>, <<a, b, b>>, <<A, b, b>>, <<a, a, b, a>>, <<A, b, b, b>>}

MCContext == {
  [extension |-> Nothing, language |-> Nothing, path |-> <<>>],
  [extension |-> "e", language |-> "l", path |-> <<a, b, b>>],
  [extension |-> "f", language |-> "l", path |-> <<b, A, a>>]}
=============================================================================
