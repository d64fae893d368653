---------------------------- MODULE MCExpansion ----------------------------
(***************************************************************************)
(* Instances of Expansion for TLC: "x" is what triggers are made of, "e"   *)
(* comes out of replacements.                                              *)
(***************************************************************************)
EXTENDS Expansion

MCNumber == "$0" :> 0 @@ "$1" :> 1 @@ "$2" :> 2

Plain(source, on) == [source |-> source, on |-> on, fails |-> FALSE]

\* Three tabstops, out of order; a cursor; a rule that is shorter than its
\* trigger and fires at once; one that fails; and one with a number twice and
\* a cursor that is the last tabstop.
MCRules ==
  (<<"x">> :> Plain(<<"$2", "e", "$0", "$1", "e">>, {"delimiter", "tab"}))
  @@ (<<"x", "x">> :> Plain(<<"e", "|", "e", "e">>, {"delimiter"}))
  @@ (<<"e", "x">> :> Plain(<<"x">>, {"immediate"}))
  @@ (<<"e", "e">> :> [Plain(<<"x">>, {"tab"}) EXCEPT !.fails = TRUE])
  @@ (<<"x", "e">> :> Plain(<<"$1", "|", "e", "$1">>, {"tab"}))

MCDocuments == {<<>>, <<"x", "x", " ", "x", " ", "x">>}
\* One caret; two, in either order, close together and apart; three,
\* whose replacements are within the limit or not; four.
MCSelections ==
  {<<p>> : p \in {0, 2}}
  \cup {<<6, 2>>, <<2, 4>>, <<1, 2>>, <<4, 1, 6>>, <<2, 6, 4>>, <<1, 2, 3, 4>>}

MCForeign == {<<" ">>}
=============================================================================
