----------------------------- MODULE MCExchange -----------------------------
(***************************************************************************)
(* An instance of Exchange for TLC: every short text, some tables, and     *)
(* drafts with separators, quotes and line breaks in every place.          *)
(***************************************************************************)
EXTENDS Exchange

CONSTANT MaxLength   \* bound on the texts that are tried one and all

MCRule(id, trigger, replacement, group) ==
  [id |-> <<id>>, enabled |-> TRUE, trigger |-> trigger, replacement |-> replacement,
   group |-> group, activation |-> <<<<"tab">>>>, languages |-> <<>>, extra |-> <<>>]

MCEmpty == [items |-> <<>>, groups |-> <<>>]

\* Rules that need quotes, an object with quotes, a formula, and an immediate rule.
MCQuoting ==
  [items |->
     <<[MCRule("1", <<"a", Delimiter>>, <<Quote, Cr, Lf, Quote, Quote, Lf, "b">>, <<"g">>)
          EXCEPT !.languages = <<<<"p">>, <<"q", " ", "q">>>>, !.enabled = FALSE,
                 !.extra = <<Quote, "k", Quote>>]>>,
   groups |-> <<[id |-> <<"g">>, name |-> <<"G">>, enabled |-> FALSE]>>]

MCFormula ==
  [items |-> <<MCRule("1", <<"a">>, <<"=", "a">>, <<>>),
               [MCRule("2", <<"b">>, <<Cr>>, <<>>)
                  EXCEPT !.activation = <<<<"immediate">>, <<"space">>>>]>>,
   groups |-> <<>>]

\* A value with a bar and a group with a blank do not survive.
MCLossy ==
  [items |-> <<[MCRule("1", <<"a">>, <<"b">>, <<" ", "g">>)
                  EXCEPT !.languages = <<<<"p", Bar, "q">>>>]>>,
   groups |-> <<>>]

MCDrafts == {MCEmpty, MCQuoting, MCFormula, MCLossy}

MCLower == ("TRIGGER" :> "trigger") @@ ("TRUE" :> "true") @@ ("YES" :> "yes")
MCSupported == {<<"tab">>, <<"space">>, <<"enter">>, Immediate}
MCNumerals == <<"2", "3">>
MCObjects == {<<Quote, "k", Quote>>}
MCNoGroup == <<>>

\* A table of lines, each a sequence of fields of one symbol.
Tabled(lines) ==
  LET Ended(line) ==
        FlattenSeq([n \in DOMAIN line |-> (IF n = 1 THEN <<>> ELSE <<Delimiter>>)
                                           \o (IF line[n] = "" THEN <<>> ELSE <<line[n]>>)]) \o <<Lf>>
  IN FlattenSeq([l \in DOMAIN lines |-> Ended(lines[l])])

MCTables ==
  {Tabled(<<<<"TRIGGER", "replacement">>, <<"x", "y">>, <<"", "">>, <<"z", "y">>>>),
   Tabled(<<<<"trigger", "replacement">>, <<"x", "y">>, <<"z">>>>),
   Tabled(<<<<"trigger", "replacement">>>>),
   Tabled(<<<<"trigger", "TRIGGER", "replacement">>, <<"x", "y", "z">>>>),
   Tabled(<<<<"id", "trigger", "replacement", "group">>,
            <<"1", "x", "y", "G">>, <<"", "z", "y", "h">>, <<"", "w", "y", "h">>>>),
   Tabled(<<<<"id", "trigger", "replacement">>, <<"1", "x", "y">>, <<"1", "z", "y">>>>),
   Tabled(<<<<"trigger", "replacement", "enabled">>, <<"x", "y", "maybe">>>>),
   Tabled(<<<<"trigger", "replacement", "enabled">>, <<"x", "y", "TRUE">>, <<"x", "z", "">>>>),
   Tabled(<<<<"trigger", "replacement", "enabled">>, <<"x", "y", "YES">>, <<"z", "y", "off">>>>)}

MCTexts == UNION {[1 .. n -> {Delimiter, Quote, Cr, Lf, "a"}] : n \in 0 .. MaxLength}

MCSymbol == STRING
=============================================================================
