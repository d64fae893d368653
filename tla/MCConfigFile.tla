---------------------------- MODULE MCConfigFile ----------------------------
(***************************************************************************)
(* Instances of ConfigFile for TLC.                                        *)
(***************************************************************************)
EXTENDS ConfigFile, TLC

\* Other programs repair the file, make it unreadable, invalid or flat, or
\* remove it; or they only ever break or remove it.
Plain == [settings |-> Defaults, valid |-> TRUE, flat |-> FALSE, unknown |-> NoUnknown]
MCForeign ==
  {Missing, NotJson, Plain, [Plain EXCEPT !.valid = FALSE], [Plain EXCEPT !.flat = TRUE]}
MCBroken ==
  {Missing, NotJson, [Plain EXCEPT !.valid = FALSE], [Plain EXCEPT !.valid = FALSE, !.flat = TRUE]}
MCImports == {[Plain EXCEPT !.settings.other = "y", !.unknown = "future"]}
MCNone == {}

Symmetry == Permutations(Process)
=============================================================================
