--------------------------- MODULE MCDataPackage ---------------------------
(***************************************************************************)
(* Instances of DataPackage for TLC.                                       *)
(***************************************************************************)
EXTENDS DataPackage, TLC

\* Others break one of the files or remove the other.
MCOthers == {[config |-> "c1", rules |-> Invalid], [config |-> Missing, rules |-> "r1"]}

Symmetry == Permutations(Process)
=============================================================================
