----------------------------- MODULE MCRuleFile -----------------------------
(***************************************************************************)
(* Instances of RuleFile for TLC: a document as the manager serialises it, *)
(* the same document as a person laid it out, and a file that is not valid.*)
(***************************************************************************)
EXTENDS RuleFile, TLC

MCDocument == {"empty", "a", "b", "a by hand"}
MCDump == [d \in MCDocument |-> IF d = "a by hand" THEN "a" ELSE d]

\* For liveness: one document, edited to itself, and a file that is not valid.
MCOneDump == [d \in {"empty"} |-> d]

Symmetry == Permutations(Process)
=============================================================================
