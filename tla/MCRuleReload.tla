---------------------------- MODULE MCRuleReload ----------------------------
(***************************************************************************)
(* The instance of RuleReload for TLC; RuleReload.cfg gives all values.    *)
(***************************************************************************)
EXTENDS RuleReload
=============================================================================
