------------------------------ MODULE MCRuleSet ------------------------------
(* Small instances of RuleSet for TLC. *)
EXTENDS RuleSet, TLC

\* Names and ports are only compared with each other.
Symmetry == Permutations(Names) \cup Permutations(Ports)
==============================================================================
