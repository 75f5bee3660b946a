---------------------------- MODULE MCRuleRegistry ----------------------------
(* The runs of RuleRegistry.                                               *)
EXTENDS RuleRegistry, TLC

RegistrySymmetry == Permutations(Servers) \cup Permutations(Metrics)
=============================================================================
