--------------------------- MODULE MCRiskRegister ---------------------------
(* RiskRegister for TLC: risks and request slots are interchangeable.        *)
EXTENDS RiskRegister, TLC

Symmetry == Permutations(Risks) \union Permutations(Calls)
=============================================================================
