----------------------------- MODULE MCRiskGate -----------------------------
EXTENDS RiskGate, TLC
Symmetry == Permutations(Reqs) \cup Permutations(Workers)
=============================================================================
