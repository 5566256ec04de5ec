-------------------------- MODULE MCStrategySession --------------------------
EXTENDS StrategySession, TLC

Symmetry == Permutations(Workers) \cup Permutations(Markets)
=============================================================================
