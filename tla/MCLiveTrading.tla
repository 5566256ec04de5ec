---------------------------- MODULE MCLiveTrading ----------------------------
EXTENDS LiveTrading, TLC

Symmetry == Permutations(Workers) \cup Permutations(Symbols)
=============================================================================
