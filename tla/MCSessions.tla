----------------------------- MODULE MCSessions -----------------------------
EXTENDS SessionsInv, TLC
Symmetry == Permutations(Sessions) \cup Permutations(Tokens) \cup Permutations(Workers)
=============================================================================
