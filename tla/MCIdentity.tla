------------------------------ MODULE MCIdentity ------------------------------
EXTENDS Identity, TLC

Symmetry == Permutations(Sessions) \cup Permutations(Hooks) \cup Permutations(Polls)
===============================================================================
