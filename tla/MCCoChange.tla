----------------------------- MODULE MCCoChange -----------------------------
EXTENDS CoChange, TLC
Symmetry == Permutations(Files)
=============================================================================
