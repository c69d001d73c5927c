------------------------------ MODULE MCEngine ------------------------------
EXTENDS Engine, TLC
Symmetry == Permutations(Vocab)
=============================================================================
