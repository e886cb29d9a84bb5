--------------------------- MODULE MCAutoStart ---------------------------
EXTENDS AutoStart, TLC

Symmetry == Permutations(Mentions)
=============================================================================
