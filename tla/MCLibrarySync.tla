---------------------------- MODULE MCLibrarySync ----------------------------
EXTENDS LibrarySync, TLC

Symmetry == Permutations(Names)
=============================================================================
