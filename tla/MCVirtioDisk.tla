---------------------------- MODULE MCVirtioDisk ----------------------------
EXTENDS VirtioDisk, TLC

Symmetry == Permutations(Proc)
=============================================================================
