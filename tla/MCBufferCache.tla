--------------------------- MODULE MCBufferCache ----------------------------
EXTENDS BufferCache, TLC
CONSTANT v0

(* A fresh disk.                                                           *)
MCDisk == [b \in Block |-> v0]
Symmetry == Permutations(Proc) \cup Permutations(Block)
=============================================================================
