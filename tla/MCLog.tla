------------------------------- MODULE MCLog -------------------------------
(* Log for TLC.  The threads other than the first, the blocks and the      *)
(* contents are interchangeable.                                           *)
EXTENDS Log, TLC

Symmetry ==
    Permutations(Proc \ {InitProc}) \cup Permutations(Block) \cup Permutations(Value)
=============================================================================
