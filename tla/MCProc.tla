------------------------------- MODULE MCProc -------------------------------
EXTENDS Proc, TLC

(* CPUs are interchangeable; slots are not, the table is scanned in order. *)
Symmetry == Permutations(Cpu)
=============================================================================
