------------------------------- MODULE MCPipe -------------------------------
EXTENDS Pipe, TLC

Symmetry == Permutations(Proc) \cup Permutations(Byte)
=============================================================================
