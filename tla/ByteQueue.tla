----------------------------- MODULE ByteQueue ------------------------------
(***************************************************************************)
(* What a pipe promises: a bounded queue of bytes with two ends, each      *)
(* closed once, which takes bytes only while the read end is open.         *)
(***************************************************************************)
EXTENDS Naturals, Sequences

CONSTANTS Byte, Size

VARIABLES queue, ropen, wopen

vars == <<queue, ropen, wopen>>

Init == queue = << >> /\ ropen = 1 /\ wopen = 1

Put(c) ==
    /\ ropen = 1 /\ Len(queue) < Size
    /\ queue' = Append(queue, c)
    /\ UNCHANGED <<ropen, wopen>>

Get ==
    /\ queue # << >>
    /\ queue' = Tail(queue)
    /\ UNCHANGED <<ropen, wopen>>

CloseRead == ropen = 1 /\ ropen' = 0 /\ UNCHANGED <<queue, wopen>>
CloseWrite == wopen = 1 /\ wopen' = 0 /\ UNCHANGED <<queue, ropen>>

Next == (\E c \in Byte : Put(c)) \/ Get \/ CloseRead \/ CloseWrite

Spec == Init /\ [][Next]_vars
=============================================================================
