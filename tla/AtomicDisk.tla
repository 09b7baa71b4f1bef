----------------------------- MODULE AtomicDisk -----------------------------
(***************************************************************************)
(* What the logging layer (kernel/log.c) promises the file system: a disk  *)
(* whose contents change only by whole groups of completed operations.     *)
(*                                                                         *)
(*   view     what a read through the buffer cache returns now;            *)
(*   durable  what a machine that loses power now has after its recovery;  *)
(*   active   the operations between begin_op() and end_op().              *)
(***************************************************************************)
CONSTANTS Proc, Block, Value

VARIABLES view, durable, active

vars == <<view, durable, active>>

Init ==
    /\ durable \in [Block -> Value]
    /\ view = durable
    /\ active = {}

Begin(p) ==
    /\ p \notin active
    /\ active' = active \cup {p}
    /\ UNCHANGED <<view, durable>>

Write(p, b, v) ==
    /\ p \in active
    /\ view' = [view EXCEPT ![b] = v]
    /\ UNCHANGED <<durable, active>>

End(p) ==
    /\ p \in active
    /\ active' = active \ {p}
    /\ UNCHANGED <<view, durable>>

(* All the writes of the operations that ended become durable at once, and *)
(* only when no operation is half done.                                    *)
Commit ==
    /\ active = {}
    /\ durable' = view
    /\ UNCHANGED <<view, active>>

Crash ==
    /\ view' = durable
    /\ active' = {}
    /\ UNCHANGED durable

Next ==
    \/ \E p \in Proc : Begin(p) \/ End(p)
    \/ \E p \in Proc, b \in Block, v \in Value : Write(p, b, v)
    \/ Commit
    \/ Crash

Spec == Init /\ [][Next]_vars
=============================================================================
