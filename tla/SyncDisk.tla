------------------------------ MODULE SyncDisk ------------------------------
(***************************************************************************)
(* What virtio_disk_rw() promises: the transfer takes place once, some     *)
(* time between the call and the return.                                   *)
(***************************************************************************)
CONSTANTS Proc, Value, InitValue

VARIABLES
    disk, data,   \* of the block and of the buffer of each thread
    req           \* "idle", the transfer that is asked for, or "done"

vars == <<disk, data, req>>

Init ==
    /\ disk = [p \in Proc |-> InitValue]
    /\ data = [p \in Proc |-> InitValue]
    /\ req = [p \in Proc |-> "idle"]

Call(p, op, v) ==
    /\ req[p] = "idle"
    /\ req' = [req EXCEPT ![p] = op]
    /\ data' = [data EXCEPT ![p] = v]
    /\ UNCHANGED disk

Transfer(p) ==
    \/ /\ req[p] = "read"
       /\ data' = [data EXCEPT ![p] = disk[p]]
       /\ req' = [req EXCEPT ![p] = "done"]
       /\ UNCHANGED disk
    \/ /\ req[p] = "write"
       /\ disk' = [disk EXCEPT ![p] = data[p]]
       /\ req' = [req EXCEPT ![p] = "done"]
       /\ UNCHANGED data

Return(p) ==
    /\ req[p] = "done"
    /\ req' = [req EXCEPT ![p] = "idle"]
    /\ UNCHANGED <<disk, data>>

Next ==
    \E p \in Proc :
        Transfer(p) \/ Return(p) \/ \E op \in {"read", "write"}, v \in Value : Call(p, op, v)

Spec == Init /\ [][Next]_vars
=============================================================================
