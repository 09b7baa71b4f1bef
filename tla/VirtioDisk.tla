----------------------------- MODULE VirtioDisk -----------------------------
(***************************************************************************)
(* The disk driver of kernel/virtio_disk.c with its device: descriptors,   *)
(* the avail and used rings with their wrapping indices, the interrupt     *)
(* handler and the threads that sleep for descriptors and for completion.  *)
(* Every thread of Proc transfers a buffer, and a block, of its own: the   *)
(* buffer cache has one buffer per block and lends it to one thread.       *)
(***************************************************************************)
EXTENDS Integers, FiniteSets

CONSTANTS
    Proc, Value, InitValue, NoProc, Intr,  \* Intr: the interrupt handler
    NUM,      \* descriptors, and entries of a ring
    IDX       \* the indices of the rings count modulo this (2^16 in the code)
ASSUME SizeAssumption == NUM \in Nat \ {0} /\ IDX \in Nat \ {0} /\ IDX % NUM = 0
ASSUME ProcAssumption == NoProc \notin Proc /\ Intr \notin Proc \cup {NoProc}
ASSUME ValueAssumption == InitValue \in Value

Desc == 0 .. NUM - 1
NoDesc == NUM

VARIABLES
    disk, data,                    \* content of each thread's block and buffer
    free, next,                    \* free descriptors; desc[i].next, NoDesc without F_NEXT
    info, status,                  \* info[i].b and info[i].status
    avail, availIdx,               \* the avail ring and avail->idx
    used, usedEnd,                 \* the used ring and used->idx (an entry of a ring
                                   \* that has been read is forgotten, set to 0)
    usedIdx,                       \* disk.used_idx
    taken, working,                \* device: the entries of avail it took; its requests
    irq,                           \* the device's interrupt is pending
    lock,                          \* holder of vdisk_lock: a thread, Intr or NoProc
    pc, op, head, onDisk           \* of each thread; onDisk is b->disk

descVars == <<free, next, info>>
ringVars == <<avail, availIdx, used, usedEnd, usedIdx, taken, working>>
vars == <<disk, data, descVars, status, ringVars, irq, lock, pc, op, head, onDisk>>

TypeOK ==
    /\ disk \in [Proc -> Value] /\ data \in [Proc -> Value]
    /\ free \subseteq Desc /\ next \in [Desc -> Desc \cup {NoDesc}]
    /\ info \in [Desc -> Proc \cup {NoProc}] /\ status \in [Desc -> {0, 255}]
    /\ avail \in [Desc -> Desc] /\ used \in [Desc -> Desc]
    /\ availIdx \in 0 .. IDX - 1 /\ usedEnd \in 0 .. IDX - 1
    /\ usedIdx \in 0 .. IDX - 1 /\ taken \in 0 .. IDX - 1
    /\ working \subseteq Desc
    /\ irq \in 0 .. 1
    /\ lock \in Proc \cup {NoProc, Intr}
    /\ pc \in [Proc -> {"idle", "alloc", "sleep_free", "submit", "sleep_done", "check"}]
    /\ op \in [Proc -> {"read", "write"}]
    /\ head \in [Proc -> Desc \cup {NoDesc}]
    /\ onDisk \in [Proc -> 0 .. 1]

(* virtio_disk_init().                                                     *)
Init ==
    /\ disk = [p \in Proc |-> InitValue] /\ data = [p \in Proc |-> InitValue]
    /\ free = Desc /\ next = [i \in Desc |-> NoDesc]
    /\ info = [i \in Desc |-> NoProc] /\ status = [i \in Desc |-> 0]
    /\ avail = [i \in Desc |-> 0] /\ used = [i \in Desc |-> 0]
    /\ availIdx = 0 /\ usedEnd = 0 /\ usedIdx = 0 /\ taken = 0
    /\ working = {}
    /\ irq = 0 /\ lock = NoProc
    /\ pc = [p \in Proc |-> "idle"] /\ op = [p \in Proc |-> "read"]
    /\ head = [p \in Proc |-> NoDesc] /\ onDisk = [p \in Proc |-> 0]

Go(p, l) == pc' = [pc EXCEPT ![p] = l]
(* Mutant: the indices do not wrap.                                        *)
IncNoWrap(i) == i + 1

Inc(i) == (i + 1) % IDX

-----------------------------------------------------------------------------
(* virtio_disk_rw() is called with the buffer locked, and its content is   *)
(* not the block's: it is new, or left from another block.                 *)
Call(p, o, v) ==
    /\ pc[p] = "idle"
    /\ v # disk[p]
    /\ op' = [op EXCEPT ![p] = o]
    /\ data' = [data EXCEPT ![p] = v]
    /\ Go(p, "alloc")
    /\ UNCHANGED <<disk, descVars, status, ringVars, irq, lock, head, onDisk>>

(* wakeup(&disk.free[0]).                                                  *)
WakeFree(q) == IF pc[q] = "sleep_free" THEN "alloc" ELSE pc[q]

(* The lowest free descriptor that is not in S.                            *)
Lowest(S) == CHOOSE i \in free \ S : \A j \in free \ S : i <= j

(* Mutant: the third descriptor is not marked as used.                     *)
FillTwo(p) ==
    /\ pc[p] = "alloc" /\ lock = NoProc
    /\ Cardinality(free) >= 3
    /\ LET a == Lowest({})
           b == Lowest({a})
           c == Lowest({a, b})
       IN  /\ free' = free \ {a, b}
           /\ next' = [next EXCEPT ![a] = b, ![b] = c, ![c] = NoDesc]
           /\ status' = [status EXCEPT ![a] = 255]
           /\ info' = [info EXCEPT ![a] = p]
           /\ avail' = [avail EXCEPT ![availIdx % NUM] = a]
           /\ head' = [head EXCEPT ![p] = a]
    /\ onDisk' = [onDisk EXCEPT ![p] = 1]
    /\ lock' = p
    /\ Go(p, "submit")
    /\ UNCHANGED <<disk, data, availIdx, used, usedEnd, usedIdx, taken, working, irq, op>>

(* alloc3_desc() succeeds; the descriptors are formatted and the first one *)
(* is put into the avail ring.                                             *)
Fill(p) ==
    /\ pc[p] = "alloc" /\ lock = NoProc
    /\ Cardinality(free) >= 3
    /\ LET a == Lowest({})
           b == Lowest({a})
           c == Lowest({a, b})
       IN  /\ free' = free \ {a, b, c}
           /\ next' = [next EXCEPT ![a] = b, ![b] = c, ![c] = NoDesc]
           /\ status' = [status EXCEPT ![a] = 255]
           /\ info' = [info EXCEPT ![a] = p]
           /\ avail' = [avail EXCEPT ![availIdx % NUM] = a]
           /\ head' = [head EXCEPT ![p] = a]
    /\ onDisk' = [onDisk EXCEPT ![p] = 1]
    /\ lock' = p
    /\ Go(p, "submit")
    /\ UNCHANGED <<disk, data, availIdx, used, usedEnd, usedIdx, taken, working, irq, op>>

(* alloc3_desc() fails.  The descriptors it has got are freed again, and   *)
(* free_desc() wakes the other threads that sleep for descriptors.         *)
AllocFails(p) ==
    /\ pc[p] = "alloc" /\ lock = NoProc
    /\ Cardinality(free) < 3
    /\ pc' = [q \in Proc |-> IF q = p THEN "sleep_free"
                             ELSE IF free # {} THEN WakeFree(q) ELSE pc[q]]
    /\ UNCHANGED <<disk, data, descVars, status, ringVars, irq, lock, op, head, onDisk>>

(* avail->idx is advanced, the device notified.  b->disk is still 1 (only  *)
(* the handler clears it, with the lock), so sleep() releases the lock.    *)
Submit(p) ==
    /\ pc[p] = "submit"
    /\ availIdx' = Inc(availIdx)
    /\ lock' = NoProc
    /\ Go(p, "sleep_done")
    /\ UNCHANGED <<disk, data, descVars, status, avail, used, usedEnd, usedIdx, taken, working,
                   irq, op, head, onDisk>>

(* Woken up for nothing.                                                   *)
SleepAgain(p) ==
    /\ pc[p] = "check" /\ lock = NoProc
    /\ onDisk[p] = 1
    /\ Go(p, "sleep_done")
    /\ UNCHANGED <<disk, data, descVars, status, ringVars, irq, lock, op, head, onDisk>>

Chain(i) == {i, next[i], next[next[i]]}

(* Mutant: "if" instead of "while (b->disk == 1)".                         *)
FinishEarly(p) ==
    /\ pc[p] = "check" /\ lock = NoProc
    /\ info' = [info EXCEPT ![head[p]] = NoProc]
    /\ free' = free \cup Chain(head[p])
    /\ next' = [i \in Desc |-> IF i \in Chain(head[p]) THEN NoDesc ELSE next[i]]
    /\ head' = [head EXCEPT ![p] = NoDesc]
    /\ pc' = [q \in Proc |-> IF q = p THEN "idle" ELSE WakeFree(q)]
    /\ op' = [op EXCEPT ![p] = "read"]
    /\ UNCHANGED <<disk, data, status, ringVars, irq, lock, onDisk>>

(* Mutant: free_desc() does not call wakeup().                             *)
FinishSilent(p) ==
    /\ pc[p] = "check" /\ lock = NoProc
    /\ onDisk[p] = 0
    /\ info' = [info EXCEPT ![head[p]] = NoProc]
    /\ free' = free \cup Chain(head[p])
    /\ next' = [i \in Desc |-> IF i \in Chain(head[p]) THEN NoDesc ELSE next[i]]
    /\ head' = [head EXCEPT ![p] = NoDesc]
    /\ Go(p, "idle")
    /\ op' = [op EXCEPT ![p] = "read"]
    /\ UNCHANGED <<disk, data, status, ringVars, irq, lock, onDisk>>

(* The transfer is done: free_chain() and return.                          *)
Finish(p) ==
    /\ pc[p] = "check" /\ lock = NoProc
    /\ onDisk[p] = 0
    /\ info' = [info EXCEPT ![head[p]] = NoProc]
    /\ free' = free \cup Chain(head[p])
    /\ next' = [i \in Desc |-> IF i \in Chain(head[p]) THEN NoDesc ELSE next[i]]
    /\ head' = [head EXCEPT ![p] = NoDesc]
    /\ pc' = [q \in Proc |-> IF q = p THEN "idle" ELSE WakeFree(q)]
    /\ op' = [op EXCEPT ![p] = "read"]
    /\ UNCHANGED <<disk, data, status, ringVars, irq, lock, onDisk>>

(* kill() makes a sleeping thread runnable.                                *)
Kill(p) ==
    /\ \/ pc[p] = "sleep_done" /\ Go(p, "check")
       \/ pc[p] = "sleep_free" /\ Go(p, "alloc")
    /\ UNCHANGED <<disk, data, descVars, status, ringVars, irq, lock, op, head, onDisk>>

-----------------------------------------------------------------------------
(* virtio_disk_intr(): the interrupt is acknowledged first.                *)
IntrAck ==
    /\ irq = 1 /\ lock = NoProc
    /\ irq' = 0
    /\ lock' = Intr
    /\ UNCHANGED <<disk, data, descVars, status, ringVars, pc, op, head, onDisk>>

(* One entry of the used ring.                                             *)
IntrEntry ==
    /\ lock = Intr /\ usedIdx # usedEnd
    /\ LET b == info[used[usedIdx % NUM]] IN
         /\ onDisk' = [onDisk EXCEPT ![b] = 0]
         /\ pc' = [q \in Proc |-> IF q = b /\ pc[q] = "sleep_done" THEN "check" ELSE pc[q]]
    /\ used' = [used EXCEPT ![usedIdx % NUM] = 0]
    /\ usedIdx' = Inc(usedIdx)
    /\ UNCHANGED <<disk, data, descVars, status, avail, availIdx, usedEnd, taken, working,
                   irq, lock, op, head>>

(* Mutant: "if" instead of the loop over the used ring.                    *)
IntrReturnEarly ==
    /\ lock = Intr
    /\ lock' = NoProc
    /\ UNCHANGED <<disk, data, descVars, status, ringVars, irq, pc, op, head, onDisk>>

IntrReturn ==
    /\ lock = Intr /\ usedIdx = usedEnd
    /\ lock' = NoProc
    /\ UNCHANGED <<disk, data, descVars, status, ringVars, irq, pc, op, head, onDisk>>

-----------------------------------------------------------------------------
(* The device takes the next request from the avail ring.                  *)
DeviceTake ==
    /\ taken # availIdx
    /\ working' = working \cup {avail[taken % NUM]}
    /\ avail' = [avail EXCEPT ![taken % NUM] = 0]
    /\ taken' = Inc(taken)
    /\ UNCHANGED <<disk, data, descVars, status, availIdx, used, usedEnd, usedIdx, irq, lock,
                   pc, op, head, onDisk>>

(* The device finishes one of its requests, in any order: it transfers the *)
(* data of the chain, writes the status and an entry of the used ring, and *)
(* raises its interrupt.                                                   *)
DeviceFinish(i) ==
    /\ i \in working
    /\ LET b == info[i] IN
         \/ op[b] = "read" /\ data' = [data EXCEPT ![b] = disk[b]] /\ UNCHANGED disk
         \/ op[b] = "write" /\ disk' = [disk EXCEPT ![b] = data[b]] /\ UNCHANGED data
    /\ status' = [status EXCEPT ![i] = 0]
    /\ used' = [used EXCEPT ![usedEnd % NUM] = i]
    /\ usedEnd' = Inc(usedEnd)
    /\ working' = working \ {i}
    /\ irq' = 1
    /\ UNCHANGED <<descVars, avail, availIdx, usedIdx, taken, lock, pc, op, head, onDisk>>

Rw(p) == Fill(p) \/ AllocFails(p) \/ Submit(p) \/ SleepAgain(p) \/ Finish(p)
Handler == IntrAck \/ IntrEntry \/ IntrReturn
Device == DeviceTake \/ \E i \in Desc : DeviceFinish(i)

Next ==
    \/ \E p \in Proc : Rw(p) \/ Kill(p) \/ \E o \in {"read", "write"}, v \in Value : Call(p, o, v)
    \/ Handler
    \/ Device

Spec == Init /\ [][Next]_vars

-----------------------------------------------------------------------------
(* virtio_disk_rw() returns after its transfer has taken place, exactly    *)
(* once, whatever the order of completions, the wakeups and the wrapping   *)
(* of the indices.                                                         *)
Req == [p \in Proc |-> IF pc[p] = "idle" THEN "idle"
                       ELSE IF head[p] # NoDesc /\ status[head[p]] = 0 THEN "done"
                       ELSE op[p]]
SD == INSTANCE SyncDisk WITH req <- Req
RefinesSyncDisk == SD!Spec

(* Every descriptor is free or in the chain of one request: free_desc()    *)
(* never meets a descriptor that is free already, and the handler never a  *)
(* completion whose buffer is gone.                                        *)
Busy(p) == head[p] # NoDesc
DescriptorsOwned ==
    /\ \A p \in Proc : Busy(p) =>
          /\ info[head[p]] = p
          /\ Chain(head[p]) \subseteq Desc \ free
          /\ \A q \in Proc \ {p} : Busy(q) => Chain(head[p]) \cap Chain(head[q]) = {}
    /\ \A i \in Desc \ free : \E p \in Proc : Busy(p) /\ i \in Chain(head[p])
    /\ \A i \in working : info[i] # NoProc
    /\ usedIdx # usedEnd => info[used[usedIdx % NUM]] # NoProc

(* A completion is not forgotten: while the used ring has an entry that    *)
(* was not handled, the interrupt is pending or the handler is running,    *)
(* and nobody sleeps for a transfer that was handled.                      *)
NoLostCompletion ==
    /\ usedIdx # usedEnd => irq = 1 \/ lock = Intr
    /\ \A p \in Proc : pc[p] = "sleep_done" => onDisk[p] = 1

(* A thread sleeps for descriptors only while they are too few.            *)
NoLostDescriptors == \A p \in Proc : pc[p] = "sleep_free" => Cardinality(free) < 3
=============================================================================
