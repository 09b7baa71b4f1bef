---------------------------- MODULE LockedBlocks ----------------------------
(***************************************************************************)
(* What the buffer cache promises the file system (kernel/bio.c): one      *)
(* content per disk block, which one thread at a time holds, reads and     *)
(* changes between bread() and brelse(), and which falls back to what is   *)
(* on the disk only when nobody holds the block and the log does not keep  *)
(* it.                                                                     *)
(***************************************************************************)
CONSTANTS Proc, Block, Value, NoProc, InitContent

VARIABLES
    content,   \* of each block
    holder,    \* the thread between bread() and brelse(), or NoProc
    saved,     \* what bwrite() has written of each block
    kept       \* the blocks between bpin() and bunpin()

vars == <<content, holder, saved, kept>>

Init ==
    /\ content = InitContent /\ saved = InitContent
    /\ holder = [b \in Block |-> NoProc]
    /\ kept = {}

Take(p, b) ==
    /\ holder[b] = NoProc
    /\ holder' = [holder EXCEPT ![b] = p]
    /\ UNCHANGED <<content, saved, kept>>

Change(p, b, v) ==
    /\ holder[b] = p
    /\ content' = [content EXCEPT ![b] = v]
    /\ UNCHANGED <<holder, saved, kept>>

Save(p, b) ==
    /\ holder[b] = p
    /\ saved' = [saved EXCEPT ![b] = content[b]]
    /\ UNCHANGED <<content, holder, kept>>

Keep(p, b) ==
    /\ holder[b] = p
    /\ kept' \in {kept \cup {b}, kept \ {b}}
    /\ UNCHANGED <<content, holder, saved>>

Give(p, b) ==
    /\ holder[b] = p
    /\ holder' = [holder EXCEPT ![b] = NoProc]
    /\ UNCHANGED <<content, saved, kept>>

(* The buffer of the block is recycled.                                    *)
Lose(b) ==
    /\ holder[b] = NoProc /\ b \notin kept
    /\ content' = [content EXCEPT ![b] = saved[b]]
    /\ UNCHANGED <<holder, saved, kept>>

Next ==
    \E b \in Block :
        \/ Lose(b)
        \/ \E p \in Proc :
              \/ Take(p, b) \/ Save(p, b) \/ Keep(p, b) \/ Give(p, b)
              \/ \E v \in Value : Change(p, b, v)

Spec == Init /\ [][Next]_vars
=============================================================================
