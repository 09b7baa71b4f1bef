---------------------------- MODULE BufferCache -----------------------------
(***************************************************************************)
(* The block cache of kernel/bio.c with the sleep locks of its buffers     *)
(* (kernel/sleeplock.c).  A step is a critical section of bcache.lock or   *)
(* of a sleep lock's spin lock, or what a thread does with a buffer it     *)
(* holds.  Proc are the references to buffers that threads can have at a   *)
(* time: a thread that holds two buffers is two members of Proc.           *)
(***************************************************************************)
EXTENDS Integers, FiniteSets

CONSTANTS
    Proc, Block, Value, InitDisk, NoProc, NoBlock,
    NBUF, MaxPins     \* buffers; blocks that the log can pin at a time
ASSUME ProcAssumption == IsFiniteSet(Proc) /\ NoProc \notin Proc
ASSUME BlockAssumption == NoBlock \notin Block
ASSUME DiskAssumption == InitDisk \in [Block -> Value]
ASSUME SizeAssumption == NBUF \in Nat \ {0} /\ MaxPins \in Nat

Buf == 1 .. NBUF

VARIABLES
    disk,                            \* content of the blocks on the disk
    blockno, valid, data, refcnt,    \* fields of the buffers
    lru,                             \* the list from head.next to head.prev
    holder,                          \* the pid of b->lock, NoProc when it is not locked
    pinned,                          \* the blocks the log has pinned
    pc, want, buf                    \* of each thread (buf is 0 when it has none)

bufVars == <<blockno, valid, data>>
vars == <<disk, bufVars, refcnt, lru, holder, pinned, pc, want, buf>>

Referring == {"acquiresleep", "asleep", "locked", "held", "released"}

TypeOK ==
    /\ disk \in [Block -> Value]
    /\ blockno \in [Buf -> Block \cup {NoBlock}]
    /\ valid \in [Buf -> 0 .. 1]
    /\ data \in [Buf -> Value]
    /\ refcnt \in [Buf -> Nat]
    /\ lru \in [Buf -> Buf] /\ \A k, l \in Buf : lru[k] = lru[l] => k = l
    /\ holder \in [Buf -> Proc \cup {NoProc}]
    /\ pinned \subseteq Block
    /\ pc \in [Proc -> Referring \cup {"idle", "panic"}]
    /\ want \in [Proc -> Block \cup {NoBlock}]
    /\ buf \in [Proc -> 0 .. NBUF]

(* binit().                                                                *)
Init ==
    /\ disk = InitDisk
    /\ blockno = [i \in Buf |-> NoBlock]
    /\ valid = [i \in Buf |-> 0]
    /\ \E v \in Value : data = [i \in Buf |-> v]
    /\ refcnt = [i \in Buf |-> 0]
    /\ lru = [k \in Buf |-> NBUF + 1 - k]
    /\ holder = [i \in Buf |-> NoProc]
    /\ pinned = {}
    /\ pc = [p \in Proc |-> "idle"]
    /\ want = [p \in Proc |-> NoBlock]
    /\ buf = [p \in Proc |-> 0]

Go(p, l) == pc' = [pc EXCEPT ![p] = l]

(* bcache.lock can be taken: the thread that panics in bget() keeps it.    *)
BcacheFree == \A p \in Proc : pc[p] # "panic"

-----------------------------------------------------------------------------
(* Mutant: the reference is not taken before bcache.lock is released.      *)
BgetHitUncounted(p, b) ==
    /\ pc[p] = "idle" /\ BcacheFree
    /\ \E i \in Buf :
         /\ blockno[i] = b
         /\ buf' = [buf EXCEPT ![p] = i]
    /\ want' = [want EXCEPT ![p] = b]
    /\ Go(p, "acquiresleep")
    /\ UNCHANGED <<disk, bufVars, refcnt, lru, holder, pinned>>

(* bget(): the block is cached.                                            *)
BgetHit(p, b) ==
    /\ pc[p] = "idle" /\ BcacheFree
    /\ \E i \in Buf :
         /\ blockno[i] = b
         /\ refcnt' = [refcnt EXCEPT ![i] = @ + 1]
         /\ buf' = [buf EXCEPT ![p] = i]
    /\ want' = [want EXCEPT ![p] = b]
    /\ Go(p, "acquiresleep")
    /\ UNCHANGED <<disk, bufVars, lru, holder, pinned>>

(* Mutant: b->valid is not cleared.                                        *)
BgetMissValid(p, b) ==
    /\ pc[p] = "idle" /\ BcacheFree
    /\ \A i \in Buf : blockno[i] # b
    /\ \E k \in Buf :
         /\ refcnt[lru[k]] = 0
         /\ \A l \in k + 1 .. NBUF : refcnt[lru[l]] # 0
         /\ blockno' = [blockno EXCEPT ![lru[k]] = b]
         /\ refcnt' = [refcnt EXCEPT ![lru[k]] = 1]
         /\ buf' = [buf EXCEPT ![p] = lru[k]]
    /\ want' = [want EXCEPT ![p] = b]
    /\ Go(p, "acquiresleep")
    /\ UNCHANGED <<disk, valid, data, lru, holder, pinned>>

(* bget(): it is not; the unused buffer nearest to head.prev is recycled.  *)
BgetMiss(p, b) ==
    /\ pc[p] = "idle" /\ BcacheFree
    /\ \A i \in Buf : blockno[i] # b
    /\ \E k \in Buf :
         /\ refcnt[lru[k]] = 0
         /\ \A l \in k + 1 .. NBUF : refcnt[lru[l]] # 0
         /\ blockno' = [blockno EXCEPT ![lru[k]] = b]
         /\ valid' = [valid EXCEPT ![lru[k]] = 0]
         /\ refcnt' = [refcnt EXCEPT ![lru[k]] = 1]
         /\ buf' = [buf EXCEPT ![p] = lru[k]]
    /\ want' = [want EXCEPT ![p] = b]
    /\ Go(p, "acquiresleep")
    /\ UNCHANGED <<disk, data, lru, holder, pinned>>

(* Mutant: the search ends at the first buffer, head.prev.                 *)
BgetPanicEarly(p, b) ==
    /\ pc[p] = "idle" /\ BcacheFree
    /\ \A i \in Buf : blockno[i] # b
    /\ refcnt[lru[NBUF]] # 0
    /\ Go(p, "panic")
    /\ UNCHANGED <<disk, bufVars, refcnt, lru, holder, pinned, want, buf>>

(* bget(): it is not, and every buffer is in use: panic("bget: no          *)
(* buffers"), with bcache.lock held.                                       *)
BgetPanic(p, b) ==
    /\ pc[p] = "idle" /\ BcacheFree
    /\ \A i \in Buf : blockno[i] # b /\ refcnt[i] # 0
    /\ Go(p, "panic")
    /\ UNCHANGED <<disk, bufVars, refcnt, lru, holder, pinned, want, buf>>

(* acquiresleep(): sleep() while the lock is taken.                        *)
Acquiresleep(p) ==
    /\ pc[p] = "acquiresleep"
    /\ \/ /\ holder[buf[p]] = NoProc
          /\ holder' = [holder EXCEPT ![buf[p]] = p]
          /\ Go(p, "locked")
       \/ /\ holder[buf[p]] # NoProc
          /\ Go(p, "asleep")
          /\ UNCHANGED holder
    /\ UNCHANGED <<disk, bufVars, refcnt, lru, pinned, want, buf>>

(* bread(): after bget(), the disk is read unless the buffer is valid.     *)
Bread(p) ==
    /\ pc[p] = "locked"
    /\ LET i == buf[p] IN
         /\ data' = [data EXCEPT ![i] = IF valid[i] = 1 THEN @ ELSE disk[want[p]]]
         /\ valid' = [valid EXCEPT ![i] = 1]
    /\ Go(p, "held")
    /\ UNCHANGED <<disk, blockno, refcnt, lru, holder, pinned, want, buf>>

-----------------------------------------------------------------------------
(* The thread changes the data of a buffer that it holds.                  *)
Modify(p, v) ==
    /\ pc[p] = "held"
    /\ data' = [data EXCEPT ![buf[p]] = v]
    /\ UNCHANGED <<disk, blockno, valid, refcnt, lru, holder, pinned, pc, want, buf>>

Bwrite(p) ==
    /\ pc[p] = "held"
    /\ disk' = [disk EXCEPT ![want[p]] = data[buf[p]]]
    /\ UNCHANGED <<bufVars, refcnt, lru, holder, pinned, pc, want, buf>>

(* bpin(), from log_write() for a block that is new to the log; log_write()*)
(* keeps within the size of the log.                                       *)
Bpin(p) ==
    /\ pc[p] = "held" /\ BcacheFree
    /\ want[p] \notin pinned
    /\ Cardinality(pinned) < MaxPins
    /\ refcnt' = [refcnt EXCEPT ![buf[p]] = @ + 1]
    /\ pinned' = pinned \cup {want[p]}
    /\ UNCHANGED <<disk, bufVars, lru, holder, pc, want, buf>>

(* bunpin(), from install_trans() for a block of the log.                  *)
Bunpin(p) ==
    /\ pc[p] = "held" /\ BcacheFree
    /\ want[p] \in pinned
    /\ refcnt' = [refcnt EXCEPT ![buf[p]] = @ - 1]
    /\ pinned' = pinned \ {want[p]}
    /\ UNCHANGED <<disk, bufVars, lru, holder, pc, want, buf>>

(* Mutant: releasesleep() does not call wakeup().                          *)
ReleasesleepSilent(p) ==
    /\ pc[p] = "held"
    /\ holder' = [holder EXCEPT ![buf[p]] = NoProc]
    /\ Go(p, "released")
    /\ UNCHANGED <<disk, bufVars, refcnt, lru, pinned, want, buf>>

(* brelse(), first the sleep lock with releasesleep(), whether or not the  *)
(* thread has called bwrite() or log_write() after a change: writei()      *)
(* gives a buffer back as it is when either_copyin() fails half-way.       *)
Releasesleep(p) ==
    /\ pc[p] = "held"
    /\ holder' = [holder EXCEPT ![buf[p]] = NoProc]
    /\ pc' = [q \in Proc |->
                IF q = p THEN "released"
                ELSE IF pc[q] = "asleep" /\ buf[q] = buf[p] THEN "acquiresleep"
                ELSE pc[q]]
    /\ UNCHANGED <<disk, bufVars, refcnt, lru, pinned, want, buf>>

(* Mutant: the buffer is not unlinked from its old place.                  *)
ToFrontTwice(i) == [k \in Buf |-> IF k = 1 THEN i ELSE lru[k - 1]]

(* Buffer i moves to head.next.                                            *)
ToFront(i) ==
    LET at == CHOOSE k \in Buf : lru[k] = i
    IN  [k \in Buf |-> IF k = 1 THEN i ELSE IF k <= at THEN lru[k - 1] ELSE lru[k]]

(* brelse(), then the reference.                                           *)
Brelse(p) ==
    /\ pc[p] = "released" /\ BcacheFree
    /\ refcnt' = [refcnt EXCEPT ![buf[p]] = @ - 1]
    /\ lru' = IF refcnt[buf[p]] = 1 THEN ToFront(buf[p]) ELSE lru
    /\ buf' = [buf EXCEPT ![p] = 0]
    /\ want' = [want EXCEPT ![p] = NoBlock]
    /\ Go(p, "idle")
    /\ UNCHANGED <<disk, bufVars, holder, pinned>>

Next ==
    \E p \in Proc :
        \/ \E b \in Block : BgetHit(p, b) \/ BgetMiss(p, b) \/ BgetPanic(p, b)
        \/ Acquiresleep(p) \/ Bread(p)
        \/ (\E v \in Value : Modify(p, v)) \/ Bwrite(p) \/ Bpin(p) \/ Bunpin(p)
        \/ Releasesleep(p) \/ Brelse(p)

Spec == Init /\ [][Next]_vars

-----------------------------------------------------------------------------
(* A reference for every thread between bget() and the end of brelse() and *)
(* one for the log's pin, and no other: refcnt never keeps a buffer from   *)
(* being recycled nor lets one go that is in use.                          *)
Users(i) == {p \in Proc : pc[p] \in Referring /\ buf[p] = i}
RefCounts ==
    \A i \in Buf : refcnt[i] = Cardinality(Users(i)) + (IF blockno[i] \in pinned THEN 1 ELSE 0)

(* releasesleep() wakes whoever sleeps in acquiresleep(): nobody is asleep *)
(* for a lock that is free.                                                *)
SleepersWoken == \A p \in Proc : pc[p] = "asleep" => holder[buf[p]] # NoProc

(* bget() panics for want of a buffer only while every buffer is really    *)
(* spoken for, by a thread between bget() and brelse() or by a block of    *)
(* the log: however long the system runs, no reference has leaked.         *)
PanicsOnlyWhenFull ==
    \A p \in Proc : pc[p] = "panic" =>
        NBUF <= Cardinality({q \in Proc : pc[q] \in Referring}) + Cardinality(pinned)

(* The cache implements one lockable content per block: threads that ask   *)
(* for a block get the same, current content, one at a time, however       *)
(* buffers are recycled meanwhile, and a change is lost only if it was     *)
(* neither written nor pinned.                                             *)
Cached(b) == {i \in Buf : blockno[i] = b /\ valid[i] = 1}
Content == [b \in Block |-> IF Cached(b) = {} THEN disk[b]
                            ELSE data[CHOOSE i \in Cached(b) : TRUE]]
Holders(b) == {p \in Proc : pc[p] = "held" /\ want[p] = b}
Holder == [b \in Block |-> IF Holders(b) = {} THEN NoProc
                           ELSE CHOOSE p \in Holders(b) : TRUE]
LB == INSTANCE LockedBlocks
        WITH content <- Content, holder <- Holder, saved <- disk, kept <- pinned,
             InitContent <- InitDisk
RefinesLockedBlocks == LB!Spec
=============================================================================
