------------------------- MODULE BufferCacheProofs --------------------------
(***************************************************************************)
(* Proofs about BufferCache, for any number of threads, buffers, blocks    *)
(* and pins.                                                               *)
(***************************************************************************)
EXTENDS BufferCache, FiniteSetTheorems, TLAPS

Locking == {"locked", "held"}

(* A thread's buffer caches the block that it wants.                       *)
ThreadInv ==
    \A p \in Proc : pc[p] \in Referring =>
        buf[p] \in Buf /\ want[p] \in Block /\ blockno[buf[p]] = want[p]

(* A block has one buffer at most, and one if it is pinned.                *)
UniqueInv == \A i, j \in Buf : blockno[i] = blockno[j] /\ blockno[i] \in Block => i = j
PinInv == \A b \in pinned : \E i \in Buf : blockno[i] = b
PinFinite == IsFiniteSet(pinned)

(* The holder of a sleep lock is the thread between acquiresleep() and     *)
(* releasesleep().                                                         *)
LockInv ==
    /\ \A p \in Proc : pc[p] \in Locking => holder[buf[p]] = p
    /\ \A i \in Buf : holder[i] # NoProc => pc[holder[i]] \in Locking /\ buf[holder[i]] = i

(* Every buffer is in the list.                                            *)
LruInv == \A i \in Buf : \E k \in Buf : lru[k] = i

(* The buffer that a thread has read is valid, and a valid one is a        *)
(* block's.                                                                *)
ValidInv ==
    /\ \A p \in Proc : pc[p] = "held" => valid[buf[p]] = 1
    /\ \A i \in Buf : valid[i] = 1 => blockno[i] \in Block

(* Nobody panics while there is an unused buffer.                          *)
PanicInv == ~ BcacheFree => \A i \in Buf : refcnt[i] # 0

-----------------------------------------------------------------------------
(* refcnt 0 means that no thread refers to the buffer and the log does not *)
(* pin it.                                                                 *)
LEMMA UsersFinite ==
    ASSUME NEW i PROVE IsFiniteSet(Users(i)) /\ Cardinality(Users(i)) \in Nat
<1>1. Users(i) \subseteq Proc
    BY Zenon DEF Users
<1>2. QED
    BY Zenon, <1>1, ProcAssumption, FS_Subset, FS_CardinalityType

LEMMA FreeIsUnused ==
    ASSUME RefCounts, NEW i \in Buf, refcnt[i] = 0
    PROVE  Users(i) = {} /\ blockno[i] \notin pinned
<1>1. Cardinality(Users(i)) = 0 /\ blockno[i] \notin pinned
    BY UsersFinite DEF RefCounts
<1>2. QED
    BY Zenon, <1>1, UsersFinite, FS_EmptySet

(* bget() recycles no buffer that a thread refers to.                      *)
LEMMA ThreadStep ==
    ASSUME TypeOK, RefCounts, ThreadInv, [Next]_vars
    PROVE  ThreadInv'
<1>0. CASE UNCHANGED vars
    BY Zenon, <1>0 DEF vars, bufVars, TypeOK, Referring, ThreadInv
<1>1. ASSUME NEW p \in Proc, NEW b \in Block, BgetHit(p, b) PROVE ThreadInv'
    BY <1>1 DEF BgetHit, Go, bufVars, TypeOK, Referring, ThreadInv
<1>2. ASSUME NEW p \in Proc, NEW b \in Block, BgetMiss(p, b) PROVE ThreadInv'
    <2>1. PICK k \in Buf : /\ refcnt[lru[k]] = 0 /\ blockno' = [blockno EXCEPT ![lru[k]] = b]
                            /\ buf' = [buf EXCEPT ![p] = lru[k]]
        BY Zenon, <1>2 DEF BgetMiss
    <2>2. lru[k] \in Buf
        BY Zenon DEF TypeOK
    <2>3. Users(lru[k]) = {}
        BY Zenon, <2>1, <2>2, FreeIsUnused
    <2>4. \A q \in Proc : pc[q] \in Referring => buf[q] # lru[k]
        BY Zenon, <2>3 DEF Users
    <2>5. QED
        BY <1>2, <2>1, <2>2, <2>4 DEF BgetMiss, Go, TypeOK, ThreadInv, Referring
<1>3. ASSUME NEW p \in Proc, Acquiresleep(p) PROVE ThreadInv'
    BY Zenon, <1>3 DEF Acquiresleep, Go, bufVars, TypeOK, Referring, ThreadInv
<1>4. ASSUME NEW p \in Proc, Bread(p) PROVE ThreadInv'
    BY Zenon, <1>4 DEF Bread, Go, TypeOK, Referring, ThreadInv
<1>5. ASSUME NEW p \in Proc, NEW v \in Value, Modify(p, v) PROVE ThreadInv'
    BY Zenon, <1>5 DEF Modify, TypeOK, Referring, ThreadInv
<1>6. ASSUME NEW p \in Proc, Bwrite(p) PROVE ThreadInv'
    BY Zenon, <1>6 DEF Bwrite, bufVars, TypeOK, Referring, ThreadInv
<1>7. ASSUME NEW p \in Proc, Bpin(p) PROVE ThreadInv'
    BY Zenon, <1>7 DEF Bpin, bufVars, TypeOK, Referring, ThreadInv
<1>8. ASSUME NEW p \in Proc, Bunpin(p) PROVE ThreadInv'
    BY Zenon, <1>8 DEF Bunpin, bufVars, TypeOK, Referring, ThreadInv
<1>9. ASSUME NEW p \in Proc, Releasesleep(p) PROVE ThreadInv'
    BY Zenon, <1>9 DEF Releasesleep, bufVars, TypeOK, Referring, ThreadInv
<1>10. ASSUME NEW p \in Proc, Brelse(p) PROVE ThreadInv'
    BY Zenon, <1>10 DEF Brelse, Go, bufVars, TypeOK, Referring, ThreadInv
<1>11. ASSUME NEW p \in Proc, NEW b \in Block, BgetPanic(p, b) PROVE ThreadInv'
    BY Zenon, <1>11 DEF BgetPanic, Go, bufVars, TypeOK, Referring, ThreadInv
<1>12. QED
    BY Zenon, <1>0, <1>1, <1>2, <1>3, <1>4, <1>5, <1>6, <1>7, <1>8, <1>9, <1>10, <1>11 DEF Next

(* bget() takes a buffer for a block only if no other caches it.           *)
LEMMA UniqueStep ==
    ASSUME TypeOK, UniqueInv, [Next]_vars
    PROVE  UniqueInv'
<1>0. CASE UNCHANGED vars
    BY Zenon, <1>0 DEF vars, bufVars, TypeOK, Referring, UniqueInv
<1>1. ASSUME NEW p \in Proc, NEW b \in Block, BgetHit(p, b) PROVE UniqueInv'
    BY Zenon, <1>1 DEF BgetHit, Go, bufVars, TypeOK, Referring, UniqueInv
<1>2. ASSUME NEW p \in Proc, NEW b \in Block, BgetMiss(p, b) PROVE UniqueInv'
    BY <1>2 DEF BgetMiss, Go, TypeOK, Referring, UniqueInv
<1>3. ASSUME NEW p \in Proc, Acquiresleep(p) PROVE UniqueInv'
    BY Zenon, <1>3 DEF Acquiresleep, Go, bufVars, TypeOK, Referring, UniqueInv
<1>4. ASSUME NEW p \in Proc, Bread(p) PROVE UniqueInv'
    BY Zenon, <1>4 DEF Bread, Go, TypeOK, Referring, UniqueInv
<1>5. ASSUME NEW p \in Proc, NEW v \in Value, Modify(p, v) PROVE UniqueInv'
    BY Zenon, <1>5 DEF Modify, TypeOK, Referring, UniqueInv
<1>6. ASSUME NEW p \in Proc, Bwrite(p) PROVE UniqueInv'
    BY Zenon, <1>6 DEF Bwrite, bufVars, TypeOK, Referring, UniqueInv
<1>7. ASSUME NEW p \in Proc, Bpin(p) PROVE UniqueInv'
    BY Zenon, <1>7 DEF Bpin, bufVars, TypeOK, Referring, UniqueInv
<1>8. ASSUME NEW p \in Proc, Bunpin(p) PROVE UniqueInv'
    BY Zenon, <1>8 DEF Bunpin, bufVars, TypeOK, Referring, UniqueInv
<1>9. ASSUME NEW p \in Proc, Releasesleep(p) PROVE UniqueInv'
    BY Zenon, <1>9 DEF Releasesleep, bufVars, TypeOK, Referring, UniqueInv
<1>10. ASSUME NEW p \in Proc, Brelse(p) PROVE UniqueInv'
    BY Zenon, <1>10 DEF Brelse, Go, bufVars, TypeOK, Referring, UniqueInv
<1>11. ASSUME NEW p \in Proc, NEW b \in Block, BgetPanic(p, b) PROVE UniqueInv'
    BY Zenon, <1>11 DEF BgetPanic, Go, bufVars, TypeOK, Referring, UniqueInv
<1>12. QED
    BY Zenon, <1>0, <1>1, <1>2, <1>3, <1>4, <1>5, <1>6, <1>7, <1>8, <1>9, <1>10, <1>11 DEF Next

(* A pinned block stays in its buffer.                                     *)
LEMMA PinStep ==
    ASSUME TypeOK, RefCounts, ThreadInv, PinInv, [Next]_vars
    PROVE  PinInv'
<1>0. CASE UNCHANGED vars
    BY Zenon, <1>0 DEF vars, bufVars, TypeOK, Referring, PinInv, ThreadInv
<1>1. ASSUME NEW p \in Proc, NEW b \in Block, BgetHit(p, b) PROVE PinInv'
    BY Zenon, <1>1 DEF BgetHit, Go, bufVars, TypeOK, Referring, PinInv, ThreadInv
<1>2. ASSUME NEW p \in Proc, NEW b \in Block, BgetMiss(p, b) PROVE PinInv'
    <2>1. PICK k \in Buf : refcnt[lru[k]] = 0 /\ blockno' = [blockno EXCEPT ![lru[k]] = b]
        BY Zenon, <1>2 DEF BgetMiss
    <2>2. lru[k] \in Buf
        BY Zenon DEF TypeOK
    <2>3. blockno[lru[k]] \notin pinned
        BY Zenon, <2>1, <2>2, FreeIsUnused
    <2>4. pinned' = pinned
        BY Zenon, <1>2 DEF BgetMiss
    <2>5. QED
        BY <2>1, <2>2, <2>3, <2>4 DEF PinInv, TypeOK
<1>3. ASSUME NEW p \in Proc, Acquiresleep(p) PROVE PinInv'
    BY Zenon, <1>3 DEF Acquiresleep, Go, bufVars, TypeOK, Referring, PinInv, ThreadInv
<1>4. ASSUME NEW p \in Proc, Bread(p) PROVE PinInv'
    BY Zenon, <1>4 DEF Bread, Go, TypeOK, Referring, PinInv, ThreadInv
<1>5. ASSUME NEW p \in Proc, NEW v \in Value, Modify(p, v) PROVE PinInv'
    BY Zenon, <1>5 DEF Modify, TypeOK, Referring, PinInv, ThreadInv
<1>6. ASSUME NEW p \in Proc, Bwrite(p) PROVE PinInv'
    BY Zenon, <1>6 DEF Bwrite, bufVars, TypeOK, Referring, PinInv, ThreadInv
<1>7. ASSUME NEW p \in Proc, Bpin(p) PROVE PinInv'
    BY Zenon, <1>7 DEF Bpin, bufVars, TypeOK, Referring, PinInv, ThreadInv
<1>8. ASSUME NEW p \in Proc, Bunpin(p) PROVE PinInv'
    BY Zenon, <1>8 DEF Bunpin, bufVars, TypeOK, Referring, PinInv, ThreadInv
<1>9. ASSUME NEW p \in Proc, Releasesleep(p) PROVE PinInv'
    BY Zenon, <1>9 DEF Releasesleep, bufVars, TypeOK, Referring, PinInv, ThreadInv
<1>10. ASSUME NEW p \in Proc, Brelse(p) PROVE PinInv'
    BY Zenon, <1>10 DEF Brelse, Go, bufVars, TypeOK, Referring, PinInv, ThreadInv
<1>11. ASSUME NEW p \in Proc, NEW b \in Block, BgetPanic(p, b) PROVE PinInv'
    BY Zenon, <1>11 DEF BgetPanic, Go, bufVars, TypeOK, Referring, PinInv, ThreadInv
<1>12. QED
    BY Zenon, <1>0, <1>1, <1>2, <1>3, <1>4, <1>5, <1>6, <1>7, <1>8, <1>9, <1>10, <1>11 DEF Next

(* acquiresleep() takes a free lock only.                                  *)
LEMMA LockStep ==
    ASSUME TypeOK, ThreadInv, LockInv, [Next]_vars
    PROVE  LockInv'
<1>0. CASE UNCHANGED vars
    BY Zenon, <1>0 DEF vars, bufVars, TypeOK, Referring, LockInv, ThreadInv, Locking
<1>1. ASSUME NEW p \in Proc, NEW b \in Block, BgetHit(p, b) PROVE LockInv'
    BY <1>1, BlockAssumption, ProcAssumption DEF BgetHit, Go, bufVars, TypeOK, Referring, LockInv, ThreadInv, Locking
<1>2. ASSUME NEW p \in Proc, NEW b \in Block, BgetMiss(p, b) PROVE LockInv'
    BY <1>2, BlockAssumption, ProcAssumption DEF BgetMiss, Go, TypeOK, Referring, LockInv, ThreadInv, Locking
<1>3. ASSUME NEW p \in Proc, Acquiresleep(p) PROVE LockInv'
    BY <1>3, BlockAssumption, ProcAssumption DEF Acquiresleep, Go, bufVars, TypeOK, Referring, LockInv, ThreadInv, Locking
<1>4. ASSUME NEW p \in Proc, Bread(p) PROVE LockInv'
    BY <1>4, BlockAssumption, ProcAssumption DEF Bread, Go, TypeOK, Referring, LockInv, ThreadInv, Locking
<1>5. ASSUME NEW p \in Proc, NEW v \in Value, Modify(p, v) PROVE LockInv'
    BY Zenon, <1>5, BlockAssumption, ProcAssumption DEF Modify, TypeOK, Referring, LockInv, ThreadInv, Locking
<1>6. ASSUME NEW p \in Proc, Bwrite(p) PROVE LockInv'
    BY Zenon, <1>6, BlockAssumption, ProcAssumption DEF Bwrite, bufVars, TypeOK, Referring, LockInv, ThreadInv, Locking
<1>7. ASSUME NEW p \in Proc, Bpin(p) PROVE LockInv'
    BY Zenon, <1>7, BlockAssumption, ProcAssumption DEF Bpin, bufVars, TypeOK, Referring, LockInv, ThreadInv, Locking
<1>8. ASSUME NEW p \in Proc, Bunpin(p) PROVE LockInv'
    BY Zenon, <1>8, BlockAssumption, ProcAssumption DEF Bunpin, bufVars, TypeOK, Referring, LockInv, ThreadInv, Locking
<1>9. ASSUME NEW p \in Proc, Releasesleep(p) PROVE LockInv'
    BY <1>9, BlockAssumption, ProcAssumption DEF Releasesleep, bufVars, TypeOK, Referring, LockInv, ThreadInv, Locking
<1>10. ASSUME NEW p \in Proc, Brelse(p) PROVE LockInv'
    BY <1>10, BlockAssumption, ProcAssumption DEF Brelse, Go, bufVars, TypeOK, Referring, LockInv, ThreadInv, Locking
<1>11. ASSUME NEW p \in Proc, NEW b \in Block, BgetPanic(p, b) PROVE LockInv'
    BY <1>11, BlockAssumption, ProcAssumption DEF BgetPanic, Go, bufVars, TypeOK, Referring, LockInv, ThreadInv, Locking
<1>12. QED
    BY Zenon, <1>0, <1>1, <1>2, <1>3, <1>4, <1>5, <1>6, <1>7, <1>8, <1>9, <1>10, <1>11 DEF Next

(* releasesleep() wakes everybody who sleeps for the lock.                 *)
LEMMA SleepStep ==
    ASSUME TypeOK, ThreadInv, LockInv, SleepersWoken, [Next]_vars
    PROVE  SleepersWoken'
<1>0. CASE UNCHANGED vars
    BY Zenon, <1>0 DEF vars, bufVars, TypeOK, Referring, SleepersWoken, ThreadInv, LockInv, Locking
<1>1. ASSUME NEW p \in Proc, NEW b \in Block, BgetHit(p, b) PROVE SleepersWoken'
    BY <1>1, BlockAssumption, ProcAssumption DEF BgetHit, Go, bufVars, TypeOK, Referring, SleepersWoken, ThreadInv, LockInv, Locking
<1>2. ASSUME NEW p \in Proc, NEW b \in Block, BgetMiss(p, b) PROVE SleepersWoken'
    BY <1>2, BlockAssumption, ProcAssumption DEF BgetMiss, Go, TypeOK, Referring, SleepersWoken, ThreadInv, LockInv, Locking
<1>3. ASSUME NEW p \in Proc, Acquiresleep(p) PROVE SleepersWoken'
    BY <1>3, BlockAssumption, ProcAssumption DEF Acquiresleep, Go, bufVars, TypeOK, Referring, SleepersWoken, ThreadInv, LockInv, Locking
<1>4. ASSUME NEW p \in Proc, Bread(p) PROVE SleepersWoken'
    BY <1>4, BlockAssumption, ProcAssumption DEF Bread, Go, TypeOK, Referring, SleepersWoken, ThreadInv, LockInv, Locking
<1>5. ASSUME NEW p \in Proc, NEW v \in Value, Modify(p, v) PROVE SleepersWoken'
    BY Zenon, <1>5, BlockAssumption, ProcAssumption DEF Modify, TypeOK, Referring, SleepersWoken, ThreadInv, LockInv, Locking
<1>6. ASSUME NEW p \in Proc, Bwrite(p) PROVE SleepersWoken'
    BY Zenon, <1>6, BlockAssumption, ProcAssumption DEF Bwrite, bufVars, TypeOK, Referring, SleepersWoken, ThreadInv, LockInv, Locking
<1>7. ASSUME NEW p \in Proc, Bpin(p) PROVE SleepersWoken'
    BY Zenon, <1>7, BlockAssumption, ProcAssumption DEF Bpin, bufVars, TypeOK, Referring, SleepersWoken, ThreadInv, LockInv, Locking
<1>8. ASSUME NEW p \in Proc, Bunpin(p) PROVE SleepersWoken'
    BY Zenon, <1>8, BlockAssumption, ProcAssumption DEF Bunpin, bufVars, TypeOK, Referring, SleepersWoken, ThreadInv, LockInv, Locking
<1>9. ASSUME NEW p \in Proc, Releasesleep(p) PROVE SleepersWoken'
    BY Zenon, <1>9, BlockAssumption, ProcAssumption DEF Releasesleep, bufVars, TypeOK, Referring, SleepersWoken, ThreadInv, LockInv, Locking
<1>10. ASSUME NEW p \in Proc, Brelse(p) PROVE SleepersWoken'
    BY <1>10, BlockAssumption, ProcAssumption DEF Brelse, Go, bufVars, TypeOK, Referring, SleepersWoken, ThreadInv, LockInv, Locking
<1>11. ASSUME NEW p \in Proc, NEW b \in Block, BgetPanic(p, b) PROVE SleepersWoken'
    BY <1>11, BlockAssumption, ProcAssumption DEF BgetPanic, Go, bufVars, TypeOK, Referring, SleepersWoken, ThreadInv, LockInv, Locking
<1>12. QED
    BY Zenon, <1>0, <1>1, <1>2, <1>3, <1>4, <1>5, <1>6, <1>7, <1>8, <1>9, <1>10, <1>11 DEF Next

-----------------------------------------------------------------------------
(* Moving a buffer to the front of the list loses and doubles none.        *)
LEMMA ToFrontIsList ==
    ASSUME TypeOK, LruInv, NEW i \in Buf
    PROVE  /\ ToFront(i) \in [Buf -> Buf]
           /\ \A k, l \in Buf : ToFront(i)[k] = ToFront(i)[l] => k = l
           /\ \A j \in Buf : \E k \in Buf : ToFront(i)[k] = j
<1> DEFINE at == CHOOSE k \in Buf : lru[k] = i  f == ToFront(i)
<1>1. at \in Buf /\ lru[at] = i
    BY Zenon DEF LruInv
<1>2. /\ f = [k \in Buf |-> IF k = 1 THEN i ELSE IF k <= at THEN lru[k - 1] ELSE lru[k]]
      /\ f = ToFront(i)
    BY Zenon DEF ToFront
<1> HIDE DEF at, f
<1>3. lru \in [Buf -> Buf] /\ (\A k, l \in Buf : lru[k] = lru[l] => k = l) /\ NBUF \in Nat /\ Buf = 1 .. NBUF
    BY Zenon, SizeAssumption DEF TypeOK, Buf
<1>4. \A k \in Buf : /\ k = 1 => f[k] = i
                     /\ k # 1 /\ k <= at => f[k] = lru[k - 1] /\ k - 1 \in Buf
                     /\ k # 1 /\ k > at => f[k] = lru[k]
    BY <1>1, <1>2, <1>3, SMTT(30)
<1>5. f \in [Buf -> Buf]
    <2>1. ASSUME NEW k \in Buf PROVE f[k] \in Buf
        <3>1. k = 1 \/ (k # 1 /\ k <= at) \/ (k # 1 /\ k > at)
            BY <1>1, <1>3
        <3>2. f[k] = i \/ (k - 1 \in Buf /\ f[k] = lru[k - 1]) \/ f[k] = lru[k]
            BY <1>4, <3>1, Zenon
        <3>3. lru \in [Buf -> Buf]
            BY <1>3, Zenon
        <3>4. QED
            BY <3>2, <3>3, Zenon
    <2>2. f = [k \in Buf |-> f[k]]
        BY <1>2, Zenon
    <2>3. QED
        BY <2>1, <2>2, Zenon
<1>6. ASSUME NEW k \in Buf, NEW l \in Buf, f[k] = f[l] PROVE k = l
    <2> DEFINE g(m) == IF m = 1 THEN at ELSE IF m <= at THEN m - 1 ELSE m
    <2>1. ASSUME NEW m \in Buf PROVE g(m) \in Buf /\ f[m] = lru[g(m)]
        <3>1. CASE m = 1
            BY <1>1, <1>4, <3>1, Zenon
        <3>2. CASE m # 1 /\ m <= at
            BY <1>4, <3>2, Zenon
        <3>3. CASE m # 1 /\ m > at
            <4>1. ~(m <= at)
                BY <1>1, <1>3, <3>3
            <4>2. QED
                BY <1>4, <3>3, <4>1, Zenon
        <3>4. QED
            BY <1>1, <1>3, <3>1, <3>2, <3>3
    <2>2. g(k) \in Buf /\ g(l) \in Buf /\ lru[g(k)] = lru[g(l)]
        BY Zenon, <1>6, <2>1
    <2>3. g(k) = g(l)
        BY Zenon, <1>3, <2>2
    <2>4. QED
        BY <1>1, <1>3, <2>3, SMTT(30)
<1>7. ASSUME NEW j \in Buf PROVE \E k \in Buf : f[k] = j
    <2>1. PICK k \in Buf : lru[k] = j
        BY Zenon DEF LruInv
    <2>2. CASE k = at
        <3>1. 1 \in Buf /\ f[1] = i
            BY <1>4, SizeAssumption DEF Buf
        <3>2. QED
            BY Zenon, <1>1, <2>1, <2>2, <3>1
    <2>3. CASE k < at
        <3>1. k + 1 \in Buf /\ k + 1 # 1 /\ k + 1 <= at /\ (k + 1) - 1 = k
            BY <1>1, <1>3, <2>3
        <3>2. f[k + 1] = lru[k]
            BY Zenon, <1>4, <3>1
        <3>3. QED
            BY Zenon, <2>1, <3>1, <3>2
    <2>4. CASE k > at
        <3>1. k # 1
            BY <1>1, <1>3, <2>4
        <3>2. QED
            BY Zenon, <1>4, <2>1, <2>4, <3>1
    <2>5. QED
        BY <1>1, <1>3, <2>2, <2>3, <2>4
<1>8. QED
    BY Zenon, <1>2, <1>5, <1>6, <1>7

LEMMA LruStep ==
    ASSUME TypeOK, ThreadInv, LruInv, [Next]_vars
    PROVE  /\ LruInv'
           /\ lru' \in [Buf -> Buf] /\ \A k, l \in Buf : lru'[k] = lru'[l] => k = l
<1>1. CASE UNCHANGED lru
    BY Zenon, <1>1 DEF LruInv, TypeOK
<1>2. ASSUME NEW p \in Proc, Brelse(p), lru' = ToFront(buf[p])
      PROVE  /\ LruInv'
             /\ lru' \in [Buf -> Buf] /\ \A k, l \in Buf : lru'[k] = lru'[l] => k = l
    <2>1. buf[p] \in Buf
        BY Zenon, <1>2 DEF Brelse, ThreadInv, Referring
    <2> DEFINE f == ToFront(buf[p])
    <2>2. f \in [Buf -> Buf] /\ (\A k, l \in Buf : f[k] = f[l] => k = l) /\ \A j \in Buf : \E k \in Buf : f[k] = j
        BY <2>1, ToFrontIsList, Zenon
    <2>3. lru' = f
        BY Zenon, <1>2
    <2> HIDE DEF f
    <2>4. QED
        BY <2>2, <2>3, Zenon DEF LruInv, Buf
<1>3. UNCHANGED lru \/ \E p \in Proc : Brelse(p) /\ lru' = ToFront(buf[p])
    BY Zenon DEF Next, vars, BgetHit, BgetMiss, BgetPanic, Acquiresleep, Bread, Modify, Bwrite, Bpin, Bunpin, Releasesleep, Brelse
<1>4. QED
    BY Zenon, <1>1, <1>2, <1>3

(* log_write() pins one block at a time.                                   *)
LEMMA PinFiniteStep ==
    ASSUME PinFinite, [Next]_vars
    PROVE  PinFinite'
<1>1. CASE UNCHANGED pinned
    BY Zenon, <1>1 DEF PinFinite
<1>2. ASSUME NEW p \in Proc, pinned' = pinned \cup {want[p]} PROVE PinFinite'
    BY Zenon, <1>2, FS_AddElement DEF PinFinite
<1>3. ASSUME NEW p \in Proc, pinned' = pinned \ {want[p]} PROVE PinFinite'
    BY Zenon, <1>3, FS_RemoveElement DEF PinFinite
<1>4. UNCHANGED pinned \/ \E p \in Proc : pinned' = pinned \cup {want[p]} \/ pinned' = pinned \ {want[p]}
    BY Zenon DEF Next, vars, BgetHit, BgetMiss, BgetPanic, Acquiresleep, Bread, Modify, Bwrite, Bpin, Bunpin, Releasesleep, Brelse
<1>5. QED
    BY Zenon, <1>1, <1>2, <1>3, <1>4

(* A thread panics in bget() when all buffers are in use, and keeps        *)
(* bcache.lock, so that they stay in use.                                  *)
LEMMA PanicStep ==
    ASSUME TypeOK, PanicInv, [Next]_vars
    PROVE  PanicInv'
<1>1. CASE ~ BcacheFree
    <2>1. refcnt' = refcnt
        BY Zenon, <1>1 DEF Next, vars, BgetHit, BgetMiss, BgetPanic, Acquiresleep, Bread, Modify, Bwrite, Bpin, Bunpin, Releasesleep, Brelse
    <2>2. QED
        BY Zenon, <1>1, <2>1 DEF PanicInv
<1>2. ASSUME NEW p \in Proc, NEW b \in Block, BgetPanic(p, b) PROVE PanicInv'
    BY Zenon, <1>2 DEF BgetPanic, PanicInv
<1>3. ASSUME BcacheFree, \A p \in Proc, b \in Block : ~ BgetPanic(p, b) PROVE BcacheFree'
    <2>1. ASSUME NEW p \in Proc, NEW b \in Block, BgetHit(p, b) \/ BgetMiss(p, b) PROVE BcacheFree'
        BY Zenon, <1>3, <2>1 DEF BgetHit, BgetMiss, Go, TypeOK, BcacheFree
    <2>2. ASSUME NEW p \in Proc, Acquiresleep(p) \/ Bread(p) \/ Brelse(p) PROVE BcacheFree'
        <3>1. Go(p, "locked") \/ Go(p, "asleep") \/ Go(p, "held") \/ Go(p, "idle")
            BY Zenon, <2>2 DEF Acquiresleep, Bread, Brelse
        <3>2. QED
            BY <1>3, <3>1 DEF Go, TypeOK, BcacheFree
    <2>3. ASSUME NEW p \in Proc, Releasesleep(p) PROVE BcacheFree'
        BY Zenon, <1>3, <2>3 DEF Releasesleep, BcacheFree
    <2>4. CASE UNCHANGED pc
        BY Zenon, <1>3, <2>4 DEF BcacheFree
    <2>5. QED
        BY Zenon, <1>3, <2>1, <2>2, <2>3, <2>4 DEF Next, vars, Modify, Bwrite, Bpin, Bunpin
<1>4. QED
    BY Zenon, <1>1, <1>2, <1>3 DEF PanicInv

-----------------------------------------------------------------------------
(* How the users of a buffer change when one thread does.                  *)
LEMMA UsersSame ==
    ASSUME NEW p \in Proc, NEW i,
           \A q \in Proc \ {p} : (pc'[q] \in Referring <=> pc[q] \in Referring) /\ buf'[q] = buf[q],
           (pc'[p] \in Referring /\ buf'[p] = i) <=> (pc[p] \in Referring /\ buf[p] = i)
    PROVE  Users(i)' = Users(i)
    BY Zenon DEF Users

LEMMA UsersAdd ==
    ASSUME NEW p \in Proc, NEW i,
           \A q \in Proc \ {p} : (pc'[q] \in Referring <=> pc[q] \in Referring) /\ buf'[q] = buf[q],
           pc[p] \notin Referring, pc'[p] \in Referring, buf'[p] = i
    PROVE  /\ Users(i)' = Users(i) \cup {p} /\ Cardinality(Users(i)') = Cardinality(Users(i)) + 1
           /\ \A j : j # i => Users(j)' = Users(j)
<1>1. Users(i)' = Users(i) \cup {p} /\ p \notin Users(i)
    BY Zenon DEF Users
<1>2. Cardinality(Users(i) \cup {p}) = Cardinality(Users(i)) + 1
    BY Zenon, <1>1, UsersFinite, FS_AddElement
<1>3. ASSUME NEW j, j # i PROVE Users(j)' = Users(j)
    BY <1>3, Zenon DEF Users
<1>4. QED
    BY <1>1, <1>2, <1>3, Zenon

LEMMA UsersRemove ==
    ASSUME NEW p \in Proc, NEW i,
           \A q \in Proc \ {p} : (pc'[q] \in Referring <=> pc[q] \in Referring) /\ buf'[q] = buf[q],
           pc[p] \in Referring, pc'[p] \notin Referring, buf[p] = i
    PROVE  /\ Users(i)' = Users(i) \ {p} /\ Cardinality(Users(i)') = Cardinality(Users(i)) - 1
           /\ Cardinality(Users(i)) \in Nat \ {0}
           /\ \A j : j # i => Users(j)' = Users(j)
<1>1. Users(i)' = Users(i) \ {p} /\ p \in Users(i)
    BY Zenon DEF Users
<1>2. Cardinality(Users(i) \ {p}) = Cardinality(Users(i)) - 1
    BY Zenon, <1>1, UsersFinite, FS_RemoveElement
<1>3. Cardinality(Users(i)) \in Nat \ {0}
    BY Zenon, <1>1, UsersFinite, FS_EmptySet
<1>4. ASSUME NEW j, j # i PROVE Users(j)' = Users(j)
    BY <1>4, Zenon DEF Users
<1>5. QED
    BY <1>1, <1>2, <1>3, <1>4, Zenon

PinCount(i) == IF blockno[i] \in pinned THEN 1 ELSE 0
RefCount(i) == refcnt[i] = Cardinality(Users(i)) + PinCount(i)

LEMMA RefsSame ==
    ASSUME RefCounts, refcnt' = refcnt, blockno' = blockno, pinned' = pinned,
           \A q \in Proc : (pc'[q] \in Referring <=> pc[q] \in Referring) /\ buf'[q] = buf[q]
    PROVE  RefCounts'
<1>1. \A i : Users(i)' = Users(i)
    BY Zenon DEF Users
<1>2. QED
    BY <1>1, Zenon DEF RefCounts

(* bget(), brelse(), bpin() and bunpin() count what they take and give.    *)
LEMMA RefStep ==
    ASSUME TypeOK, ThreadInv, UniqueInv, PinInv, RefCounts, [Next]_vars
    PROVE  RefCounts'
<1>0. CASE UNCHANGED vars
    BY <1>0, RefsSame, Zenon DEF vars, bufVars
<1>1. ASSUME NEW p \in Proc, NEW b \in Block, BgetHit(p, b) PROVE RefCounts'
    <2>1. PICK i \in Buf : /\ refcnt' = [refcnt EXCEPT ![i] = @ + 1]
                           /\ buf' = [buf EXCEPT ![p] = i]
        BY <1>1, Zenon DEF BgetHit
    <2>2. blockno' = blockno /\ pinned' = pinned
        BY <1>1, Zenon DEF BgetHit, bufVars
    <2>3. /\ \A q \in Proc \ {p} : (pc'[q] \in Referring <=> pc[q] \in Referring) /\ buf'[q] = buf[q]
          /\ pc[p] \notin Referring /\ pc'[p] \in Referring /\ buf'[p] = i
        BY <1>1, <2>1 DEF BgetHit, Go, TypeOK, Referring
    <2>4. Cardinality(Users(i)') = Cardinality(Users(i)) + 1 /\ \A j : j # i => Users(j)' = Users(j)
        BY <2>3, UsersAdd, Zenon
    <2>5. refcnt'[i] = refcnt[i] + 1 /\ \A j \in Buf : j # i => refcnt'[j] = refcnt[j]
        BY <2>1, Zenon DEF TypeOK
    <2>6. ASSUME NEW j \in Buf PROVE RefCount(j)'
        <3>1. CASE j = i
            <4>1. Cardinality(Users(i)) \in Nat
                BY UsersFinite, Zenon
            <4>2. refcnt[i] = Cardinality(Users(i)) + PinCount(i) /\ PinCount(i)' = PinCount(i) /\ PinCount(i) \in 0 .. 1
                BY <2>2 DEF RefCounts, PinCount
            <4>3. QED
                BY <2>4, <2>5, <3>1, <4>1, <4>2 DEF RefCount
        <3>2. CASE j # i
            BY <2>2, <2>4, <2>5, <3>2, Zenon DEF RefCounts, RefCount, PinCount
        <3>3. QED
            BY <3>1, <3>2, Zenon
    <2>7. QED
        BY <2>6, Zenon DEF RefCounts, RefCount, PinCount
<1>2. ASSUME NEW p \in Proc, NEW b \in Block, BgetMiss(p, b) PROVE RefCounts'
    <2>1. PICK i \in Buf : /\ refcnt[i] = 0
                           /\ blockno' = [blockno EXCEPT ![i] = b]
                           /\ refcnt' = [refcnt EXCEPT ![i] = 1]
                           /\ buf' = [buf EXCEPT ![p] = i]
        <3>1. \A k \in Buf : lru[k] \in Buf
            BY Zenon DEF TypeOK
        <3>2. QED
            BY <1>2, <3>1, Zenon DEF BgetMiss
    <2>3. pinned' = pinned /\ b \notin pinned
        BY <1>2, Zenon DEF BgetMiss, PinInv
    <2>4. Users(i) = {} /\ blockno[i] \notin pinned
        BY <2>1, FreeIsUnused, Zenon
    <2>5. /\ \A q \in Proc \ {p} : (pc'[q] \in Referring <=> pc[q] \in Referring) /\ buf'[q] = buf[q]
          /\ pc[p] \notin Referring /\ pc'[p] \in Referring /\ buf'[p] = i
        BY <1>2, <2>1 DEF BgetMiss, Go, TypeOK, Referring
    <2>6. Cardinality(Users(i)') = Cardinality(Users(i)) + 1 /\ \A j : j # i => Users(j)' = Users(j)
        BY <2>5, UsersAdd, Zenon
    <2>7. Cardinality(Users(i)') = 1
        BY <2>4, <2>6, FS_EmptySet
    <2>8. /\ refcnt'[i] = 1 /\ blockno'[i] = b
          /\ \A j \in Buf : j # i => refcnt'[j] = refcnt[j] /\ blockno'[j] = blockno[j]
        BY <2>1, Zenon DEF TypeOK
    <2>9. ASSUME NEW j \in Buf PROVE RefCount(j)'
        <3>1. CASE j = i
            <4>1. PinCount(i)' = 0
                BY <2>3, <2>8, Zenon DEF PinCount
            <4>2. QED
                BY <2>7, <2>8, <3>1, <4>1 DEF RefCount
        <3>2. CASE j # i
            BY <2>3, <2>6, <2>8, <3>2, Zenon DEF RefCounts, RefCount, PinCount
        <3>3. QED
            BY <3>1, <3>2, Zenon
    <2>10. QED
        BY <2>9, Zenon DEF RefCounts, RefCount, PinCount
<1>3. ASSUME NEW p \in Proc, Acquiresleep(p) PROVE RefCounts'
    <2>1. refcnt' = refcnt /\ blockno' = blockno /\ pinned' = pinned
        BY <1>3, Zenon DEF Acquiresleep, Go, bufVars
    <2>2. \A q \in Proc : (pc'[q] \in Referring <=> pc[q] \in Referring) /\ buf'[q] = buf[q]
        BY Zenon, <1>3 DEF TypeOK, Referring, Acquiresleep, Go, bufVars
    <2>3. QED
        BY <2>1, <2>2, RefsSame, Zenon
<1>4. ASSUME NEW p \in Proc, Bread(p) PROVE RefCounts'
    <2>1. refcnt' = refcnt /\ blockno' = blockno /\ pinned' = pinned
        BY <1>4, Zenon DEF Bread, Go
    <2>2. \A q \in Proc : (pc'[q] \in Referring <=> pc[q] \in Referring) /\ buf'[q] = buf[q]
        BY Zenon, <1>4 DEF TypeOK, Referring, Bread, Go
    <2>3. QED
        BY <2>1, <2>2, RefsSame, Zenon
<1>5. ASSUME NEW p \in Proc, NEW v \in Value, Modify(p, v) PROVE RefCounts'
    <2>1. refcnt' = refcnt /\ blockno' = blockno /\ pinned' = pinned
        BY <1>5, Zenon DEF Modify
    <2>2. \A q \in Proc : (pc'[q] \in Referring <=> pc[q] \in Referring) /\ buf'[q] = buf[q]
        BY Zenon, <1>5 DEF TypeOK, Referring, Modify
    <2>3. QED
        BY <2>1, <2>2, RefsSame, Zenon
<1>6. ASSUME NEW p \in Proc, Bwrite(p) PROVE RefCounts'
    <2>1. refcnt' = refcnt /\ blockno' = blockno /\ pinned' = pinned
        BY <1>6, Zenon DEF Bwrite, bufVars
    <2>2. \A q \in Proc : (pc'[q] \in Referring <=> pc[q] \in Referring) /\ buf'[q] = buf[q]
        BY Zenon, <1>6 DEF TypeOK, Referring, Bwrite, bufVars
    <2>3. QED
        BY <2>1, <2>2, RefsSame, Zenon
<1>7. ASSUME NEW p \in Proc, Bpin(p) PROVE RefCounts'
    <2>1. PICK i \in Buf : i = buf[p] /\ want[p] \in Block /\ blockno[i] = want[p]
        BY <1>7, Zenon DEF Bpin, ThreadInv, Referring
    <2>2. /\ refcnt' = [refcnt EXCEPT ![i] = @ + 1] /\ pinned' = pinned \cup {want[p]} /\ want[p] \notin pinned
          /\ blockno' = blockno /\ pc' = pc /\ buf' = buf
        BY <1>7, <2>1, Zenon DEF Bpin, bufVars
    <2>3. \A j : Users(j)' = Users(j)
        BY <2>2, Zenon DEF Users
    <2>4. refcnt'[i] = refcnt[i] + 1 /\ \A j \in Buf : j # i => refcnt'[j] = refcnt[j]
        BY <2>1, <2>2, Zenon DEF TypeOK
    <2>5. \A j \in Buf : j # i => blockno[j] # want[p]
        BY <2>1, Zenon DEF UniqueInv
    <2>6. PinCount(i) = 0 /\ PinCount(i)' = 1
        BY <2>1, <2>2, Zenon DEF PinCount
    <2>7. \A j \in Buf : j # i => PinCount(j)' = PinCount(j)
        BY <2>2, <2>5, Zenon DEF PinCount
    <2>8. ASSUME NEW j \in Buf PROVE RefCount(j)'
        <3>0. RefCount(j)
            BY Zenon DEF RefCounts, RefCount, PinCount
        <3>1. CASE j = i
            <4>1. Cardinality(Users(i)) \in Nat
                BY UsersFinite, Zenon
            <4>2. Cardinality(Users(i)') = Cardinality(Users(i))
                BY <2>3, Zenon
            <4>3. QED
                BY <3>0, <2>4, <2>6, <3>1, <4>1, <4>2 DEF RefCount
        <3>2. CASE j # i
            BY <3>0, <2>3, <2>4, <2>7, <3>2, Zenon DEF RefCount
        <3>3. QED
            BY <3>1, <3>2, Zenon
    <2>9. QED
        BY <2>8, Zenon DEF RefCounts, RefCount, PinCount
<1>8. ASSUME NEW p \in Proc, Bunpin(p) PROVE RefCounts'
    <2>1. PICK i \in Buf : i = buf[p] /\ want[p] \in Block /\ blockno[i] = want[p]
        BY <1>8, Zenon DEF Bunpin, ThreadInv, Referring
    <2>2. /\ refcnt' = [refcnt EXCEPT ![i] = @ - 1] /\ pinned' = pinned \ {want[p]} /\ want[p] \in pinned
          /\ blockno' = blockno /\ pc' = pc /\ buf' = buf
        BY <1>8, <2>1, Zenon DEF Bunpin, bufVars
    <2>3. \A j : Users(j)' = Users(j)
        BY <2>2, Zenon DEF Users
    <2>4. refcnt'[i] = refcnt[i] - 1 /\ \A j \in Buf : j # i => refcnt'[j] = refcnt[j]
        BY <2>1, <2>2, Zenon DEF TypeOK
    <2>5. \A j \in Buf : j # i => blockno[j] # want[p]
        BY <2>1, Zenon DEF UniqueInv
    <2>6. PinCount(i) = 1 /\ PinCount(i)' = 0
        BY <2>1, <2>2, Zenon DEF PinCount
    <2>7. \A j \in Buf : j # i => PinCount(j)' = PinCount(j)
        BY <2>2, <2>5, Zenon DEF PinCount
    <2>8. ASSUME NEW j \in Buf PROVE RefCount(j)'
        <3>0. RefCount(j)
            BY Zenon DEF RefCounts, RefCount, PinCount
        <3>1. CASE j = i
            <4>1. Cardinality(Users(i)) \in Nat
                BY UsersFinite, Zenon
            <4>2. Cardinality(Users(i)') = Cardinality(Users(i))
                BY <2>3, Zenon
            <4>3. QED
                BY <3>0, <2>4, <2>6, <3>1, <4>1, <4>2 DEF RefCount
        <3>2. CASE j # i
            BY <3>0, <2>3, <2>4, <2>7, <3>2, Zenon DEF RefCount
        <3>3. QED
            BY <3>1, <3>2, Zenon
    <2>9. QED
        BY <2>8, Zenon DEF RefCounts, RefCount, PinCount
<1>9. ASSUME NEW p \in Proc, Releasesleep(p) PROVE RefCounts'
    <2>1. refcnt' = refcnt /\ blockno' = blockno /\ pinned' = pinned
        BY <1>9, Zenon DEF Releasesleep, bufVars
    <2>2. \A q \in Proc : (pc'[q] \in Referring <=> pc[q] \in Referring) /\ buf'[q] = buf[q]
        BY Zenon, <1>9 DEF TypeOK, Referring, Releasesleep, bufVars
    <2>3. QED
        BY <2>1, <2>2, RefsSame, Zenon
<1>10. ASSUME NEW p \in Proc, Brelse(p) PROVE RefCounts'
    <2>1. PICK i \in Buf : i = buf[p]
        BY <1>10, Zenon DEF Brelse, ThreadInv, Referring
    <2>2. blockno' = blockno /\ pinned' = pinned /\ refcnt' = [refcnt EXCEPT ![i] = @ - 1]
        BY <1>10, <2>1, Zenon DEF Brelse, bufVars
    <2>3. /\ \A q \in Proc \ {p} : (pc'[q] \in Referring <=> pc[q] \in Referring) /\ buf'[q] = buf[q]
          /\ pc[p] \in Referring /\ pc'[p] \notin Referring
        BY Zenon, <1>10 DEF Brelse, Go, TypeOK, Referring
    <2>4. /\ Cardinality(Users(i)') = Cardinality(Users(i)) - 1 /\ Cardinality(Users(i)) \in Nat
          /\ \A j : j # i => Users(j)' = Users(j)
        BY <2>1, <2>3, UsersRemove, Zenon
    <2>5. refcnt'[i] = refcnt[i] - 1 /\ \A j \in Buf : j # i => refcnt'[j] = refcnt[j]
        BY <2>1, <2>2, Zenon DEF TypeOK
    <2>6. ASSUME NEW j \in Buf PROVE RefCount(j)'
        <3>0. RefCount(j) /\ PinCount(j)' = PinCount(j) /\ PinCount(j) \in 0 .. 1
            BY <2>2 DEF RefCounts, RefCount, PinCount
        <3>1. CASE j = i
            BY <3>0, <2>4, <2>5, <3>1 DEF RefCount
        <3>2. CASE j # i
            BY <3>0, <2>4, <2>5, <3>2, Zenon DEF RefCount
        <3>3. QED
            BY <3>1, <3>2, Zenon
    <2>7. QED
        BY <2>6, Zenon DEF RefCounts, RefCount, PinCount
<1>11. ASSUME NEW p \in Proc, NEW b \in Block, BgetPanic(p, b) PROVE RefCounts'
    <2>1. refcnt' = refcnt /\ blockno' = blockno /\ pinned' = pinned
        BY <1>11, Zenon DEF BgetPanic, bufVars
    <2>2. \A q \in Proc : (pc'[q] \in Referring <=> pc[q] \in Referring) /\ buf'[q] = buf[q]
        BY Zenon, <1>11 DEF TypeOK, Referring, BgetPanic, Go, bufVars
    <2>3. QED
        BY <2>1, <2>2, RefsSame, Zenon
<1>12. QED
    BY Zenon, <1>0, <1>1, <1>2, <1>3, <1>4, <1>5, <1>6, <1>7, <1>8, <1>9, <1>10, <1>11 DEF Next

(* No count becomes negative and no buffer leaves the list.                *)
LEMMA TypeStep ==
    ASSUME TypeOK, ThreadInv, LruInv, RefCounts, [Next]_vars
    PROVE  TypeOK'
<1>0. CASE UNCHANGED vars
    BY Zenon, <1>0 DEF vars, bufVars, TypeOK, Referring
<1>1. ASSUME NEW p \in Proc, NEW b \in Block, BgetHit(p, b) PROVE TypeOK'
    <2>1. PICK i \in Buf : refcnt' = [refcnt EXCEPT ![i] = @ + 1] /\ buf' = [buf EXCEPT ![p] = i]
        BY <1>1, Zenon DEF BgetHit
    <2>2. i \in 0 .. NBUF
        BY SizeAssumption DEF Buf
    <2>3. refcnt' \in [Buf -> Nat]
        BY <2>1 DEF TypeOK
    <2>4. buf' \in [Proc -> 0 .. NBUF]
        BY <2>1, <2>2, Zenon DEF TypeOK
    <2>5. QED
        BY <1>1, <2>3, <2>4, Zenon DEF BgetHit, Go, bufVars, TypeOK, Referring, Buf
<1>2. ASSUME NEW p \in Proc, NEW b \in Block, BgetMiss(p, b) PROVE TypeOK'
    <2>1. PICK i \in Buf : /\ blockno' = [blockno EXCEPT ![i] = b] /\ valid' = [valid EXCEPT ![i] = 0]
                           /\ refcnt' = [refcnt EXCEPT ![i] = 1] /\ buf' = [buf EXCEPT ![p] = i]
        <3>1. \A k \in Buf : lru[k] \in Buf
            BY Zenon DEF TypeOK
        <3>2. QED
            BY <1>2, <3>1, Zenon DEF BgetMiss
    <2>2. i \in 0 .. NBUF
        BY SizeAssumption DEF Buf
    <2>3. blockno' \in [Buf -> Block \cup {NoBlock}] /\ valid' \in [Buf -> 0 .. 1] /\ refcnt' \in [Buf -> Nat]
        BY <2>1 DEF TypeOK
    <2>4. buf' \in [Proc -> 0 .. NBUF]
        BY <2>1, <2>2, Zenon DEF TypeOK
    <2>5. pc' \in [Proc -> Referring \cup {"idle", "panic"}] /\ want' \in [Proc -> Block \cup {NoBlock}]
        BY <1>2, Zenon DEF BgetMiss, Go, TypeOK, Referring
    <2>6. disk' = disk /\ data' = data /\ lru' = lru /\ holder' = holder /\ pinned' = pinned
        BY <1>2, Zenon DEF BgetMiss
    <2>7. QED
        BY <2>3, <2>4, <2>5, <2>6, Zenon DEF TypeOK, Buf
<1>3. ASSUME NEW p \in Proc, Acquiresleep(p) PROVE TypeOK'
    BY <1>3 DEF Acquiresleep, Go, bufVars, TypeOK, Referring
<1>4. ASSUME NEW p \in Proc, Bread(p) PROVE TypeOK'
    <2>1. buf[p] \in Buf /\ want[p] \in Block
        BY <1>4, Zenon DEF Bread, ThreadInv, Referring
    <2>2. data' \in [Buf -> Value]
        <3>1. data' = [data EXCEPT ![buf[p]] = IF valid[buf[p]] = 1 THEN data[buf[p]] ELSE disk[want[p]]]
            BY <1>4, Zenon DEF Bread
        <3>2. (IF valid[buf[p]] = 1 THEN data[buf[p]] ELSE disk[want[p]]) \in Value
            BY <2>1, Zenon DEF TypeOK
        <3>3. QED
            BY <3>1, <3>2, Zenon DEF TypeOK
    <2>3. valid' \in [Buf -> 0 .. 1]
        <3>1. valid' = [valid EXCEPT ![buf[p]] = 1]
            BY <1>4, Zenon DEF Bread
        <3>2. valid \in [Buf -> 0 .. 1]
            BY Zenon DEF TypeOK
        <3>3. 1 \in 0 .. 1
            OBVIOUS
        <3>4. QED
            BY <3>1, <3>2, <3>3, Zenon
    <2>4. QED
        BY <1>4, <2>2, <2>3, Zenon DEF Bread, Go, TypeOK, Referring, Buf
<1>5. ASSUME NEW p \in Proc, NEW v \in Value, Modify(p, v) PROVE TypeOK'
    BY Zenon, <1>5 DEF Modify, TypeOK, Referring
<1>6. ASSUME NEW p \in Proc, Bwrite(p) PROVE TypeOK'
    <2>1. buf[p] \in Buf
        BY <1>6, Zenon DEF Bwrite, ThreadInv, Referring
    <2>2. disk' \in [Block -> Value]
        <3>1. data[buf[p]] \in Value
            BY <2>1, Zenon DEF TypeOK
        <3>2. QED
            BY <1>6, <3>1, Zenon DEF Bwrite, TypeOK
    <2>3. QED
        BY <1>6, <2>2, Zenon DEF Bwrite, bufVars, TypeOK, Buf
<1>7. ASSUME NEW p \in Proc, Bpin(p) PROVE TypeOK'
    <2>1. want[p] \in Block
        BY <1>7, Zenon DEF Bpin, ThreadInv, Referring
    <2>2. pinned' \subseteq Block
        BY <1>7, <2>1, Zenon DEF Bpin, TypeOK
    <2>3. refcnt' \in [Buf -> Nat]
        <3>1. refcnt' = [refcnt EXCEPT ![buf[p]] = @ + 1]
            BY <1>7, Zenon DEF Bpin
        <3>2. refcnt \in [Buf -> Nat]
            BY Zenon DEF TypeOK
        <3>3. \A n \in Nat : n + 1 \in Nat
            OBVIOUS
        <3>4. buf[p] \in Buf
            BY <1>7, Zenon DEF Bpin, ThreadInv, Referring
        <3>5. QED
            BY <3>1, <3>2, <3>3, <3>4, Zenon
    <2>4. QED
        BY <1>7, <2>2, <2>3, Zenon DEF Bpin, bufVars, TypeOK, Buf
<1>8. ASSUME NEW p \in Proc, Bunpin(p) PROVE TypeOK'
    <2>1. buf[p] \in Buf /\ refcnt[buf[p]] - 1 \in Nat
        <3>1. buf[p] \in Buf /\ blockno[buf[p]] \in pinned
            BY <1>8, Zenon DEF Bunpin, ThreadInv, Referring
        <3>2. Cardinality(Users(buf[p])) \in Nat
            BY UsersFinite, Zenon
        <3>3. refcnt[buf[p]] = Cardinality(Users(buf[p])) + 1
            BY <3>1, Zenon DEF RefCounts
        <3>4. QED
            BY <3>1, <3>2, <3>3
    <2>2. refcnt' \in [Buf -> Nat]
        BY Zenon, <1>8, <2>1 DEF Bunpin, TypeOK
    <2>3. QED
        BY Zenon, <1>8, <2>2 DEF Bunpin, bufVars, TypeOK
<1>9. ASSUME NEW p \in Proc, Releasesleep(p) PROVE TypeOK'
    BY Zenon, <1>9 DEF Releasesleep, bufVars, TypeOK, Referring
<1>10. ASSUME NEW p \in Proc, Brelse(p) PROVE TypeOK'
    <2>1. buf[p] \in Buf /\ refcnt[buf[p]] - 1 \in Nat
        <3>1. buf[p] \in Buf /\ p \in Users(buf[p])
            BY <1>10, Zenon DEF Brelse, ThreadInv, Referring, Users
        <3>2. Cardinality(Users(buf[p])) \in Nat /\ Cardinality(Users(buf[p])) # 0
            BY Zenon, <3>1, UsersFinite, FS_EmptySet
        <3>3. refcnt[buf[p]] = Cardinality(Users(buf[p])) + PinCount(buf[p])
            BY <3>1, Zenon DEF RefCounts, PinCount
        <3>4. PinCount(buf[p]) \in 0 .. 1
            BY DEF PinCount
        <3>5. QED
            BY <3>1, <3>2, <3>3, <3>4
    <2>2. refcnt' \in [Buf -> Nat]
        BY Zenon, <1>10, <2>1 DEF Brelse, TypeOK
    <2>3. lru' \in [Buf -> Buf] /\ \A k, l \in Buf : lru'[k] = lru'[l] => k = l
        BY LruStep, Zenon
    <2>4. buf' \in [Proc -> 0 .. NBUF]
        BY <1>10, SizeAssumption DEF Brelse, TypeOK
    <2>5. pc' \in [Proc -> Referring \cup {"idle", "panic"}] /\ want' \in [Proc -> Block \cup {NoBlock}]
        BY <1>10, Zenon DEF Brelse, Go, TypeOK
    <2>6. disk' = disk /\ blockno' = blockno /\ valid' = valid /\ data' = data /\ holder' = holder /\ pinned' = pinned
        BY <1>10, Zenon DEF Brelse, bufVars
    <2>7. QED
        BY <2>2, <2>3, <2>4, <2>5, <2>6, Zenon DEF TypeOK, Buf
<1>11. ASSUME NEW p \in Proc, NEW b \in Block, BgetPanic(p, b) PROVE TypeOK'
    BY Zenon, <1>11 DEF BgetPanic, Go, bufVars, TypeOK, Referring
<1>12. QED
    BY Zenon, <1>0, <1>1, <1>2, <1>3, <1>4, <1>5, <1>6, <1>7, <1>8, <1>9, <1>10, <1>11 DEF Next

(* bread() makes a buffer valid, and only an unused one is recycled.       *)
LEMMA ValidStep ==
    ASSUME TypeOK, ThreadInv, UniqueInv, RefCounts, ValidInv, [Next]_vars
    PROVE  ValidInv'
<1>0. CASE UNCHANGED vars
    BY Zenon, <1>0 DEF vars, bufVars, TypeOK, Referring, ValidInv, ThreadInv, UniqueInv
<1>1. ASSUME NEW p \in Proc, NEW b \in Block, BgetHit(p, b) PROVE ValidInv'
    BY <1>1, BlockAssumption DEF BgetHit, Go, bufVars, TypeOK, Referring, ValidInv, ThreadInv, UniqueInv
<1>2. ASSUME NEW p \in Proc, NEW b \in Block, BgetMiss(p, b) PROVE ValidInv'
    <2>1. PICK i \in Buf : refcnt[i] = 0 /\ blockno' = [blockno EXCEPT ![i] = b] /\ valid' = [valid EXCEPT ![i] = 0]
        <3>1. \A k \in Buf : lru[k] \in Buf
            BY Zenon DEF TypeOK
        <3>2. QED
            BY <1>2, <3>1, Zenon DEF BgetMiss
    <2>2. /\ disk' = disk /\ data' = data /\ pinned' = pinned
          /\ \A q \in Proc : pc'[q] = "held" <=> pc[q] = "held"
          /\ \A q \in Proc : pc[q] = "held" => buf'[q] = buf[q]
        BY Zenon, <1>2 DEF BgetMiss, Go, TypeOK
    <2>3. /\ valid'[i] = 0
          /\ \A j \in Buf : j # i => valid'[j] = valid[j] /\ blockno'[j] = blockno[j]
        BY <2>1, Zenon DEF TypeOK
    <2>4. \A q \in Proc : pc[q] = "held" => buf[q] # i
        <3>1. Users(i) = {}
            BY <2>1, FreeIsUnused, Zenon
        <3>2. QED
            BY <3>1, Zenon DEF Users, Referring
    <2>5. QED
        <3>0. valid'[i] # 1
            BY <2>3
        <3>1. ASSUME NEW q \in Proc, pc'[q] = "held" PROVE valid'[buf'[q]] = 1
            <4>1. pc[q] = "held" /\ buf'[q] = buf[q] /\ buf[q] # i
                BY <2>2, <2>4, <3>1, Zenon
            <4>2. buf[q] \in Buf /\ valid[buf[q]] = 1
                BY <4>1, Zenon DEF ValidInv, ThreadInv, Referring
            <4>3. QED
                BY <2>3, <4>1, <4>2, Zenon
        <3>2. ASSUME NEW j \in Buf, valid'[j] = 1 PROVE j # i /\ blockno'[j] = blockno[j] /\ blockno[j] \in Block
            BY <2>3, <3>0, <3>2, Zenon DEF ValidInv
        <3>3. QED
            BY <3>1, <3>2, Zenon DEF ValidInv, Buf
<1>3. ASSUME NEW p \in Proc, Acquiresleep(p) PROVE ValidInv'
    BY <1>3, BlockAssumption DEF Acquiresleep, Go, bufVars, TypeOK, Referring, ValidInv, ThreadInv, UniqueInv
<1>4. ASSUME NEW p \in Proc, Bread(p) PROVE ValidInv'
    BY <1>4, BlockAssumption DEF Bread, Go, TypeOK, Referring, ValidInv, ThreadInv, UniqueInv
<1>5. ASSUME NEW p \in Proc, NEW v \in Value, Modify(p, v) PROVE ValidInv'
    BY <1>5, BlockAssumption DEF Modify, TypeOK, Referring, ValidInv, ThreadInv, UniqueInv
<1>6. ASSUME NEW p \in Proc, Bwrite(p) PROVE ValidInv'
    BY <1>6, BlockAssumption DEF Bwrite, bufVars, TypeOK, Referring, ValidInv, ThreadInv, UniqueInv
<1>7. ASSUME NEW p \in Proc, Bpin(p) PROVE ValidInv'
    BY Zenon, <1>7, BlockAssumption DEF Bpin, bufVars, TypeOK, Referring, ValidInv, ThreadInv, UniqueInv
<1>8. ASSUME NEW p \in Proc, Bunpin(p) PROVE ValidInv'
    BY <1>8, BlockAssumption DEF Bunpin, bufVars, TypeOK, Referring, ValidInv, ThreadInv, UniqueInv
<1>9. ASSUME NEW p \in Proc, Releasesleep(p) PROVE ValidInv'
    BY <1>9, BlockAssumption DEF Releasesleep, bufVars, TypeOK, Referring, ValidInv, ThreadInv, UniqueInv
<1>10. ASSUME NEW p \in Proc, Brelse(p) PROVE ValidInv'
    BY <1>10, BlockAssumption DEF Brelse, Go, bufVars, TypeOK, Referring, ValidInv, ThreadInv, UniqueInv
<1>11. ASSUME NEW p \in Proc, NEW b \in Block, BgetPanic(p, b) PROVE ValidInv'
    BY Zenon, <1>11 DEF BgetPanic, Go, bufVars, TypeOK, Referring, ValidInv, ThreadInv
<1>12. QED
    BY Zenon, <1>0, <1>1, <1>2, <1>3, <1>4, <1>5, <1>6, <1>7, <1>8, <1>9, <1>10, <1>11 DEF Next

-----------------------------------------------------------------------------
(* The inductive invariant of the cache.                                   *)
CacheInv ==
    /\ TypeOK /\ ThreadInv /\ UniqueInv /\ PinInv /\ PinFinite
    /\ LockInv /\ LruInv /\ ValidInv /\ RefCounts /\ SleepersWoken /\ PanicInv

LEMMA InitCache == Init => CacheInv
<1> SUFFICES ASSUME Init PROVE CacheInv
    BY Zenon
<1>1. /\ lru \in [Buf -> Buf] /\ (\A k, l \in Buf : lru[k] = lru[l] => k = l)
      /\ \A i \in Buf : \E k \in Buf : lru[k] = i
    <2>1. ASSUME NEW k \in Buf PROVE NBUF + 1 - k \in Buf /\ NBUF + 1 - (NBUF + 1 - k) = k
        BY SizeAssumption DEF Buf
    <2>2. lru = [k \in Buf |-> NBUF + 1 - k]
        BY Zenon DEF Init
    <2>3. \A k \in Buf : lru[k] = NBUF + 1 - k
        BY <2>2, Zenon
    <2>4. lru \in [Buf -> Buf]
        BY <2>1, <2>2, Zenon
    <2>5. ASSUME NEW k \in Buf, NEW l \in Buf, lru[k] = lru[l] PROVE k = l
        <3>1. NBUF + 1 - k = NBUF + 1 - l
            BY <2>3, <2>5, Zenon
        <3>2. QED
            BY <3>1, SizeAssumption DEF Buf
    <2>6. ASSUME NEW i \in Buf PROVE \E k \in Buf : lru[k] = i
        <3>1. NBUF + 1 - i \in Buf /\ NBUF + 1 - (NBUF + 1 - i) = i
            BY <2>1, Zenon
        <3>2. lru[NBUF + 1 - i] = NBUF + 1 - (NBUF + 1 - i)
            BY <2>3, <3>1, Zenon
        <3>3. QED
            BY <3>1, <3>2, Zenon
    <2>7. QED
        BY <2>4, <2>5, <2>6, Zenon
<1>2. TypeOK
    <2>1. data \in [Buf -> Value] /\ disk \in [Block -> Value]
        BY DiskAssumption, Zenon DEF Init
    <2>2. valid \in [Buf -> 0 .. 1] /\ refcnt \in [Buf -> Nat] /\ buf \in [Proc -> 0 .. NBUF]
        BY SizeAssumption DEF Init
    <2>3. blockno \in [Buf -> Block \cup {NoBlock}] /\ holder \in [Buf -> Proc \cup {NoProc}]
        BY Zenon DEF Init
    <2>4. pc \in [Proc -> Referring \cup {"idle", "panic"}] /\ want \in [Proc -> Block \cup {NoBlock}]
        BY Zenon DEF Init
    <2>5. pinned \subseteq Block
        BY Zenon DEF Init
    <2>6. QED
        BY <1>1, <2>1, <2>2, <2>3, <2>4, <2>5, Zenon DEF TypeOK
<1>3. \A p \in Proc : pc[p] \notin Referring
    BY Zenon DEF Init, Referring
<1>4. ThreadInv /\ SleepersWoken
    BY <1>3, Zenon DEF ThreadInv, SleepersWoken, Referring
<1>5. UniqueInv /\ PinInv
    BY BlockAssumption, Zenon DEF Init, UniqueInv, PinInv
<1>6. PinFinite /\ PanicInv
    BY <1>3, FS_EmptySet, Zenon DEF Init, PinFinite, PanicInv, BcacheFree
<1>7. LockInv
    BY <1>3, Zenon DEF Init, LockInv, Locking, Referring
<1>8. ValidInv
    BY <1>3 DEF Init, ValidInv, Referring
<1>9. RefCounts
    <2>1. \A i : Users(i) = {}
        BY <1>3, Zenon DEF Users
    <2>2. QED
        BY <2>1, FS_EmptySet DEF Init, RefCounts
<1>10. QED
    BY <1>1, <1>2, <1>4, <1>5, <1>6, <1>7, <1>8, <1>9, Zenon DEF CacheInv, LruInv

LEMMA CacheAlways == Spec => []CacheInv
<1>1. CacheInv /\ [Next]_vars => CacheInv'
    BY Zenon, TypeStep, ThreadStep, UniqueStep, PinStep, PinFiniteStep, LockStep, LruStep, ValidStep, RefStep, SleepStep, PanicStep
       DEF CacheInv
<1>2. QED
    BY <1>1, InitCache, PTL DEF Spec

(* The types hold for ever: refcnt is never decremented below 0 and the    *)
(* list of brelse() stays a permutation of the buffers.                    *)
THEOREM TypeCorrect == Spec => []TypeOK
<1>1. CacheInv => TypeOK
    BY Zenon DEF CacheInv
<1>2. QED
    BY <1>1, CacheAlways, PTL

(* b->refcnt counts the threads between bget() and brelse() and the pin of *)
(* the log.                                                                *)
THEOREM ReferencesCounted == Spec => []RefCounts
<1>1. CacheInv => RefCounts
    BY Zenon DEF CacheInv
<1>2. QED
    BY <1>1, CacheAlways, PTL

(* Nobody sleeps in acquiresleep() for a lock that is free.                *)
THEOREM SleepLocksWake == Spec => []SleepersWoken
<1>1. CacheInv => SleepersWoken
    BY Zenon DEF CacheInv
<1>2. QED
    BY <1>1, CacheAlways, PTL

(* The panic "bget: no buffers" is reached only with as many references of *)
(* threads and pins of the log as there are buffers: the buffers, all in   *)
(* use, map one to one into the threads that refer to one and into the     *)
(* pinned blocks.                                                          *)
THEOREM PanicOnlyFull == Spec => []PanicsOnlyWhenFull
<1>1. CacheInv => PanicsOnlyWhenFull
    <2> SUFFICES ASSUME CacheInv, NEW p \in Proc, pc[p] = "panic"
                 PROVE  NBUF <= Cardinality({q \in Proc : pc[q] \in Referring}) + Cardinality(pinned)
        BY Zenon DEF PanicsOnlyWhenFull
    <2>0. \A i \in Buf : refcnt[i] # 0
        BY Zenon DEF CacheInv, PanicInv, BcacheFree
    <2> DEFINE used == {i \in Buf : Users(i) # {}}  pins == {i \in Buf : blockno[i] \in pinned}
               others == {q \in Proc : pc[q] \in Referring}
    <2>1. Buf = used \cup pins
        <3>1. ASSUME NEW i \in Buf, Users(i) = {}, blockno[i] \notin pinned PROVE FALSE
            <4>1. refcnt[i] = Cardinality(Users(i)) + 0
                BY <3>1, Zenon DEF CacheInv, RefCounts
            <4>2. QED
                BY <2>0, <3>1, <4>1, FS_EmptySet
        <3>2. QED
            BY <3>1, Zenon
    <2>2. IsFiniteSet(others) /\ Cardinality(others) \in Nat
        BY Zenon, ProcAssumption, FS_Subset, FS_CardinalityType
    <2>3. IsFiniteSet(used) /\ Cardinality(used) <= Cardinality(others)
        <3> DEFINE f == [i \in used |-> CHOOSE q \in Proc : q \in Users(i)]
        <3>1. ASSUME NEW i \in used PROVE f[i] \in others /\ buf[f[i]] = i
            <4>1. \E q \in Proc : q \in Users(i)
                BY Zenon DEF Users
            <4>2. f[i] \in Proc /\ f[i] \in Users(i)
                BY <4>1, Zenon
            <4>3. pc[f[i]] \in Referring /\ buf[f[i]] = i
                BY <4>2, Zenon DEF Users
            <4>4. QED
                BY <4>2, <4>3, Zenon
        <3>2. f \in [used -> others]
            BY <3>1, Zenon
        <3>3. \A i, j \in used : f[i] = f[j] => i = j
            BY <3>1, Zenon
        <3> HIDE DEF f, used, others
        <3>4. f \in Injection(used, others)
            BY <3>2, <3>3, Zenon DEF Injection, IsInjective
        <3>5. QED
            BY <2>2, <3>4, FS_Injection, Zenon
    <2>4. IsFiniteSet(pins) /\ Cardinality(pins) <= Cardinality(pinned)
        <3> DEFINE g == [i \in pins |-> blockno[i]]
        <3>1. g \in [pins -> pinned]
            BY Zenon
        <3>2. \A i, j \in pins : g[i] = g[j] => i = j
            BY Zenon DEF CacheInv, UniqueInv, TypeOK
        <3> HIDE DEF g, pins
        <3>3. g \in Injection(pins, pinned)
            BY <3>1, <3>2, Zenon DEF Injection, IsInjective
        <3>4. QED
            BY <3>3, FS_Injection, Zenon DEF CacheInv, PinFinite
    <2> HIDE DEF used, pins, others
    <2>5. Cardinality(Buf) = NBUF
        BY FS_Interval, SizeAssumption DEF Buf
    <2>6. Cardinality(used \cup pins) <= Cardinality(used) + Cardinality(pins)
        <3>1. IsFiniteSet(used \cap pins)
            BY <2>3, FS_Intersection, Zenon
        <3>2. Cardinality(used \cap pins) \in Nat /\ Cardinality(used) \in Nat /\ Cardinality(pins) \in Nat
            BY <2>3, <2>4, <3>1, FS_CardinalityType, Zenon
        <3>3. Cardinality(used \cup pins) = Cardinality(used) + Cardinality(pins) - Cardinality(used \cap pins)
            BY <2>3, <2>4, FS_Union, Zenon
        <3>4. QED
            BY <3>2, <3>3
    <2>7. /\ Cardinality(used) \in Nat /\ Cardinality(pins) \in Nat /\ Cardinality(pinned) \in Nat
        BY <2>3, <2>4, FS_CardinalityType, Zenon DEF CacheInv, PinFinite
    <2>8. NBUF <= Cardinality(used) + Cardinality(pins)
        BY <2>1, <2>5, <2>6, Zenon
    <2>9. NBUF <= Cardinality(others) + Cardinality(pinned)
        BY <2>2, <2>3, <2>4, <2>7, <2>8, SizeAssumption
    <2>10. QED
        BY <2>9, Zenon DEF others
<1>2. QED
    BY <1>1, CacheAlways, PTL

-----------------------------------------------------------------------------
(* Refinement: what the cache holds for a block and who has it.            *)

(* Of two threads with the same block only one is past acquiresleep().     *)
LEMMA OneHolder ==
    ASSUME CacheInv, NEW p \in Proc, NEW q \in Proc, pc[p] \in Locking, pc[q] \in Locking, want[p] = want[q]
    PROVE  p = q
<1>1. buf[p] \in Buf /\ buf[q] \in Buf /\ blockno[buf[p]] = want[p] /\ blockno[buf[q]] = want[p] /\ want[p] \in Block
    BY Zenon DEF CacheInv, ThreadInv, Locking, Referring
<1>2. buf[p] = buf[q]
    BY <1>1, Zenon DEF CacheInv, UniqueInv
<1>3. holder[buf[p]] = p /\ holder[buf[q]] = q
    BY Zenon DEF CacheInv, LockInv
<1>4. QED
    BY <1>2, <1>3, Zenon

(* Pointwise equality is equality.                                         *)
LEMMA ContentForm == Content = [b \in Block |-> Content[b]] /\ Content' = [b \in Block |-> Content'[b]]
<1>1. Content = [b \in Block |-> Content[b]]
    BY SMTT(30) DEF Content
<1>2. Content' = [b \in Block |-> Content'[b]]
    BY SMTT(30) DEF Content
<1>3. QED
    BY <1>1, <1>2, Zenon

LEMMA SameContent ==
    ASSUME \A b \in Block : Content'[b] = Content[b] PROVE Content' = Content
    BY ContentForm, Zenon

LEMMA HolderForm == Holder = [b \in Block |-> Holder[b]] /\ Holder' = [b \in Block |-> Holder'[b]]
<1>1. Holder = [b \in Block |-> Holder[b]]
    BY DEF Holder
<1>2. Holder' = [b \in Block |-> Holder'[b]]
    BY DEF Holder
<1>3. QED
    BY <1>1, <1>2, Zenon

LEMMA HolderFrame ==
    ASSUME NEW b \in Block,
           \A q \in Proc : (pc'[q] = "held" /\ want'[q] = b) <=> (pc[q] = "held" /\ want[q] = b)
    PROVE  Holder'[b] = Holder[b]
<1>1. {q \in Proc : pc'[q] = "held" /\ want'[q] = b} = {q \in Proc : pc[q] = "held" /\ want[q] = b}
    BY Zenon
<1>2. Holder[b] = IF {q \in Proc : pc[q] = "held" /\ want[q] = b} = {} THEN NoProc
                  ELSE CHOOSE p \in {q \in Proc : pc[q] = "held" /\ want[q] = b} : TRUE
    BY Zenon DEF Holder, Holders
<1>3. Holder'[b] = IF {q \in Proc : pc'[q] = "held" /\ want'[q] = b} = {} THEN NoProc
                   ELSE CHOOSE p \in {q \in Proc : pc'[q] = "held" /\ want'[q] = b} : TRUE
    BY Zenon DEF Holder, Holders
<1>4. QED
    BY <1>1, <1>2, <1>3, Zenon

LEMMA SameHolder ==
    ASSUME \A q \in Proc : (pc'[q] = "held" <=> pc[q] = "held") /\ (pc[q] = "held" => want'[q] = want[q])
    PROVE  Holder' = Holder
<1>1. ASSUME NEW b \in Block PROVE Holder'[b] = Holder[b]
    BY HolderFrame, Zenon
<1>2. QED
    BY <1>1, HolderForm, Zenon

(* In each state, for a block with a valid buffer and for one without.     *)
LEMMA ContentNow ==
    ASSUME CacheInv
    PROVE  /\ \A b \in Block, i \in Buf : blockno[i] = b /\ valid[i] = 1 => Content[b] = data[i]
           /\ \A b \in Block : (\A i \in Buf : blockno[i] = b => valid[i] # 1) => Content[b] = disk[b]
<1>1. ASSUME NEW b \in Block, NEW i \in Buf, blockno[i] = b, valid[i] = 1 PROVE Content[b] = data[i]
    <2> DEFINE S == {j \in Buf : blockno[j] = b /\ valid[j] = 1}
    <2>1. \A j \in Buf : blockno[j] = b => j = i
        BY <1>1, Zenon DEF CacheInv, UniqueInv, Buf
    <2>2. i \in S /\ \A j \in S : j = i
        BY <1>1, <2>1, Zenon
    <2>3. Content[b] = IF S = {} THEN disk[b] ELSE data[CHOOSE j \in S : TRUE]
        BY Zenon DEF Content, Cached
    <2> HIDE DEF S
    <2>4. (CHOOSE j \in S : TRUE) = i
        BY <2>2, Zenon
    <2>5. QED
        BY <2>2, <2>3, <2>4, Zenon
<1>2. ASSUME NEW b \in Block, \A i \in Buf : blockno[i] = b => valid[i] # 1 PROVE Content[b] = disk[b]
    <2> DEFINE S == {j \in Buf : blockno[j] = b /\ valid[j] = 1}
    <2>1. Content[b] = IF S = {} THEN disk[b] ELSE data[CHOOSE j \in S : TRUE]
        BY Zenon DEF Content, Cached
    <2>2. S = {}
        BY <1>2, Zenon
    <2>3. QED
        BY <2>1, <2>2, Zenon
<1>3. QED
    BY <1>1, <1>2, Zenon

LEMMA ContentNext ==
    ASSUME CacheInv'
    PROVE  /\ \A b \in Block, i \in Buf : blockno'[i] = b /\ valid'[i] = 1 => Content'[b] = data'[i]
           /\ \A b \in Block : (\A i \in Buf : blockno'[i] = b => valid'[i] # 1) => Content'[b] = disk'[b]
<1>1. ASSUME NEW b \in Block, NEW i \in Buf, blockno'[i] = b, valid'[i] = 1 PROVE Content'[b] = data'[i]
    <2> DEFINE S == {j \in Buf : blockno'[j] = b /\ valid'[j] = 1}
    <2>1. \A j \in Buf : blockno'[j] = b => j = i
        BY <1>1, Zenon DEF CacheInv, UniqueInv, Buf
    <2>2. i \in S /\ \A j \in S : j = i
        BY <1>1, <2>1, Zenon
    <2>3. Content'[b] = IF S = {} THEN disk'[b] ELSE data'[CHOOSE j \in S : TRUE]
        BY Zenon DEF Content, Cached
    <2> HIDE DEF S
    <2>4. (CHOOSE j \in S : TRUE) = i
        BY <2>2, Zenon
    <2>5. QED
        BY <2>2, <2>3, <2>4, Zenon
<1>2. ASSUME NEW b \in Block, \A i \in Buf : blockno'[i] = b => valid'[i] # 1 PROVE Content'[b] = disk'[b]
    <2> DEFINE S == {j \in Buf : blockno'[j] = b /\ valid'[j] = 1}
    <2>1. Content'[b] = IF S = {} THEN disk'[b] ELSE data'[CHOOSE j \in S : TRUE]
        BY Zenon DEF Content, Cached
    <2>2. S = {}
        BY <1>2, Zenon
    <2>3. QED
        BY <2>1, <2>2, Zenon
<1>3. QED
    BY <1>1, <1>2, Zenon

(* The holder of a block, in a state and in the next.                      *)
LEMMA HolderNone ==
    ASSUME NEW b \in Block
    PROVE  /\ (\A p \in Proc : pc[p] = "held" => want[p] # b) => Holder[b] = NoProc
           /\ (\A p \in Proc : pc'[p] = "held" => want'[p] # b) => Holder'[b] = NoProc
<1>1. ASSUME \A p \in Proc : pc[p] = "held" => want[p] # b PROVE Holder[b] = NoProc
    BY <1>1, Zenon DEF Holder, Holders
<1>2. ASSUME \A p \in Proc : pc'[p] = "held" => want'[p] # b PROVE Holder'[b] = NoProc
    BY <1>2, Zenon DEF Holder, Holders
<1>3. QED
    BY <1>1, <1>2, Zenon

LEMMA HolderNow ==
    ASSUME NEW b \in Block, NEW p \in Proc, pc[p] = "held", want[p] = b,
           \A q \in Proc : pc[q] = "held" /\ want[q] = b => q = p
    PROVE  Holder[b] = p
<1> DEFINE S == {q \in Proc : pc[q] = "held" /\ want[q] = b}
<1>1. p \in S /\ \A q \in S : q = p
    BY Zenon
<1>2. Holder[b] = IF S = {} THEN NoProc ELSE CHOOSE q \in S : TRUE
    BY Zenon DEF Holder, Holders
<1> HIDE DEF S
<1>3. (CHOOSE q \in S : TRUE) = p
    BY <1>1, Zenon
<1>4. QED
    BY <1>1, <1>2, <1>3, Zenon

LEMMA HolderNext ==
    ASSUME NEW b \in Block, NEW p \in Proc, pc'[p] = "held", want'[p] = b,
           \A q \in Proc : pc'[q] = "held" /\ want'[q] = b => q = p
    PROVE  Holder'[b] = p
<1> DEFINE S == {q \in Proc : pc'[q] = "held" /\ want'[q] = b}
<1>1. p \in S /\ \A q \in S : q = p
    BY Zenon
<1>2. Holder'[b] = IF S = {} THEN NoProc ELSE CHOOSE q \in S : TRUE
    BY Zenon DEF Holder, Holders
<1> HIDE DEF S
<1>3. (CHOOSE q \in S : TRUE) = p
    BY <1>1, Zenon
<1>4. QED
    BY <1>1, <1>2, <1>3, Zenon

(* A thread that has read a block is its one holder.                       *)
LEMMA HeldBy ==
    ASSUME CacheInv, NEW p \in Proc, pc[p] = "held", want[p] \in Block
    PROVE  Holder[want[p]] = p
<1>1. \A q \in Proc : pc[q] = "held" /\ want[q] = want[p] => q = p
    BY OneHolder, Zenon DEF Locking
<1>2. QED
    BY <1>1, HolderNow, Zenon

(* bread() is where a thread takes a block.                                *)
LEMMA BreadRefines ==
    ASSUME CacheInv, CacheInv', NEW p \in Proc, Bread(p)
    PROVE  LB!Take(p, want[p])
<1>1. PICK i \in Buf : i = buf[p] /\ blockno[i] = want[p] /\ want[p] \in Block
    BY Zenon DEF Bread, CacheInv, ThreadInv, Referring
<1>2. pc[p] = "locked" /\ blockno' = blockno /\ disk' = disk /\ want' = want
    BY Zenon DEF Bread
<1>3. /\ valid'[i] = 1 /\ data'[i] = IF valid[i] = 1 THEN data[i] ELSE disk[want[p]]
      /\ \A j \in Buf : j # i => valid'[j] = valid[j] /\ data'[j] = data[j]
    BY <1>1, Zenon DEF Bread, CacheInv, TypeOK
<1>4. pc'[p] = "held" /\ \A q \in Proc : q # p => pc'[q] = pc[q]
    BY Zenon DEF Bread, Go, CacheInv, TypeOK
<1>5. \A j \in Buf : blockno[j] = want[p] => j = i
    BY <1>1, Zenon DEF CacheInv, UniqueInv
<1>6. ASSUME NEW b \in Block PROVE Content'[b] = Content[b]
    <2>1. CASE b = want[p]
        <3>1. Content'[b] = data'[i]
            BY <1>1, <1>2, <1>3, <2>1, ContentNext, Zenon
        <3>2. CASE valid[i] = 1
            BY <1>1, <1>3, <2>1, <3>1, <3>2, ContentNow, Zenon
        <3>3. CASE valid[i] # 1
            BY <1>3, <1>5, <2>1, <3>1, <3>3, ContentNow, Zenon
        <3>4. QED
            BY <3>2, <3>3, Zenon
    <2>2. CASE b # want[p]
        <3>1. CASE \E j \in Buf : blockno[j] = b /\ valid[j] = 1
            <4>1. PICK j \in Buf : blockno[j] = b /\ valid[j] = 1
                BY <3>1, Zenon
            <4>2. j # i
                BY <1>1, <2>2, <4>1, Zenon
            <4>3. Content[b] = data[j] /\ Content'[b] = data'[j]
                BY <1>2, <1>3, <4>1, <4>2, ContentNow, ContentNext, Zenon
            <4>4. QED
                BY <1>3, <4>2, <4>3, Zenon
        <3>2. CASE \A j \in Buf : blockno[j] = b => valid[j] # 1
            <4>1. \A j \in Buf : blockno'[j] = b => valid'[j] # 1
                BY <1>1, <1>2, <1>3, <2>2, <3>2, Zenon
            <4>2. Content[b] = disk[b] /\ Content'[b] = disk'[b]
                BY <3>2, <4>1, ContentNow, ContentNext, Zenon
            <4>3. QED
                BY <1>2, <4>2, Zenon
        <3>3. QED
            BY <3>1, <3>2, Zenon
    <2>3. QED
        BY <2>1, <2>2, Zenon
<1>7. \A q \in Proc : pc[q] = "held" => want[q] # want[p]
    <2>1. ASSUME NEW q \in Proc, pc[q] = "held", want[q] = want[p] PROVE FALSE
        <3>1. q = p
            BY <1>2, <2>1, OneHolder, Zenon DEF Locking
        <3>2. QED
            BY <1>2, <2>1, <3>1, Zenon
    <2>2. QED
        BY <2>1, Zenon
<1>8. Holder[want[p]] = NoProc
    BY <1>1, <1>7, HolderNone, Zenon
<1>9. Holder' = [Holder EXCEPT ![want[p]] = p]
    <2>1. Holder'[want[p]] = p
        <3>1. \A q \in Proc : pc'[q] = "held" /\ want'[q] = want[p] => q = p
            BY <1>2, <1>4, <1>7, Zenon
        <3>2. QED
            BY <1>1, <1>2, <1>4, <3>1, HolderNext, Zenon
    <2>2. ASSUME NEW b \in Block, b # want[p] PROVE Holder'[b] = Holder[b]
        BY <1>2, <1>4, <2>2, HolderFrame, Zenon
    <2>3. QED
        BY <1>1, <2>1, <2>2, HolderForm, Zenon
<1>10. Content' = Content
    BY <1>6, SameContent, Zenon
<1>11. disk' = disk /\ pinned' = pinned
    BY Zenon DEF Bread
<1>12. QED
    BY <1>8, <1>9, <1>10, <1>11, Zenon DEF LB!Take

(* A change of the data is a change of the content of the block.           *)
LEMMA ModifyRefines ==
    ASSUME CacheInv, CacheInv', NEW p \in Proc, NEW v \in Value, Modify(p, v)
    PROVE  LB!Change(p, want[p], v)
<1>1. PICK i \in Buf : i = buf[p] /\ blockno[i] = want[p] /\ want[p] \in Block /\ valid[i] = 1
    BY Zenon DEF Modify, CacheInv, ThreadInv, ValidInv, Referring
<1>2. /\ pc[p] = "held" /\ blockno' = blockno /\ valid' = valid /\ disk' = disk /\ want' = want /\ pc' = pc
      /\ data'[i] = v /\ \A j \in Buf : j # i => data'[j] = data[j]
    BY <1>1, Zenon DEF Modify, CacheInv, TypeOK
<1>3. Holder[want[p]] = p
    BY <1>1, <1>2, HeldBy, Zenon
<1>4. Holder' = Holder
    BY <1>2, SameHolder, Zenon
<1>5. Content'[want[p]] = v
    BY <1>1, <1>2, ContentNext, Zenon
<1>6. ASSUME NEW b \in Block, b # want[p] PROVE Content'[b] = Content[b]
    <2>1. CASE \E j \in Buf : blockno[j] = b /\ valid[j] = 1
        <3>1. PICK j \in Buf : blockno[j] = b /\ valid[j] = 1
            BY <2>1, Zenon
        <3>2. j # i
            BY <1>1, <1>6, <3>1, Zenon
        <3>3. Content[b] = data[j] /\ Content'[b] = data'[j]
            BY <1>2, <3>1, ContentNow, ContentNext, Zenon
        <3>4. QED
            BY <1>2, <3>2, <3>3, Zenon
    <2>2. CASE \A j \in Buf : blockno[j] = b => valid[j] # 1
        BY <1>2, <2>2, ContentNow, ContentNext, Zenon
    <2>3. QED
        BY <2>1, <2>2, Zenon
<1>7. Content' = [Content EXCEPT ![want[p]] = v]
    BY <1>1, <1>5, <1>6, ContentForm, Zenon
<1>8. disk' = disk /\ pinned' = pinned
    BY Zenon DEF Modify
<1>9. QED
    BY <1>3, <1>4, <1>7, <1>8, Zenon DEF LB!Change

(* releasesleep() is where a thread gives a block back.                    *)
LEMMA ReleaseRefines ==
    ASSUME CacheInv, CacheInv', NEW p \in Proc, Releasesleep(p)
    PROVE  LB!Give(p, want[p])
<1>1. want[p] \in Block
    BY Zenon DEF Releasesleep, CacheInv, ThreadInv, Referring
<1>2. pc[p] = "held" /\ blockno' = blockno /\ valid' = valid /\ disk' = disk /\ want' = want /\ data' = data
    BY Zenon DEF Releasesleep, bufVars
<1>3. pc'[p] # "held" /\ \A q \in Proc : q # p => (pc'[q] = "held" <=> pc[q] = "held")
    BY Zenon DEF Releasesleep
<1>4. \A q \in Proc : pc[q] = "held" /\ want[q] = want[p] => q = p
    BY <1>2, OneHolder, Zenon DEF Locking
<1>5. Holder[want[p]] = p
    BY <1>1, <1>2, <1>4, HolderNow, Zenon
<1>6. Content' = Content
    BY <1>2, SMTT(30) DEF Content, Cached
<1>7. Holder'[want[p]] = NoProc
    <2>1. \A q \in Proc : pc'[q] = "held" => want'[q] # want[p]
        BY <1>2, <1>3, <1>4, Zenon
    <2>2. QED
        BY <1>1, <2>1, HolderNone, Zenon
<1>8. ASSUME NEW b \in Block, b # want[p] PROVE Holder'[b] = Holder[b]
    <2>1. \A q \in Proc : (pc'[q] = "held" /\ want'[q] = b) <=> (pc[q] = "held" /\ want[q] = b)
        BY <1>2, <1>3, <1>8, Zenon
    <2>2. QED
        BY <2>1, HolderFrame, Zenon
<1>9. Holder' = [Holder EXCEPT ![want[p]] = NoProc]
    BY <1>1, <1>7, <1>8, HolderForm, Zenon
<1>10. disk' = disk /\ pinned' = pinned
    BY Zenon DEF Releasesleep
<1>11. QED
    BY <1>5, <1>6, <1>9, <1>10, Zenon DEF LB!Give

(* To recycle a buffer brings its block back to what is on the disk; the   *)
(* log does not keep it and nobody holds it.                               *)
LEMMA MissRefines ==
    ASSUME CacheInv, CacheInv', NEW p \in Proc, NEW b \in Block, BgetMiss(p, b)
    PROVE  UNCHANGED LB!vars \/ \E c \in Block : LB!Lose(c)
<1>1. PICK i \in Buf : refcnt[i] = 0 /\ blockno' = [blockno EXCEPT ![i] = b] /\ valid' = [valid EXCEPT ![i] = 0]
    <2>1. \A k \in Buf : lru[k] \in Buf
        BY Zenon DEF CacheInv, TypeOK
    <2>2. QED
        BY <2>1, Zenon DEF BgetMiss
<1>2. disk' = disk /\ data' = data /\ pinned' = pinned
    BY Zenon DEF BgetMiss
<1>3. /\ blockno'[i] = b /\ valid'[i] = 0
      /\ \A j \in Buf : j # i => blockno'[j] = blockno[j] /\ valid'[j] = valid[j]
    BY <1>1, Zenon DEF CacheInv, TypeOK
<1>4. valid'[i] # 1
    BY <1>3
<1>5. blockno[i] \notin pinned /\ \A q \in Proc : pc[q] \in Referring => buf[q] # i
    <2>1. Users(i) = {} /\ blockno[i] \notin pinned
        BY <1>1, FreeIsUnused, Zenon DEF CacheInv
    <2>2. QED
        BY <2>1, Zenon DEF Users
<1>6. \A j \in Buf : j # i /\ valid[j] = 1 => blockno[j] # blockno[i]
    BY Zenon DEF CacheInv, UniqueInv, ValidInv
<1>7. ASSUME NEW a \in Block, a # blockno[i] \/ valid[i] # 1 PROVE Content'[a] = Content[a]
    <2>1. CASE \E j \in Buf : j # i /\ blockno[j] = a /\ valid[j] = 1
        <3>1. PICK j \in Buf : j # i /\ blockno[j] = a /\ valid[j] = 1
            BY <2>1, Zenon
        <3>2. blockno'[j] = a /\ valid'[j] = 1
            BY <1>3, <3>1, Zenon
        <3>3. Content[a] = data[j] /\ Content'[a] = data'[j]
            BY <3>1, <3>2, ContentNow, ContentNext, Zenon
        <3>4. QED
            BY <1>2, <3>3, Zenon
    <2>2. CASE \A j \in Buf : j # i /\ blockno[j] = a => valid[j] # 1
        <3>1. \A j \in Buf : blockno'[j] = a => valid'[j] # 1
            BY <1>3, <1>4, <2>2, Zenon
        <3>2. \A j \in Buf : blockno[j] = a => valid[j] # 1
            BY <1>7, <2>2, Zenon
        <3>3. QED
            BY <1>2, <3>1, <3>2, ContentNow, ContentNext, Zenon
    <2>3. QED
        BY <2>1, <2>2, Zenon
<1>8. Holder' = Holder
    <2>1. \A q \in Proc : (pc'[q] = "held" <=> pc[q] = "held") /\ (pc[q] = "held" => want'[q] = want[q])
        BY DEF BgetMiss, Go, CacheInv, TypeOK
    <2>2. QED
        BY <2>1, SameHolder, Zenon
<1>9. CASE valid[i] # 1
    <2>1. Content' = Content
        BY <1>7, <1>9, SameContent, Zenon
    <2>2. QED
        BY <1>2, <1>8, <2>1, Zenon DEF LB!vars
<1>10. CASE valid[i] = 1
    <2>1. PICK c \in Block : c = blockno[i]
        BY <1>10, Zenon DEF CacheInv, ValidInv
    <2>2. Content'[c] = disk[c]
        <3>1. \A j \in Buf : blockno'[j] = c => valid'[j] # 1
            BY <1>3, <1>4, <1>6, <2>1, Zenon
        <3>2. QED
            BY <1>2, <3>1, ContentNext, Zenon
    <2>3. \A a \in Block : a # c => Content'[a] = Content[a]
        BY <1>7, <2>1, Zenon
    <2>4. Content' = [Content EXCEPT ![c] = disk[c]]
        BY <2>2, <2>3, ContentForm, Zenon
    <2>5. Holder[c] = NoProc
        <3>1. ASSUME NEW q \in Proc, pc[q] = "held", want[q] = c PROVE FALSE
            <4>1. buf[q] \in Buf /\ blockno[buf[q]] = c /\ buf[q] # i
                BY <1>5, <3>1, Zenon DEF CacheInv, ThreadInv, Referring
            <4>2. blockno[buf[q]] = blockno[i] /\ blockno[buf[q]] \in Block
                BY <2>1, <4>1, Zenon
            <4>3. QED
                BY <4>1, <4>2, Zenon DEF CacheInv, UniqueInv
        <3>2. QED
            BY <3>1, HolderNone, Zenon
    <2>6. LB!Lose(c)
        BY <1>2, <1>5, <1>8, <2>1, <2>4, <2>5, Zenon DEF LB!Lose
    <2>7. QED
        BY <2>6, Zenon
<1>11. QED
    BY <1>9, <1>10, Zenon

(* bwrite() changes the disk behind a valid buffer, which the caller       *)
(* holds.                                                                  *)
LEMMA BwriteRefines ==
    ASSUME CacheInv, CacheInv', NEW p \in Proc, Bwrite(p)
    PROVE  LB!Save(p, want[p])
<1>1. PICK i \in Buf : i = buf[p] /\ blockno[i] = want[p] /\ want[p] \in Block /\ valid[i] = 1
    BY Zenon DEF Bwrite, CacheInv, ThreadInv, ValidInv, Referring
<1>2. /\ blockno' = blockno /\ valid' = valid /\ data' = data /\ want' = want /\ pc' = pc /\ pinned' = pinned
      /\ pc[p] = "held" /\ disk' = [disk EXCEPT ![want[p]] = data[i]]
    BY <1>1, Zenon DEF Bwrite, bufVars
<1>3. Content[want[p]] = data[i]
    BY <1>1, ContentNow, Zenon
<1>4. ASSUME NEW b \in Block PROVE Content'[b] = Content[b]
    <2>1. CASE \E j \in Buf : blockno[j] = b /\ valid[j] = 1
        <3>1. PICK j \in Buf : blockno[j] = b /\ valid[j] = 1
            BY <2>1, Zenon
        <3>2. Content[b] = data[j] /\ Content'[b] = data'[j]
            BY <1>2, <3>1, ContentNow, ContentNext, Zenon
        <3>3. QED
            BY <1>2, <3>2, Zenon
    <2>2. CASE \A j \in Buf : blockno[j] = b => valid[j] # 1
        <3>1. b # want[p]
            BY <1>1, <2>2, Zenon
        <3>2. Content[b] = disk[b] /\ Content'[b] = disk'[b]
            BY <1>2, <2>2, ContentNow, ContentNext, Zenon
        <3>3. disk'[b] = disk[b]
            BY <1>2, <3>1, Zenon DEF CacheInv, TypeOK
        <3>4. QED
            BY <3>2, <3>3, Zenon
    <2>3. QED
        BY <2>1, <2>2, Zenon
<1>5. Content' = Content
    BY <1>4, SameContent, Zenon
<1>6. Holder' = Holder
    BY <1>2, SameHolder, Zenon
<1>7. Holder[want[p]] = p
    BY <1>1, <1>2, HeldBy, Zenon
<1>8. QED
    BY <1>2, <1>3, <1>5, <1>6, <1>7, Zenon DEF LB!Save

(* bpin() and bunpin() are called with the block held.                     *)
LEMMA PinRefines ==
    ASSUME CacheInv, NEW p \in Proc, Bpin(p) \/ Bunpin(p)
    PROVE  want[p] \in Block /\ LB!Keep(p, want[p])
<1>1. pc[p] = "held" /\ blockno' = blockno /\ valid' = valid /\ data' = data /\ disk' = disk /\ pc' = pc /\ want' = want
    BY Zenon DEF Bpin, Bunpin, bufVars
<1>2. want[p] \in Block
    BY <1>1, Zenon DEF CacheInv, ThreadInv, Referring
<1>3. pinned' \in {pinned \cup {want[p]}, pinned \ {want[p]}}
    BY Zenon DEF Bpin, Bunpin
<1>4. Content' = Content
    BY <1>1 DEF Content, Cached
<1>5. Holder' = Holder
    BY <1>1, SameHolder, Zenon
<1>6. Holder[want[p]] = p
    BY <1>1, <1>2, HeldBy, Zenon
<1>7. QED
    BY <1>1, <1>2, <1>3, <1>4, <1>5, <1>6, Zenon DEF LB!Keep

(* The other steps change neither a valid buffer nor who holds one.        *)
LEMMA OthersStutter ==
    ASSUME blockno' = blockno, valid' = valid, data' = data, disk' = disk, pinned' = pinned,
           \A q \in Proc : (pc'[q] = "held" <=> pc[q] = "held") /\ (pc[q] = "held" => want'[q] = want[q])
    PROVE  UNCHANGED LB!vars
<1>1. Content' = Content
    BY DEF Content, Cached
<1>2. QED
    BY <1>1, SameHolder, Zenon DEF LB!vars

LEMMA InitRefines == Init => LB!Init
<1> SUFFICES ASSUME Init PROVE LB!Init
    BY Zenon
<1>1. disk = InitDisk /\ \A p \in Proc : pc[p] # "held"
    BY Zenon DEF Init
<1>2. \A i \in Buf : valid[i] # 1
    BY DEF Init
<1>3. CacheInv
    BY InitCache, Zenon
<1>4. \A b \in Block : Content[b] = InitDisk[b]
    BY <1>1, <1>2, <1>3, ContentNow, Zenon
<1>5. Content = InitDisk
    <2>1. InitDisk = [b \in Block |-> InitDisk[b]]
        BY Zenon, DiskAssumption
    <2>2. QED
        BY <1>4, <2>1, ContentForm, Zenon
<1>6. \A b \in Block : Holder[b] = NoProc
    BY <1>1, HolderNone, Zenon
<1>7. Holder = [b \in Block |-> NoProc]
    BY <1>6, HolderForm, Zenon
<1>8. disk = InitDisk /\ pinned = {}
    BY Zenon DEF Init
<1>9. QED
    BY <1>5, <1>7, <1>8, Zenon DEF LB!Init

(* The buffer cache gives every thread the one current content of a block  *)
(* and gives it to one thread at a time, from bread() to brelse(), however *)
(* many buffers there are and however bget() recycles them.                *)
THEOREM Refinement == Spec => RefinesLockedBlocks
<1>1. CacheInv /\ CacheInv' /\ [Next]_vars => [LB!Next]_(LB!vars)
    <2> SUFFICES ASSUME CacheInv, CacheInv', [Next]_vars PROVE [LB!Next]_(LB!vars)
        BY Zenon
    <2>0. \A p \in Proc : pc[p] \in Referring => want[p] \in Block
        BY Zenon DEF CacheInv, ThreadInv
    <2>1. ASSUME NEW p \in Proc, NEW b \in Block, BgetHit(p, b) PROVE UNCHANGED LB!vars
        <3>1. /\ blockno' = blockno /\ valid' = valid /\ data' = data /\ disk' = disk /\ pinned' = pinned
              /\ \A q \in Proc : (pc'[q] = "held" <=> pc[q] = "held") /\ (pc[q] = "held" => want'[q] = want[q])
            BY Zenon, <2>1 DEF BgetHit, Go, bufVars, CacheInv, TypeOK
        <3>2. QED
            BY <3>1, OthersStutter, Zenon
    <2>2. ASSUME NEW p \in Proc, NEW b \in Block, BgetMiss(p, b) PROVE LB!Next \/ UNCHANGED LB!vars
        BY <2>2, MissRefines, Zenon DEF LB!Next
    <2>3. ASSUME NEW p \in Proc, Acquiresleep(p) PROVE UNCHANGED LB!vars
        <3>1. /\ blockno' = blockno /\ valid' = valid /\ data' = data /\ disk' = disk /\ pinned' = pinned
              /\ \A q \in Proc : (pc'[q] = "held" <=> pc[q] = "held") /\ (pc[q] = "held" => want'[q] = want[q])
            BY <2>3 DEF Acquiresleep, Go, bufVars, CacheInv, TypeOK
        <3>2. QED
            BY <3>1, OthersStutter, Zenon
    <2>4. ASSUME NEW p \in Proc, Bread(p) PROVE LB!Next
        <3>1. want[p] \in Block
            BY <2>0, <2>4, Zenon DEF Bread, Referring
        <3>2. QED
            BY <2>4, <3>1, BreadRefines, Zenon DEF LB!Next
    <2>5. ASSUME NEW p \in Proc, NEW v \in Value, Modify(p, v) PROVE LB!Next
        <3>1. want[p] \in Block
            BY <2>0, <2>5, Zenon DEF Modify, Referring
        <3>2. QED
            BY <2>5, <3>1, ModifyRefines, Zenon DEF LB!Next
    <2>6. ASSUME NEW p \in Proc, Bwrite(p) PROVE LB!Next
        <3>1. want[p] \in Block
            BY <2>0, <2>6, Zenon DEF Bwrite, Referring
        <3>2. QED
            BY <2>6, <3>1, BwriteRefines, Zenon DEF LB!Next
    <2>7. ASSUME NEW p \in Proc, Bpin(p) \/ Bunpin(p) PROVE LB!Next
        BY <2>7, PinRefines, Zenon DEF LB!Next
    <2>8. ASSUME NEW p \in Proc, Releasesleep(p) PROVE LB!Next
        <3>1. want[p] \in Block
            BY <2>0, <2>8, Zenon DEF Releasesleep, Referring
        <3>2. QED
            BY <2>8, <3>1, ReleaseRefines, Zenon DEF LB!Next
    <2>9. ASSUME NEW p \in Proc, Brelse(p) PROVE UNCHANGED LB!vars
        <3>1. /\ blockno' = blockno /\ valid' = valid /\ data' = data /\ disk' = disk /\ pinned' = pinned
              /\ \A q \in Proc : (pc'[q] = "held" <=> pc[q] = "held") /\ (pc[q] = "held" => want'[q] = want[q])
            BY Zenon, <2>9 DEF Brelse, Go, bufVars, CacheInv, TypeOK
        <3>2. QED
            BY <3>1, OthersStutter, Zenon
    <2>10. CASE UNCHANGED vars
        <3>1. /\ blockno' = blockno /\ valid' = valid /\ data' = data /\ disk' = disk /\ pinned' = pinned
              /\ \A q \in Proc : (pc'[q] = "held" <=> pc[q] = "held") /\ (pc[q] = "held" => want'[q] = want[q])
            BY <2>10, Zenon DEF vars, bufVars
        <3>2. QED
            BY <3>1, OthersStutter, Zenon
    <2>11. ASSUME NEW p \in Proc, NEW b \in Block, BgetPanic(p, b) PROVE UNCHANGED LB!vars
        <3>1. /\ blockno' = blockno /\ valid' = valid /\ data' = data /\ disk' = disk /\ pinned' = pinned
              /\ \A q \in Proc : (pc'[q] = "held" <=> pc[q] = "held") /\ (pc[q] = "held" => want'[q] = want[q])
            BY Zenon, <2>11 DEF BgetPanic, Go, bufVars, CacheInv, TypeOK
        <3>2. QED
            BY <3>1, OthersStutter, Zenon
    <2>12. QED
        BY <2>1, <2>2, <2>3, <2>4, <2>5, <2>6, <2>7, <2>8, <2>9, <2>10, <2>11, Zenon DEF Next
<1>2. QED
    BY <1>1, InitRefines, CacheAlways, PTL DEF Spec, RefinesLockedBlocks, LB!Spec
=============================================================================
