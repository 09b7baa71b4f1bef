----------------------------- MODULE PipeProofs -----------------------------
(***************************************************************************)
(* Proofs about Pipe, for any set of processes, any ring and any counters  *)
(* that wrap at a multiple of its size.                                    *)
(***************************************************************************)
EXTENDS Pipe, SequenceTheorems, TLAPS

(* The places where a process holds pi->lock.                              *)
Held == {"write", "wsleeping", "read", "rsleeping", "copy"}
LockInv == \A p \in Proc : lock = p <=> pc[p] \in Held

(* Whoever is in read() or write() has the end open; the process that goes *)
(* to pipeclose() is the last one that had it; the page is free when both  *)
(* ends are closed.                                                        *)
EndInv ==
    /\ \A p \in Proc : (pc[p] \in InRead => "r" \in ends[p]) /\ (pc[p] \in InWrite => "w" \in ends[p])
    /\ \A p \in Proc : ("r" \in ends[p] => readopen = 1) /\ ("w" \in ends[p] => writeopen = 1)
    /\ \A p \in Proc : pc[p] = "rclose" => readopen = 1
    /\ \A p \in Proc : pc[p] = "wclose" => writeopen = 1
    /\ \A p, q \in Proc : pc[p] = "rclose" => "r" \notin ends[q] /\ (pc[q] = "rclose" => q = p)
    /\ \A p, q \in Proc : pc[p] = "wclose" => "w" \notin ends[q] /\ (pc[q] = "wclose" => q = p)
    /\ freed = 1 <=> (readopen = 0 /\ writeopen = 0)

(* Why somebody sleeps, or will be woken: a reader at "copy" calls         *)
(* wakeup(&pi->nwrite) before it lets go of the lock, and a writer at      *)
(* "write" calls wakeup(&pi->nread) unless it has been killed.             *)
SleepInv ==
    \A p \in Proc :
        /\ pc[p] = "wsleeping" => nwrite = Add(nread, PIPESIZE)
        /\ pc[p] = "wsleep" => nwrite = Add(nread, PIPESIZE) \/ \E q \in Proc : pc[q] = "copy"
        /\ pc[p] = "rsleeping" => nread = nwrite
        /\ pc[p] = "rsleep" =>
               \/ nread = nwrite
               \/ \E q \in Proc : killed[q] = 1
               \/ \E q \in Proc : pc[q] = "write"

(* Only the holder of pi->lock is at a place where it is held.             *)
LEMMA LockStep ==
    ASSUME TypeOK, LockInv, [Next]_vars
    PROVE  LockInv'
<1>0. CASE UNCHANGED vars
    BY Zenon, <1>0 DEF vars, pipeVars, procVars, TypeOK, LockInv, Held, InWrite, InRead, InClose
<1>1. ASSUME NEW p \in Proc, NEW n \in 0 .. MaxCount, Write(p, n) PROVE LockInv'
    BY Zenon, <1>1, ProcAssumption DEF Write, Go, pipeVars, procVars, TypeOK, LockInv, Held, InWrite, InRead, InClose
<1>2. ASSUME NEW p \in Proc, NEW n \in 0 .. MaxCount, Read(p, n) PROVE LockInv'
    BY Zenon, <1>2, ProcAssumption DEF Read, Go, pipeVars, procVars, TypeOK, LockInv, Held, InWrite, InRead, InClose
<1>3. ASSUME NEW p \in Proc, Acquire(p, "wacquire", "write") PROVE LockInv'
    BY Zenon, <1>3, ProcAssumption DEF Acquire, Go, pipeVars, procVars, TypeOK, LockInv, Held, InWrite, InRead, InClose
<1>4. ASSUME NEW p \in Proc, WriteFails(p) PROVE LockInv'
    BY Zenon, <1>4, ProcAssumption DEF WriteFails, Go, pipeVars, procVars, TypeOK, LockInv, Held, InWrite, InRead, InClose
<1>5. ASSUME NEW p \in Proc, WriteFull(p) PROVE LockInv'
    BY Zenon, <1>5, ProcAssumption DEF WriteFull, WakeReaders, pipeVars, procVars, TypeOK, LockInv, Held, InWrite, InRead, InClose
<1>6. ASSUME NEW p \in Proc, WriteReturns(p) PROVE LockInv'
    BY Zenon, <1>6, ProcAssumption DEF WriteReturns, WakeReaders, pipeVars, procVars, TypeOK, LockInv, Held, InWrite, InRead, InClose
<1>7. ASSUME NEW p \in Proc, NEW c \in Byte, WriteByte(p, c) PROVE LockInv'
    BY Zenon, <1>7, ProcAssumption DEF WriteByte, pipeVars, procVars, TypeOK, LockInv, Held, InWrite, InRead, InClose
<1>8. ASSUME NEW p \in Proc, Sleep(p, "wsleeping", "wsleep") PROVE LockInv'
    BY Zenon, <1>8, ProcAssumption DEF Sleep, Go, pipeVars, procVars, TypeOK, LockInv, Held, InWrite, InRead, InClose
<1>9. ASSUME NEW p \in Proc, Acquire(p, "racquire", "read") PROVE LockInv'
    BY Zenon, <1>9, ProcAssumption DEF Acquire, Go, pipeVars, procVars, TypeOK, LockInv, Held, InWrite, InRead, InClose
<1>10. ASSUME NEW p \in Proc, ReadEmpty(p) PROVE LockInv'
    BY Zenon, <1>10, ProcAssumption DEF ReadEmpty, Go, pipeVars, procVars, TypeOK, LockInv, Held, InWrite, InRead, InClose
<1>11. ASSUME NEW p \in Proc, ReadReady(p) PROVE LockInv'
    BY Zenon, <1>11, ProcAssumption DEF ReadReady, Go, pipeVars, procVars, TypeOK, LockInv, Held, InWrite, InRead, InClose
<1>12. ASSUME NEW p \in Proc, ReadByte(p) PROVE LockInv'
    BY Zenon, <1>12, ProcAssumption DEF ReadByte, pipeVars, procVars, TypeOK, LockInv, Held, InWrite, InRead, InClose
<1>13. ASSUME NEW p \in Proc, ReadReturns(p) PROVE LockInv'
    BY Zenon, <1>13, ProcAssumption DEF ReadReturns, WakeWriters, pipeVars, procVars, TypeOK, LockInv, Held, InWrite, InRead, InClose
<1>14. ASSUME NEW p \in Proc, Sleep(p, "rsleeping", "rsleep") PROVE LockInv'
    BY Zenon, <1>14, ProcAssumption DEF Sleep, Go, pipeVars, procVars, TypeOK, LockInv, Held, InWrite, InRead, InClose
<1>15. ASSUME NEW p \in Proc, PipecloseRead(p) PROVE LockInv'
    BY Zenon, <1>15, ProcAssumption DEF PipecloseRead, WakeWriters, pipeVars, procVars, TypeOK, LockInv, Held, InWrite, InRead, InClose
<1>16. ASSUME NEW p \in Proc, PipecloseWrite(p) PROVE LockInv'
    BY Zenon, <1>16, ProcAssumption DEF PipecloseWrite, WakeReaders, pipeVars, procVars, TypeOK, LockInv, Held, InWrite, InRead, InClose
<1>17. ASSUME NEW p \in Proc, NEW q \in Proc \ {p}, Fork(p, q) PROVE LockInv'
    BY Zenon, <1>17, ProcAssumption DEF Fork, pipeVars, procVars, TypeOK, LockInv, Held, InWrite, InRead, InClose
<1>18. ASSUME NEW p \in Proc, NEW e \in {"r", "w"}, Fileclose(p, e) PROVE LockInv'
    BY Zenon, <1>18, ProcAssumption DEF Fileclose, Go, pipeVars, procVars, TypeOK, LockInv, Held, InWrite, InRead, InClose
<1>19. ASSUME NEW p \in Proc, Kill(p) PROVE LockInv'
    BY Zenon, <1>19, ProcAssumption DEF Kill, pipeVars, procVars, TypeOK, LockInv, Held, InWrite, InRead, InClose
<1>20. QED
    BY Zenon, <1>0, <1>1, <1>2, <1>3, <1>4, <1>5, <1>6, <1>7, <1>8, <1>9, <1>10, <1>11, <1>12, <1>13, <1>14, <1>15, <1>16, <1>17, <1>18, <1>19 DEF Next, WriteStep, ReadStep, Pipeclose

(* fileclose() hands the end to one process at most.                       *)
LEMMA EndStep ==
    ASSUME TypeOK, EndInv, [Next]_vars
    PROVE  EndInv'
<1>0. CASE UNCHANGED vars
    BY Zenon, <1>0 DEF vars, pipeVars, procVars, TypeOK, EndInv, InWrite, InRead, InClose
<1>1. ASSUME NEW p \in Proc, NEW n \in 0 .. MaxCount, Write(p, n) PROVE EndInv'
    BY <1>1 DEF Write, Go, pipeVars, procVars, TypeOK, EndInv, InWrite, InRead, InClose
<1>2. ASSUME NEW p \in Proc, NEW n \in 0 .. MaxCount, Read(p, n) PROVE EndInv'
    BY <1>2 DEF Read, Go, pipeVars, procVars, TypeOK, EndInv, InWrite, InRead, InClose
<1>3. ASSUME NEW p \in Proc, Acquire(p, "wacquire", "write") PROVE EndInv'
    BY <1>3 DEF Acquire, Go, pipeVars, procVars, TypeOK, EndInv, InWrite, InRead, InClose
<1>4. ASSUME NEW p \in Proc, WriteFails(p) PROVE EndInv'
    BY <1>4 DEF WriteFails, Go, pipeVars, procVars, TypeOK, EndInv, InWrite, InRead, InClose
<1>5. ASSUME NEW p \in Proc, WriteFull(p) PROVE EndInv'
    BY Zenon, <1>5 DEF WriteFull, WakeReaders, pipeVars, procVars, TypeOK, EndInv, InWrite, InRead, InClose
<1>6. ASSUME NEW p \in Proc, WriteReturns(p) PROVE EndInv'
    BY Zenon, <1>6 DEF WriteReturns, WakeReaders, pipeVars, procVars, TypeOK, EndInv, InWrite, InRead, InClose
<1>7. ASSUME NEW p \in Proc, NEW c \in Byte, WriteByte(p, c) PROVE EndInv'
    BY Zenon, <1>7 DEF WriteByte, pipeVars, procVars, TypeOK, EndInv, InWrite, InRead, InClose
<1>8. ASSUME NEW p \in Proc, Sleep(p, "wsleeping", "wsleep") PROVE EndInv'
    BY <1>8 DEF Sleep, Go, pipeVars, procVars, TypeOK, EndInv, InWrite, InRead, InClose
<1>9. ASSUME NEW p \in Proc, Acquire(p, "racquire", "read") PROVE EndInv'
    BY <1>9 DEF Acquire, Go, pipeVars, procVars, TypeOK, EndInv, InWrite, InRead, InClose
<1>10. ASSUME NEW p \in Proc, ReadEmpty(p) PROVE EndInv'
    BY <1>10 DEF ReadEmpty, Go, pipeVars, procVars, TypeOK, EndInv, InWrite, InRead, InClose
<1>11. ASSUME NEW p \in Proc, ReadReady(p) PROVE EndInv'
    BY <1>11 DEF ReadReady, Go, pipeVars, procVars, TypeOK, EndInv, InWrite, InRead, InClose
<1>12. ASSUME NEW p \in Proc, ReadByte(p) PROVE EndInv'
    BY Zenon, <1>12 DEF ReadByte, pipeVars, procVars, TypeOK, EndInv, InWrite, InRead, InClose
<1>13. ASSUME NEW p \in Proc, ReadReturns(p) PROVE EndInv'
    BY Zenon, <1>13 DEF ReadReturns, WakeWriters, pipeVars, procVars, TypeOK, EndInv, InWrite, InRead, InClose
<1>14. ASSUME NEW p \in Proc, Sleep(p, "rsleeping", "rsleep") PROVE EndInv'
    BY <1>14 DEF Sleep, Go, pipeVars, procVars, TypeOK, EndInv, InWrite, InRead, InClose
<1>15. ASSUME NEW p \in Proc, PipecloseRead(p) PROVE EndInv'
    BY <1>15 DEF PipecloseRead, WakeWriters, pipeVars, procVars, TypeOK, EndInv, InWrite, InRead, InClose
<1>16. ASSUME NEW p \in Proc, PipecloseWrite(p) PROVE EndInv'
    BY <1>16 DEF PipecloseWrite, WakeReaders, pipeVars, procVars, TypeOK, EndInv, InWrite, InRead, InClose
<1>17. ASSUME NEW p \in Proc, NEW q \in Proc \ {p}, Fork(p, q) PROVE EndInv'
    BY <1>17 DEF Fork, pipeVars, procVars, TypeOK, EndInv, InWrite, InRead, InClose
<1>18. ASSUME NEW p \in Proc, NEW e \in {"r", "w"}, Fileclose(p, e) PROVE EndInv'
    BY <1>18 DEF Fileclose, Go, pipeVars, procVars, TypeOK, EndInv, InWrite, InRead, InClose
<1>19. ASSUME NEW p \in Proc, Kill(p) PROVE EndInv'
    BY <1>19 DEF Kill, pipeVars, procVars, TypeOK, EndInv, InWrite, InRead, InClose
<1>20. QED
    BY Zenon, <1>0, <1>1, <1>2, <1>3, <1>4, <1>5, <1>6, <1>7, <1>8, <1>9, <1>10, <1>11, <1>12, <1>13, <1>14, <1>15, <1>16, <1>17, <1>18, <1>19 DEF Next, WriteStep, ReadStep, Pipeclose

(* Every change of the counters is followed by the wakeup().               *)
LEMMA SleepStep ==
    ASSUME TypeOK, LockInv, EndInv, SleepInv, [Next]_vars
    PROVE  SleepInv'
<1>0. CASE UNCHANGED vars
    BY Zenon, <1>0 DEF vars, pipeVars, procVars, TypeOK, LockInv, Held, EndInv, SleepInv, InWrite, InRead, InClose
<1>1. ASSUME NEW p \in Proc, NEW n \in 0 .. MaxCount, Write(p, n) PROVE SleepInv'
    BY <1>1, ProcAssumption DEF Write, Go, pipeVars, procVars, TypeOK, LockInv, Held, EndInv, SleepInv, InWrite, InRead, InClose
<1>2. ASSUME NEW p \in Proc, NEW n \in 0 .. MaxCount, Read(p, n) PROVE SleepInv'
    BY <1>2, ProcAssumption DEF Read, Go, pipeVars, procVars, TypeOK, LockInv, Held, EndInv, SleepInv, InWrite, InRead, InClose
<1>3. ASSUME NEW p \in Proc, Acquire(p, "wacquire", "write") PROVE SleepInv'
    BY <1>3, ProcAssumption DEF Acquire, Go, pipeVars, procVars, TypeOK, LockInv, Held, EndInv, SleepInv, InWrite, InRead, InClose
<1>4. ASSUME NEW p \in Proc, WriteFails(p) PROVE SleepInv'
    BY <1>4, ProcAssumption DEF WriteFails, Go, pipeVars, procVars, TypeOK, LockInv, Held, EndInv, SleepInv, InWrite, InRead, InClose
<1>5. ASSUME NEW p \in Proc, WriteFull(p) PROVE SleepInv'
    BY Zenon, <1>5, ProcAssumption DEF WriteFull, WakeReaders, pipeVars, procVars, TypeOK, LockInv, Held, EndInv, SleepInv, InWrite, InRead, InClose
<1>6. ASSUME NEW p \in Proc, WriteReturns(p) PROVE SleepInv'
    BY Zenon, <1>6, ProcAssumption DEF WriteReturns, WakeReaders, pipeVars, procVars, TypeOK, LockInv, Held, EndInv, SleepInv, InWrite, InRead, InClose
<1>7. ASSUME NEW p \in Proc, NEW c \in Byte, WriteByte(p, c) PROVE SleepInv'
    BY Zenon, <1>7, ProcAssumption DEF WriteByte, pipeVars, procVars, TypeOK, LockInv, Held, EndInv, SleepInv, InWrite, InRead, InClose
<1>8. ASSUME NEW p \in Proc, Sleep(p, "wsleeping", "wsleep") PROVE SleepInv'
    BY <1>8, ProcAssumption DEF Sleep, Go, pipeVars, procVars, TypeOK, LockInv, Held, EndInv, SleepInv, InWrite, InRead, InClose
<1>9. ASSUME NEW p \in Proc, Acquire(p, "racquire", "read") PROVE SleepInv'
    BY <1>9, ProcAssumption DEF Acquire, Go, pipeVars, procVars, TypeOK, LockInv, Held, EndInv, SleepInv, InWrite, InRead, InClose
<1>10. ASSUME NEW p \in Proc, ReadEmpty(p) PROVE SleepInv'
    BY <1>10, ProcAssumption DEF ReadEmpty, Go, pipeVars, procVars, TypeOK, LockInv, Held, EndInv, SleepInv, InWrite, InRead, InClose
<1>11. ASSUME NEW p \in Proc, ReadReady(p) PROVE SleepInv'
    BY <1>11, ProcAssumption DEF ReadReady, Go, pipeVars, procVars, TypeOK, LockInv, Held, EndInv, SleepInv, InWrite, InRead, InClose
<1>12. ASSUME NEW p \in Proc, ReadByte(p) PROVE SleepInv'
    BY Zenon, <1>12, ProcAssumption DEF ReadByte, pipeVars, procVars, TypeOK, LockInv, Held, EndInv, SleepInv, InWrite, InRead, InClose
<1>13. ASSUME NEW p \in Proc, ReadReturns(p) PROVE SleepInv'
    BY Zenon, <1>13, ProcAssumption DEF ReadReturns, WakeWriters, pipeVars, procVars, TypeOK, LockInv, Held, EndInv, SleepInv, InWrite, InRead, InClose
<1>14. ASSUME NEW p \in Proc, Sleep(p, "rsleeping", "rsleep") PROVE SleepInv'
    BY <1>14, ProcAssumption DEF Sleep, Go, pipeVars, procVars, TypeOK, LockInv, Held, EndInv, SleepInv, InWrite, InRead, InClose
<1>15. ASSUME NEW p \in Proc, PipecloseRead(p) PROVE SleepInv'
    BY Zenon, <1>15, ProcAssumption DEF PipecloseRead, WakeWriters, pipeVars, procVars, TypeOK, LockInv, Held, EndInv, SleepInv, InWrite, InRead, InClose
<1>16. ASSUME NEW p \in Proc, PipecloseWrite(p) PROVE SleepInv'
    BY Zenon, <1>16, ProcAssumption DEF PipecloseWrite, WakeReaders, pipeVars, procVars, TypeOK, LockInv, Held, EndInv, SleepInv, InWrite, InRead, InClose
<1>17. ASSUME NEW p \in Proc, NEW q \in Proc \ {p}, Fork(p, q) PROVE SleepInv'
    BY Zenon, <1>17, ProcAssumption DEF Fork, pipeVars, procVars, TypeOK, LockInv, Held, EndInv, SleepInv, InWrite, InRead, InClose
<1>18. ASSUME NEW p \in Proc, NEW e \in {"r", "w"}, Fileclose(p, e) PROVE SleepInv'
    BY <1>18, ProcAssumption DEF Fileclose, Go, pipeVars, procVars, TypeOK, LockInv, Held, EndInv, SleepInv, InWrite, InRead, InClose
<1>19. ASSUME NEW p \in Proc, Kill(p) PROVE SleepInv'
    BY <1>19, ProcAssumption DEF Kill, pipeVars, procVars, TypeOK, LockInv, Held, EndInv, SleepInv, InWrite, InRead, InClose
<1>20. QED
    BY Zenon, <1>0, <1>1, <1>2, <1>3, <1>4, <1>5, <1>6, <1>7, <1>8, <1>9, <1>10, <1>11, <1>12, <1>13, <1>14, <1>15, <1>16, <1>17, <1>18, <1>19 DEF Next, WriteStep, ReadStep, Pipeclose
-----------------------------------------------------------------------------
(* Arithmetic of the wrapping counters.                                    *)

(* Division with remainder, and back.                                      *)
LEMMA ModDivision ==
    ASSUME NEW m \in Nat \ {0}, NEW a \in Nat
    PROVE  a = m * (a \div m) + (a % m) /\ a \div m \in Nat /\ a % m \in 0 .. m - 1
    OBVIOUS

LEMMA ModOfSum ==
    ASSUME NEW m \in Nat \ {0}, NEW k \in Nat, NEW r \in 0 .. m - 1
    PROVE  (m * k + r) % m = r
    OBVIOUS

(* A multiple of the modulus makes no difference.                          *)
LEMMA ModShift ==
    ASSUME NEW m \in Nat \ {0}, NEW a \in Nat, NEW u \in Nat, u % m = 0
    PROVE  (a + u) % m = a % m
<1> DEFINE k == a \div m  l == u \div m  r == a % m
<1>1. a = m * k + r /\ u = m * l /\ k \in Nat /\ l \in Nat /\ r \in 0 .. m - 1
    BY ModDivision
<1>2. k + l \in Nat /\ m * (k + l) = m * k + m * l
    BY <1>1
<1>3. a + u = m * (k + l) + r
    BY <1>1, <1>2
<1>4. (m * (k + l) + r) % m = r
    BY Zenon, <1>1, <1>2, ModOfSum
<1>5. QED
    BY Zenon, <1>3, <1>4

(* Two numbers less than the modulus apart have different remainders.      *)
LEMMA ModDistinct ==
    ASSUME NEW m \in Nat \ {0}, NEW a \in Nat, NEW b \in Nat, a < b, b < a + m
    PROVE  a % m # b % m
<1> DEFINE k == a \div m  l == b \div m  r == a % m
<1>0. SUFFICES ASSUME a % m = b % m PROVE FALSE
    BY Zenon
<1>1. a = m * k + r /\ k \in Nat /\ r \in 0 .. m - 1
    BY Zenon, ModDivision
<1>2. b = m * l + r /\ l \in Nat
    BY Zenon, <1>0, ModDivision
<1> HIDE DEF k, l, r
<1>3. CASE l <= k
    <2>1. m * l <= m * k
        BY <1>1, <1>2, <1>3
    <2>2. QED
        BY <2>1, <1>1, <1>2
<1>4. CASE l >= k + 1
    <2>1. m * l >= m * (k + 1)
        BY <1>1, <1>2, <1>4
    <2>2. m * (k + 1) = m * k + m
        BY <1>1
    <2>3. QED
        BY <2>1, <2>2, <1>1, <1>2
<1>5. QED
    BY <1>1, <1>2, <1>3, <1>4

(* One step of a counter, and the distance between the two.                *)
LEMMA AddOne ==
    ASSUME NEW i \in 0 .. UINT - 1
    PROVE  Add(i, 1) = (IF i = UINT - 1 THEN 0 ELSE i + 1) /\ Add(i, 1) \in 0 .. UINT - 1
    BY SizeAssumption DEF Add

Distance(w, r) == IF w >= r THEN w - r ELSE w + UINT - r

LEMMA CountIsDistance ==
    ASSUME NEW r \in 0 .. UINT - 1, NEW w \in 0 .. UINT - 1
    PROVE  Add(w, UINT - r) = Distance(w, r) /\ Distance(w, r) \in Nat
    BY SizeAssumption DEF Add, Distance

LEMMA FullIsDistance ==
    ASSUME NEW r \in 0 .. UINT - 1, NEW w \in 0 .. UINT - 1
    PROVE  w = Add(r, PIPESIZE) <=> Distance(w, r) = PIPESIZE
    BY SizeAssumption DEF Add, Distance

(* The ring never holds more than PIPESIZE bytes.                          *)
CountInv == Distance(nwrite, nread) <= PIPESIZE

(* The slot that pipewrite() fills is the one after the last byte.         *)
LEMMA WriteSlot ==
    ASSUME nread \in 0 .. UINT - 1, nwrite \in 0 .. UINT - 1
    PROVE  nwrite % PIPESIZE = (nread + Distance(nwrite, nread)) % PIPESIZE
<1>1. CASE nwrite >= nread
    BY <1>1 DEF Distance
<1>2. CASE nwrite < nread
    <2>1. nread + Distance(nwrite, nread) = nwrite + UINT
        BY <1>2, SizeAssumption DEF Distance
    <2>2. nwrite \in Nat /\ UINT \in Nat /\ PIPESIZE \in Nat \ {0} /\ UINT % PIPESIZE = 0
        BY SizeAssumption
    <2>3. (nwrite + UINT) % PIPESIZE = nwrite % PIPESIZE
        BY <2>2, ModShift, Zenon
    <2>4. QED
        BY <2>1, <2>3, Zenon
<1>3. QED
    BY <1>1, <1>2

(* The bytes after the first one are where they were when nread moves on.  *)
LEMMA ReadSlot ==
    ASSUME NEW r \in 0 .. UINT - 1, NEW i \in Nat
    PROVE  (Add(r, 1) + i) % PIPESIZE = (r + 1 + i) % PIPESIZE
<1>1. CASE r = UINT - 1
    <2>1. Add(r, 1) + i = i /\ r + 1 + i = i + UINT
        BY <1>1, AddOne, SizeAssumption
    <2>2. (i + UINT) % PIPESIZE = i % PIPESIZE
        BY ModShift, SizeAssumption, Zenon
    <2>3. QED
        BY <2>1, <2>2, Zenon
<1>2. CASE r # UINT - 1
    BY Zenon, <1>2, AddOne
<1>3. QED
    BY Zenon, <1>1, <1>2

LEMMA CountAfterWrite ==
    ASSUME NEW r \in 0 .. UINT - 1, NEW w \in 0 .. UINT - 1, Distance(w, r) < PIPESIZE
    PROVE  Distance(Add(w, 1), r) = Distance(w, r) + 1
    BY AddOne, SizeAssumption DEF Distance

LEMMA CountAfterRead ==
    ASSUME NEW r \in 0 .. UINT - 1, NEW w \in 0 .. UINT - 1, r # w
    PROVE  Distance(w, Add(r, 1)) = Distance(w, r) - 1 /\ Distance(w, r) \in Nat \ {0}
    BY AddOne, SizeAssumption DEF Distance

-----------------------------------------------------------------------------
(* Every step keeps the types; the counters stay below UINT.               *)
LEMMA TypeStep ==
    ASSUME TypeOK, [Next]_vars
    PROVE  TypeOK'
<1>m. MaxCount \in Nat /\ 0 \in 0 .. MaxCount
    BY SizeAssumption
<1>0. CASE UNCHANGED vars
    BY Zenon, <1>0 DEF vars, pipeVars, procVars, TypeOK, Index, InWrite, InRead, InClose
<1>1. ASSUME NEW p \in Proc, NEW n \in 0 .. MaxCount, Write(p, n) PROVE TypeOK'
    BY Zenon, <1>1, <1>m DEF Write, Go, pipeVars, procVars, TypeOK, Index, InWrite, InRead, InClose
<1>2. ASSUME NEW p \in Proc, NEW n \in 0 .. MaxCount, Read(p, n) PROVE TypeOK'
    BY Zenon, <1>2, <1>m DEF Read, Go, pipeVars, procVars, TypeOK, Index, InWrite, InRead, InClose
<1>3. ASSUME NEW p \in Proc, Acquire(p, "wacquire", "write") PROVE TypeOK'
    BY Zenon, <1>3, <1>m DEF Acquire, Go, pipeVars, procVars, TypeOK, Index, InWrite, InRead, InClose
<1>4. ASSUME NEW p \in Proc, WriteFails(p) PROVE TypeOK'
    BY Zenon, <1>4, <1>m DEF WriteFails, Go, pipeVars, procVars, TypeOK, Index, InWrite, InRead, InClose
<1>5. ASSUME NEW p \in Proc, WriteFull(p) PROVE TypeOK'
    BY Zenon, <1>5, <1>m DEF WriteFull, WakeReaders, pipeVars, procVars, TypeOK, Index, InWrite, InRead, InClose
<1>6. ASSUME NEW p \in Proc, WriteReturns(p) PROVE TypeOK'
    BY Zenon, <1>6, <1>m DEF WriteReturns, WakeReaders, pipeVars, procVars, TypeOK, Index, InWrite, InRead, InClose
<1>7. ASSUME NEW p \in Proc, NEW c \in Byte, WriteByte(p, c) PROVE TypeOK'
    <2> DEFINE k == nwrite % PIPESIZE
    <2>0. nwrite \in 0 .. UINT - 1 /\ nwrite \in Nat /\ PIPESIZE \in Nat \ {0}
        BY SizeAssumption DEF TypeOK
    <2>1. k \in Index /\ Add(nwrite, 1) \in 0 .. UINT - 1
        BY <2>0, AddOne, ModDivision, Zenon DEF Index
    <2>2. data' = [data EXCEPT ![k] = c] /\ nwrite' = Add(nwrite, 1)
        BY Zenon, <1>7 DEF WriteByte
    <2> HIDE DEF k
    <2>3. data' \in [Index -> Byte \cup {NoByte}]
        BY Zenon, <2>1, <2>2 DEF TypeOK
    <2>a. left' = [left EXCEPT ![p] = @ - 1] /\ left[p] > 0
        BY Zenon, <1>7 DEF WriteByte
    <2>4. left' \in [Proc -> 0 .. MaxCount]
        BY <2>a, <1>m DEF TypeOK
    <2>5. UNCHANGED <<nread, readopen, writeopen, freed, lock, ends, killed, pc>>
        BY Zenon, <1>7 DEF WriteByte, procVars
    <2>6. QED
        BY Zenon, <2>1, <2>2, <2>3, <2>4, <2>5 DEF TypeOK
<1>8. ASSUME NEW p \in Proc, Sleep(p, "wsleeping", "wsleep") PROVE TypeOK'
    BY Zenon, <1>8, <1>m DEF Sleep, Go, pipeVars, procVars, TypeOK, Index, InWrite, InRead, InClose
<1>9. ASSUME NEW p \in Proc, Acquire(p, "racquire", "read") PROVE TypeOK'
    BY Zenon, <1>9, <1>m DEF Acquire, Go, pipeVars, procVars, TypeOK, Index, InWrite, InRead, InClose
<1>10. ASSUME NEW p \in Proc, ReadEmpty(p) PROVE TypeOK'
    BY ZenonT(30), <1>10, <1>m DEF ReadEmpty, Go, pipeVars, procVars, TypeOK, Index, InWrite, InRead, InClose
<1>11. ASSUME NEW p \in Proc, ReadReady(p) PROVE TypeOK'
    BY Zenon, <1>11, <1>m DEF ReadReady, Go, pipeVars, procVars, TypeOK, Index, InWrite, InRead, InClose
<1>12. ASSUME NEW p \in Proc, ReadByte(p) PROVE TypeOK'
    <2> DEFINE k == nread % PIPESIZE
    <2>0. nread \in 0 .. UINT - 1 /\ nread \in Nat /\ PIPESIZE \in Nat \ {0}
        BY SizeAssumption DEF TypeOK
    <2>1. k \in Index /\ Add(nread, 1) \in 0 .. UINT - 1
        BY <2>0, AddOne, ModDivision, Zenon DEF Index
    <2>2. data' = [data EXCEPT ![k] = NoByte] /\ nread' = Add(nread, 1)
        BY Zenon, <1>12 DEF ReadByte
    <2> HIDE DEF k
    <2>3. data' \in [Index -> Byte \cup {NoByte}]
        BY Zenon, <2>1, <2>2 DEF TypeOK
    <2>a. left[p] > 0 /\ (left' = [left EXCEPT ![p] = @ - 1] \/ left' = [left EXCEPT ![p] = 0])
        BY Zenon, <1>12 DEF ReadByte
    <2>4. left' \in [Proc -> 0 .. MaxCount]
        BY <2>a, <1>m DEF TypeOK
    <2>5. UNCHANGED <<nwrite, readopen, writeopen, freed, lock, ends, killed, pc>>
        BY Zenon, <1>12 DEF ReadByte, procVars
    <2>6. QED
        BY Zenon, <2>1, <2>2, <2>3, <2>4, <2>5 DEF TypeOK
<1>13. ASSUME NEW p \in Proc, ReadReturns(p) PROVE TypeOK'
    BY Zenon, <1>13, <1>m DEF ReadReturns, WakeWriters, pipeVars, procVars, TypeOK, Index, InWrite, InRead, InClose
<1>14. ASSUME NEW p \in Proc, Sleep(p, "rsleeping", "rsleep") PROVE TypeOK'
    BY Zenon, <1>14, <1>m DEF Sleep, Go, pipeVars, procVars, TypeOK, Index, InWrite, InRead, InClose
<1>15. ASSUME NEW p \in Proc, PipecloseRead(p) PROVE TypeOK'
    BY <1>15, <1>m DEF PipecloseRead, WakeWriters, pipeVars, procVars, TypeOK, Index, InWrite, InRead, InClose
<1>16. ASSUME NEW p \in Proc, PipecloseWrite(p) PROVE TypeOK'
    BY <1>16, <1>m DEF PipecloseWrite, WakeReaders, pipeVars, procVars, TypeOK, Index, InWrite, InRead, InClose
<1>17. ASSUME NEW p \in Proc, NEW q \in Proc \ {p}, Fork(p, q) PROVE TypeOK'
    BY Zenon, <1>17, <1>m DEF Fork, pipeVars, procVars, TypeOK, Index, InWrite, InRead, InClose
<1>18. ASSUME NEW p \in Proc, NEW e \in {"r", "w"}, Fileclose(p, e) PROVE TypeOK'
    BY Zenon, <1>18, <1>m DEF Fileclose, Go, pipeVars, procVars, TypeOK, Index, InWrite, InRead, InClose
<1>19. ASSUME NEW p \in Proc, Kill(p) PROVE TypeOK'
    BY <1>19, <1>m DEF Kill, pipeVars, procVars, TypeOK, Index, InWrite, InRead, InClose
<1>20. QED
    BY Zenon, <1>0, <1>1, <1>2, <1>3, <1>4, <1>5, <1>6, <1>7, <1>8, <1>9, <1>10, <1>11, <1>12, <1>13, <1>14, <1>15, <1>16, <1>17, <1>18, <1>19 DEF Next, WriteStep, ReadStep, Pipeclose

(* A byte goes in only when there is room for it.                          *)
LEMMA CountStep ==
    ASSUME TypeOK, CountInv, [Next]_vars
    PROVE  CountInv'
<1>1. ASSUME NEW p \in Proc, NEW c \in Byte, WriteByte(p, c) PROVE CountInv'
    <2>1. Distance(nwrite, nread) \in Nat /\ Distance(nwrite, nread) < PIPESIZE
        BY <1>1, FullIsDistance, SizeAssumption DEF TypeOK, CountInv, WriteByte, Distance
    <2>2. nread' = nread /\ nwrite' = Add(nwrite, 1)
        BY Zenon, <1>1 DEF WriteByte
    <2>3. Distance(Add(nwrite, 1), nread) = Distance(nwrite, nread) + 1
        BY Zenon, <2>1, CountAfterWrite DEF TypeOK
    <2>4. QED
        BY <2>1, <2>2, <2>3, SizeAssumption DEF CountInv, Distance
<1>2. ASSUME NEW p \in Proc, ReadByte(p) PROVE CountInv'
    <2>1. nread' = Add(nread, 1) /\ nwrite' = nwrite /\ nread # nwrite
        BY Zenon, <1>2 DEF ReadByte
    <2>2. Distance(nwrite, Add(nread, 1)) = Distance(nwrite, nread) - 1 /\ Distance(nwrite, nread) \in Nat
        BY Zenon, <2>1, CountAfterRead DEF TypeOK
    <2>3. QED
        BY <2>1, <2>2, SizeAssumption DEF CountInv, Distance
<1>3. CASE UNCHANGED <<nread, nwrite>>
    BY Zenon, <1>3 DEF CountInv, Distance
<1>4. QED
    BY <1>1, <1>2, <1>3 DEF Next, WriteStep, ReadStep, Pipeclose, vars, pipeVars, Write, Read, Acquire,
        WriteFails, WriteFull, WriteReturns, Sleep, ReadEmpty, ReadReady, ReadReturns, PipecloseRead,
        PipecloseWrite, Fork, Fileclose, Kill

-----------------------------------------------------------------------------
(* The n bytes of the ring d from position r on.                           *)
Ring(d, r, n) == [i \in 1 .. n |-> d[(r + i - 1) % PIPESIZE]]
Content == Byte \cup {NoByte}

LEMMA RingIsSeq ==
    ASSUME NEW d \in [Index -> Content], NEW r \in Nat, NEW n \in Nat
    PROVE  /\ Ring(d, r, n) \in Seq(Content) /\ Len(Ring(d, r, n)) = n
           /\ \A i \in 1 .. n : Ring(d, r, n)[i] = d[(r + i - 1) % PIPESIZE]
<1>1. ASSUME NEW i \in 1 .. n PROVE d[(r + i - 1) % PIPESIZE] \in Content
    <2>1. r + i - 1 \in Nat /\ PIPESIZE \in Nat \ {0}
        BY SizeAssumption
    <2>2. (r + i - 1) % PIPESIZE \in Index
        BY <2>1, ModDivision, Zenon DEF Index
    <2>3. QED
        BY <2>2, Zenon
<1> DEFINE f == Ring(d, r, n)
<1>2. f \in [1 .. n -> Content] /\ \A i \in 1 .. n : f[i] = d[(r + i - 1) % PIPESIZE]
    BY <1>1, Zenon DEF Ring
<1> HIDE DEF f
<1>3. f \in Seq(Content) /\ Len(f) = n
    BY <1>2
<1>4. QED
    BY <1>2, <1>3, Zenon DEF f

(* pipewrite(): a byte in the slot after the last one is a byte appended.  *)
LEMMA RingPut ==
    ASSUME NEW d \in [Index -> Content], NEW r \in Nat, NEW n \in Nat, n < PIPESIZE, NEW c \in Content
    PROVE  Ring([d EXCEPT ![(r + n) % PIPESIZE] = c], r, n + 1) = Append(Ring(d, r, n), c)
<1> DEFINE k == (r + n) % PIPESIZE  e == [d EXCEPT ![k] = c]
           s == Ring(d, r, n)  t == Ring(e, r, n + 1)
<1>0. PIPESIZE \in Nat \ {0} /\ r + n \in Nat /\ n + 1 \in Nat
    BY SizeAssumption
<1>1. k \in Index
    BY <1>0, ModDivision, Zenon DEF Index
<1>2. e \in [Index -> Content]
    BY Zenon
<1>3. /\ s \in Seq(Content) /\ Len(s) = n
      /\ \A i \in 1 .. n : s[i] = d[(r + i - 1) % PIPESIZE]
    BY RingIsSeq, Zenon
<1>4. /\ t \in Seq(Content) /\ Len(t) = n + 1
      /\ \A i \in 1 .. n + 1 : t[i] = e[(r + i - 1) % PIPESIZE]
    <2> HIDE DEF e
    <2>1. QED
        BY <1>0, <1>2, RingIsSeq, Zenon
<1>5. /\ Append(s, c) \in Seq(Content) /\ Len(Append(s, c)) = n + 1
      /\ \A i \in 1 .. n : Append(s, c)[i] = s[i]
      /\ Append(s, c)[n + 1] = c
    <2> HIDE DEF s
    <2>1. QED
        BY <1>3, AppendProperties
<1>6. ASSUME NEW i \in 1 .. n PROVE t[i] = s[i]
    <2>1. r + i - 1 \in Nat /\ r + i - 1 < r + n /\ r + n < (r + i - 1) + PIPESIZE /\ i \in 1 .. n + 1
        BY <1>0
    <2>2. (r + i - 1) % PIPESIZE # k
        BY <1>0, <2>1, ModDistinct, Zenon
    <2>3. (r + i - 1) % PIPESIZE \in Index
        BY <1>0, <2>1, ModDivision, Zenon DEF Index
    <2>4. e[(r + i - 1) % PIPESIZE] = d[(r + i - 1) % PIPESIZE]
        BY <2>2, <2>3, Zenon
    <2>5. QED
        BY <2>1, <2>4, <1>3, <1>4, Zenon
<1>7. t[n + 1] = c
    <2>1. n + 1 \in 1 .. n + 1 /\ r + (n + 1) - 1 = r + n
        BY <1>0
    <2>2. e[k] = c
        BY <1>1, Zenon
    <2>3. QED
        BY <2>1, <2>2, <1>4, Zenon
<1>a. s = Ring(d, r, n) /\ t = Ring([d EXCEPT ![(r + n) % PIPESIZE] = c], r, n + 1)
    BY Zenon
<1> HIDE DEF s, t
<1>8. ASSUME NEW i \in 1 .. n + 1 PROVE t[i] = Append(s, c)[i]
    <2>1. i \in 1 .. n \/ i = n + 1
        OBVIOUS
    <2>2. QED
        BY <2>1, <1>5, <1>6, <1>7, Zenon
<1>9. t = Append(s, c)
    <2>1. t \in Seq(Content) /\ Append(s, c) \in Seq(Content) /\ Len(t) = Len(Append(s, c))
        BY <1>4, <1>5, Zenon
    <2>2. \A i \in 1 .. Len(t) : t[i] = Append(s, c)[i]
        BY <1>4, <1>8, Zenon
    <2>3. QED
        BY <2>1, <2>2, SeqEqual, Zenon
<1>10. QED
    BY <1>9, <1>a, Zenon

(* piperead(): the byte at nread forgotten and nread moved on is the tail. *)
LEMMA RingGet ==
    ASSUME NEW d \in [Index -> Content], NEW r \in 0 .. UINT - 1,
           NEW n \in Nat \ {0}, n <= PIPESIZE
    PROVE  /\ Ring([d EXCEPT ![r % PIPESIZE] = NoByte], Add(r, 1), n - 1) = Tail(Ring(d, r, n))
           /\ Ring(d, r, n) # << >>
<1> DEFINE k == r % PIPESIZE  e == [d EXCEPT ![k] = NoByte]
           s == Ring(d, r, n)  t == Ring(e, Add(r, 1), n - 1)
<1>0. PIPESIZE \in Nat \ {0} /\ r \in Nat /\ Add(r, 1) \in Nat /\ n \in Nat /\ n - 1 \in Nat
    BY AddOne, SizeAssumption
<1>1. e \in [Index -> Content]
    BY Zenon DEF Content
<1>2. /\ s \in Seq(Content) /\ Len(s) = n
      /\ \A i \in 1 .. n : s[i] = d[(r + i - 1) % PIPESIZE]
    BY <1>0, RingIsSeq, Zenon
<1>3. /\ t \in Seq(Content) /\ Len(t) = n - 1
      /\ \A i \in 1 .. n - 1 : t[i] = e[(Add(r, 1) + i - 1) % PIPESIZE]
    <2> HIDE DEF e
    <2>1. QED
        BY <1>0, <1>1, RingIsSeq, Zenon
<1>a. s = Ring(d, r, n) /\ t = Ring([d EXCEPT ![r % PIPESIZE] = NoByte], Add(r, 1), n - 1)
    BY Zenon
<1>4. s # << >>
    <2> HIDE DEF s
    <2>1. QED
        BY Zenon, <1>0, <1>2, EmptySeq
<1>5. /\ Tail(s) \in Seq(Content) /\ Len(Tail(s)) = n - 1
      /\ \A i \in 1 .. n - 1 : Tail(s)[i] = s[i + 1]
    <2> HIDE DEF s
    <2>1. QED
        BY Zenon, <1>2, <1>4, HeadTailProperties
<1>6. ASSUME NEW i \in 1 .. n - 1 PROVE t[i] = s[i + 1]
    <2>1. /\ r + i \in Nat /\ r < r + i /\ r + i < r + PIPESIZE /\ i + 1 \in 1 .. n /\ i - 1 \in Nat
          /\ r + (i + 1) - 1 = r + i /\ Add(r, 1) + i - 1 = Add(r, 1) + (i - 1) /\ r + 1 + (i - 1) = r + i
        BY <1>0
    <2>2. (r + i) % PIPESIZE # k
        BY <1>0, <2>1, ModDistinct, Zenon
    <2>3. (r + i) % PIPESIZE \in Index
        BY <1>0, <2>1, ModDivision, Zenon DEF Index
    <2>4. e[(r + i) % PIPESIZE] = d[(r + i) % PIPESIZE]
        BY <2>2, <2>3, Zenon
    <2>5. (Add(r, 1) + (i - 1)) % PIPESIZE = (r + 1 + (i - 1)) % PIPESIZE
        BY <2>1, ReadSlot, Zenon
    <2>6. t[i] = e[(r + i) % PIPESIZE] /\ s[i + 1] = d[(r + i) % PIPESIZE]
        BY <2>1, <2>5, <1>2, <1>3, Zenon
    <2>7. QED
        BY <2>4, <2>6, Zenon
<1> HIDE DEF s, t
<1>7. t = Tail(s)
    <2>1. t \in Seq(Content) /\ Tail(s) \in Seq(Content) /\ Len(t) = Len(Tail(s))
        BY <1>3, <1>5, Zenon
    <2>2. \A i \in 1 .. Len(t) : t[i] = Tail(s)[i]
        BY <1>3, <1>5, <1>6, Zenon
    <2>3. QED
        BY <2>1, <2>2, SeqEqual, Zenon
<1>8. QED
    BY <1>4, <1>7, <1>a, Zenon

(* The invariants and the types together.                                  *)
PipeInv == TypeOK /\ LockInv /\ EndInv /\ SleepInv /\ CountInv

LEMMA InitPipe == Init => PipeInv
<1> SUFFICES ASSUME Init PROVE PipeInv
    BY Zenon
<1>1. TypeOK
    BY SizeAssumption DEF Init, TypeOK, Index
<1>2. LockInv
    BY Zenon, ProcAssumption DEF Init, LockInv, Held
<1>3. EndInv
    BY Zenon DEF Init, EndInv, InRead, InWrite
<1>4. SleepInv
    BY Zenon DEF Init, SleepInv
<1>5. CountInv
    BY SizeAssumption DEF Init, CountInv, Distance
<1>6. QED
    BY Zenon, <1>1, <1>2, <1>3, <1>4, <1>5 DEF PipeInv

LEMMA PipeAlways == Spec => []PipeInv
<1>1. PipeInv /\ [Next]_vars => PipeInv'
    BY Zenon, TypeStep, LockStep, EndStep, SleepStep, CountStep DEF PipeInv
<1>2. QED
    BY <1>1, InitPipe, PTL DEF Spec

(* Every state of the pipe is well formed; both counters stay below UINT.  *)
THEOREM TypeCorrect == Spec => []TypeOK
<1>1. PipeInv => TypeOK
    BY Zenon DEF PipeInv
<1>2. QED
    BY <1>1, PipeAlways, PTL

(* pipeclose() gives the page to kfree() only when no process has an end   *)
(* of the pipe and none is in piperead(), pipewrite() or pipeclose().      *)
THEOREM NeverUsedAfterFree == Spec => []NoUseAfterFree
<1>1. PipeInv => NoUseAfterFree
    <2> SUFFICES ASSUME PipeInv, freed = 1, NEW p \in Proc PROVE ends[p] = {} /\ pc[p] = "idle"
        BY Zenon DEF NoUseAfterFree
    <2>1. readopen = 0 /\ writeopen = 0
        BY Zenon DEF PipeInv, EndInv
    <2>2. "r" \notin ends[p] /\ "w" \notin ends[p]
        BY <2>1 DEF PipeInv, EndInv
    <2>3. ends[p] = {}
        BY Zenon, <2>2 DEF PipeInv, TypeOK
    <2>4. pc[p] \notin InRead /\ pc[p] \notin InWrite /\ pc[p] # "rclose" /\ pc[p] # "wclose"
        BY <2>1, <2>2 DEF PipeInv, EndInv
    <2>5. pc[p] = "idle"
        BY Zenon, <2>4 DEF PipeInv, TypeOK, InClose
    <2>6. QED
        BY Zenon, <2>3, <2>5
<1>2. QED
    BY <1>1, PipeAlways, PTL

(* No lost wakeup in sleep(&pi->nread) and sleep(&pi->nwrite), except the  *)
(* one of a killed writer.                                                 *)
THEOREM NoSleepWithoutReason == Spec => []SleepersHaveReason
<1>1. PipeInv => SleepersHaveReason
    <2> SUFFICES ASSUME PipeInv, lock = NoProc PROVE SleepersHaveReason
        BY Zenon DEF SleepersHaveReason
    <2>1. \A q \in Proc : pc[q] \notin Held
        BY Zenon, ProcAssumption DEF PipeInv, LockInv
    <2>2. \A q \in Proc : pc[q] # "copy" /\ pc[q] # "write"
        BY Zenon, <2>1 DEF Held
    <2>3. QED
        BY Zenon, <2>2 DEF PipeInv, SleepInv, SleepersHaveReason
<1>2. QED
    BY <1>1, PipeAlways, PTL

-----------------------------------------------------------------------------
(* Refinement: each step of the pipe is a step of ByteQueue or none.       *)
LEMMA QueueIsRing ==
    ASSUME TypeOK
    PROVE  Queue = Ring(data, nread, Distance(nwrite, nread))
<1>1. Count = Distance(nwrite, nread)
    BY CountIsDistance, Zenon DEF TypeOK, Count
<1>2. QED
    BY <1>1, Zenon DEF Queue, Ring

LEMMA QueueIsRingPrime ==
    ASSUME TypeOK'
    PROVE  Queue' = Ring(data', nread', Distance(nwrite', nread'))
<1>1. nread' \in 0 .. UINT - 1 /\ nwrite' \in 0 .. UINT - 1
    BY Zenon DEF TypeOK
<1>2. Count' = Distance(nwrite', nread')
    BY <1>1, CountIsDistance, Zenon DEF Count, Add
<1>3. QED
    BY <1>2, Zenon DEF Queue, Ring

LEMMA PutRefines ==
    ASSUME PipeInv, TypeOK', NEW p \in Proc, NEW c \in Byte, WriteByte(p, c)
    PROVE  BQ!Put(c)
<1> DEFINE n == Distance(nwrite, nread)
<1>1. nread \in 0 .. UINT - 1 /\ nwrite \in 0 .. UINT - 1 /\ data \in [Index -> Content]
    BY Zenon DEF PipeInv, TypeOK, Content
<1>2. n \in Nat
    BY <1>1, CountIsDistance, Zenon
<1>3. n # PIPESIZE
    BY <1>1, FullIsDistance, Zenon DEF WriteByte
<1>4. n < PIPESIZE
    <2> HIDE DEF n
    <2>1. n <= PIPESIZE
        BY Zenon DEF PipeInv, CountInv, n
    <2>2. QED
        BY <1>2, <1>3, <2>1, SizeAssumption
<1>5. nwrite % PIPESIZE = (nread + n) % PIPESIZE
    BY <1>1, WriteSlot, Zenon
<1>6. /\ data' = [data EXCEPT ![(nread + n) % PIPESIZE] = c] /\ nread' = nread /\ nwrite' = Add(nwrite, 1)
      /\ readopen = 1 /\ readopen' = readopen /\ writeopen' = writeopen
    BY <1>5, Zenon DEF WriteByte
<1>7. Distance(nwrite', nread') = n + 1
    BY <1>1, <1>4, <1>6, CountAfterWrite, Zenon
<1>8. nread \in Nat /\ c \in Content
    BY <1>1, SizeAssumption DEF Content
<1>9. Queue = Ring(data, nread, n)
    BY QueueIsRing, Zenon DEF PipeInv
<1>10. Queue' = Ring([data EXCEPT ![(nread + n) % PIPESIZE] = c], nread, n + 1)
    BY <1>6, <1>7, QueueIsRingPrime, Zenon
<1> HIDE DEF n
<1>11. Queue' = Append(Queue, c)
    BY <1>1, <1>2, <1>4, <1>8, <1>9, <1>10, RingPut, Zenon
<1>12. Len(Queue) = n
    BY <1>1, <1>2, <1>8, <1>9, RingIsSeq, Zenon
<1>13. Len(Queue) < PIPESIZE
    BY <1>4, <1>12, Zenon
<1>14. QED
    BY <1>6, <1>11, <1>13, Zenon DEF BQ!Put

LEMMA GetRefines ==
    ASSUME PipeInv, TypeOK', NEW p \in Proc, ReadByte(p)
    PROVE  BQ!Get
<1> DEFINE n == Distance(nwrite, nread)
<1>1. nread \in 0 .. UINT - 1 /\ nwrite \in 0 .. UINT - 1 /\ data \in [Index -> Content]
    BY Zenon DEF PipeInv, TypeOK, Content
<1>2. /\ data' = [data EXCEPT ![nread % PIPESIZE] = NoByte] /\ nread' = Add(nread, 1) /\ nwrite' = nwrite
      /\ nread # nwrite /\ readopen' = readopen /\ writeopen' = writeopen
    BY Zenon DEF ReadByte
<1>3. Distance(nwrite', nread') = n - 1 /\ n \in Nat \ {0}
    BY <1>1, <1>2, CountAfterRead, Zenon
<1>4. n <= PIPESIZE
    BY Zenon DEF PipeInv, CountInv
<1>5. Queue = Ring(data, nread, n)
    BY QueueIsRing, Zenon DEF PipeInv
<1>6. Queue' = Ring([data EXCEPT ![nread % PIPESIZE] = NoByte], Add(nread, 1), n - 1)
    BY <1>2, <1>3, QueueIsRingPrime, Zenon
<1> HIDE DEF n
<1>7. Queue' = Tail(Queue) /\ Queue # << >>
    BY <1>1, <1>3, <1>4, <1>5, <1>6, RingGet, Zenon
<1>8. QED
    BY <1>2, <1>7, Zenon DEF BQ!Get

LEMMA CloseRefines ==
    ASSUME PipeInv, NEW p \in Proc, Pipeclose(p)
    PROVE  BQ!CloseRead \/ BQ!CloseWrite
<1>1. data' = data /\ nread' = nread /\ nwrite' = nwrite
    BY Zenon DEF Pipeclose, PipecloseRead, PipecloseWrite
<1>2. Queue' = Queue
    BY <1>1, Zenon DEF Queue, Count, Add
<1>3. CASE PipecloseRead(p)
    <2>1. readopen = 1
        BY <1>3, Zenon DEF PipecloseRead, PipeInv, EndInv
    <2>2. QED
        BY <1>2, <1>3, <2>1, Zenon DEF PipecloseRead, BQ!CloseRead
<1>4. CASE PipecloseWrite(p)
    <2>1. writeopen = 1
        BY <1>4, Zenon DEF PipecloseWrite, PipeInv, EndInv
    <2>2. QED
        BY <1>2, <1>4, <2>1, Zenon DEF PipecloseWrite, BQ!CloseWrite
<1>5. QED
    BY <1>3, <1>4, Zenon DEF Pipeclose

LEMMA OthersStutter ==
    ASSUME UNCHANGED pipeVars
    PROVE  UNCHANGED BQ!vars
<1>1. data' = data /\ nread' = nread /\ nwrite' = nwrite /\ readopen' = readopen /\ writeopen' = writeopen
    BY Zenon DEF pipeVars
<1>2. Queue' = Queue
    BY <1>1, Zenon DEF Queue, Count, Add
<1>3. QED
    BY <1>1, <1>2, Zenon DEF BQ!vars

LEMMA InitRefines == Init => BQ!Init
<1> SUFFICES ASSUME Init PROVE BQ!Init
    BY Zenon
<1>1. nread = 0 /\ nwrite = 0 /\ readopen = 1 /\ writeopen = 1 /\ TypeOK
    BY InitPipe, Zenon DEF Init, PipeInv
<1>2. Distance(nwrite, nread) = 0
    BY <1>1 DEF Distance
<1>3. Queue = Ring(data, nread, 0)
    BY <1>1, <1>2, QueueIsRing, Zenon
<1>4. Queue = << >>
    BY <1>3 DEF Ring
<1>5. QED
    BY <1>1, <1>4, Zenon DEF BQ!Init

(* The ring of pipe.c with its wrapping counters is a bounded queue: the   *)
(* bytes come out in the order they went in, each once, at most PIPESIZE   *)
(* at a time, and each end is closed once.                                 *)
THEOREM RingIsQueue == Spec => RefinesByteQueue
<1>1. PipeInv /\ PipeInv' /\ [Next]_vars => [BQ!Next]_(BQ!vars)
    <2> SUFFICES ASSUME PipeInv, TypeOK', [Next]_vars PROVE [BQ!Next]_(BQ!vars)
        BY Zenon DEF PipeInv
    <2>1. ASSUME NEW p \in Proc, NEW c \in Byte, WriteByte(p, c) PROVE BQ!Next
        BY <2>1, PutRefines, Zenon DEF BQ!Next
    <2>2. ASSUME NEW p \in Proc, ReadByte(p) PROVE BQ!Next
        BY <2>2, GetRefines, Zenon DEF BQ!Next
    <2>3. ASSUME NEW p \in Proc, Pipeclose(p) PROVE BQ!Next
        BY <2>3, CloseRefines, Zenon DEF BQ!Next
    <2>4. CASE UNCHANGED pipeVars
        BY <2>4, OthersStutter, Zenon
    <2>5. ASSUME NEW p \in Proc, WriteStep(p) PROVE UNCHANGED pipeVars \/ \E c \in Byte : WriteByte(p, c)
        BY <2>5, Zenon DEF WriteStep, Acquire, WriteFails, WriteFull, WriteReturns, Sleep
    <2>6. ASSUME NEW p \in Proc, ReadStep(p) PROVE UNCHANGED pipeVars \/ ReadByte(p)
        BY <2>6, Zenon DEF ReadStep, Acquire, ReadEmpty, ReadReady, ReadReturns, Sleep
    <2>7. ASSUME NEW p \in Proc, NEW n \in 0 .. MaxCount, Write(p, n) \/ Read(p, n) PROVE UNCHANGED pipeVars
        BY <2>7, Zenon DEF Write, Read
    <2>8. ASSUME NEW p \in Proc, NEW q \in Proc \ {p}, Fork(p, q) PROVE UNCHANGED pipeVars
        BY <2>8, Zenon DEF Fork
    <2>9. ASSUME NEW p \in Proc, NEW e \in {"r", "w"}, Fileclose(p, e) PROVE UNCHANGED pipeVars
        BY <2>9, Zenon DEF Fileclose
    <2>10. ASSUME NEW p \in Proc, Kill(p) PROVE UNCHANGED pipeVars
        BY <2>10, Zenon DEF Kill
    <2>11. CASE UNCHANGED vars
        BY <2>4, <2>11, Zenon DEF vars
    <2>12. QED
        BY <2>1, <2>2, <2>3, <2>4, <2>5, <2>6, <2>7, <2>8, <2>9, <2>10, <2>11, Zenon DEF Next
<1>2. QED
    BY <1>1, InitRefines, PipeAlways, PTL DEF Spec, RefinesByteQueue, BQ!Spec

=============================================================================
