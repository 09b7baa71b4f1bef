-------------------------------- MODULE Pipe --------------------------------
(***************************************************************************)
(* A pipe (kernel/pipe.c) between processes that share its two files       *)
(* (kernel/file.c): read, write, close, fork and kill, with the ring of    *)
(* bytes and its wrapping counters.  pi->lock is held from acquire() to    *)
(* release() or sleep(); the loops take one step per byte.                 *)
(***************************************************************************)
EXTENDS Integers, Sequences, FiniteSets

CONSTANTS
    Proc, NoProc, Byte, NoByte,
    Killable,   \* the processes that somebody may kill()
    PIPESIZE,
    UINT,       \* nread and nwrite count modulo this (2^32 in the code)
    MaxCount    \* the largest count of a read() or write() in the model
ASSUME SizeAssumption ==
    /\ PIPESIZE \in Nat \ {0} /\ UINT \in Nat /\ UINT > PIPESIZE /\ UINT % PIPESIZE = 0
    /\ MaxCount \in Nat
ASSUME ProcAssumption == NoProc \notin Proc /\ Killable \subseteq Proc

Index == 0 .. PIPESIZE - 1

VARIABLES
    data,           \* the ring; a byte that has been read is forgotten (NoByte)
    nread, nwrite, readopen, writeopen, lock,
    freed,          \* the page of the pipe has been given back to kfree()
    ends,           \* the descriptors of each process: "r", "w"
    killed,
    pc, left        \* bytes still to transfer

pipeVars == <<data, nread, nwrite, readopen, writeopen, freed>>
procVars == <<ends, killed>>
vars == <<pipeVars, lock, procVars, pc, left>>

InWrite == {"wacquire", "write", "wsleeping", "wsleep"}
InRead == {"racquire", "read", "rsleeping", "rsleep", "copy"}
InClose == {"rclose", "wclose"}

TypeOK ==
    /\ data \in [Index -> Byte \cup {NoByte}]
    /\ nread \in 0 .. UINT - 1 /\ nwrite \in 0 .. UINT - 1
    /\ readopen \in 0 .. 1 /\ writeopen \in 0 .. 1 /\ freed \in 0 .. 1
    /\ lock \in Proc \cup {NoProc}
    /\ ends \in [Proc -> SUBSET {"r", "w"}]
    /\ killed \in [Proc -> 0 .. 1]
    /\ pc \in [Proc -> {"idle"} \cup InWrite \cup InRead \cup InClose]
    /\ left \in [Proc -> 0 .. MaxCount]

(* After pipealloc() and sys_pipe(): one process has both ends.            *)
Init ==
    /\ data = [i \in Index |-> NoByte]
    /\ nread = 0 /\ nwrite = 0
    /\ readopen = 1 /\ writeopen = 1 /\ freed = 0
    /\ lock = NoProc
    /\ \E p \in Proc : ends = [q \in Proc |-> IF q = p THEN {"r", "w"} ELSE {}]
    /\ killed = [p \in Proc |-> 0]
    /\ pc = [p \in Proc |-> "idle"]
    /\ left = [p \in Proc |-> 0]

Go(p, l) == pc' = [pc EXCEPT ![p] = l]
Add(i, k) == (i + k) % UINT
Count == Add(nwrite, UINT - nread)

(* acquire(&pi->lock); sleep() ends with it.                               *)
Acquire(p, l, m) ==
    /\ pc[p] = l /\ lock = NoProc
    /\ lock' = p
    /\ Go(p, m)
    /\ UNCHANGED <<pipeVars, procVars, left>>

(* wakeup(&pi->nread) and wakeup(&pi->nwrite) while p moves to l.          *)
WakeReaders(p, l) ==
    pc' = [q \in Proc |-> IF q = p THEN l ELSE IF pc[q] = "rsleep" THEN "racquire" ELSE pc[q]]
WakeWriters(p, l) ==
    pc' = [q \in Proc |-> IF q = p THEN l ELSE IF pc[q] = "wsleep" THEN "wacquire" ELSE pc[q]]

-----------------------------------------------------------------------------
(* pipewrite().                                                            *)
Write(p, n) ==
    /\ pc[p] = "idle" /\ "w" \in ends[p] /\ killed[p] = 0
    /\ left' = [left EXCEPT ![p] = n]
    /\ Go(p, "wacquire")
    /\ UNCHANGED <<pipeVars, lock, procVars>>

WriteFails(p) ==
    /\ pc[p] = "write" /\ left[p] > 0
    /\ readopen = 0 \/ killed[p] = 1
    /\ lock' = NoProc
    /\ left' = [left EXCEPT ![p] = 0]
    /\ Go(p, "idle")
    /\ UNCHANGED <<pipeVars, procVars>>

(* The pipe is full; killed() has been checked before.                     *)
WriteFull(p) ==
    /\ pc[p] = "write" /\ left[p] > 0
    /\ readopen = 1 /\ killed[p] = 0
    /\ nwrite = Add(nread, PIPESIZE)
    /\ WakeReaders(p, "wsleeping")
    /\ UNCHANGED <<pipeVars, lock, procVars, left>>

(* Mutant: nwrite does not wrap.                                           *)
WriteByteNoWrap(p, c) ==
    /\ pc[p] = "write" /\ left[p] > 0
    /\ readopen = 1 /\ killed[p] = 0
    /\ nwrite # Add(nread, PIPESIZE)
    /\ data' = [data EXCEPT ![nwrite % PIPESIZE] = c]
    /\ nwrite' = nwrite + 1
    /\ left' = [left EXCEPT ![p] = @ - 1]
    /\ UNCHANGED <<nread, readopen, writeopen, freed, lock, procVars, pc>>

(* Mutant: the pipe is not checked for being full.                         *)
WriteByteOverrun(p, c) ==
    /\ pc[p] = "write" /\ left[p] > 0
    /\ readopen = 1 /\ killed[p] = 0
    /\ data' = [data EXCEPT ![nwrite % PIPESIZE] = c]
    /\ nwrite' = Add(nwrite, 1)
    /\ left' = [left EXCEPT ![p] = @ - 1]
    /\ UNCHANGED <<nread, readopen, writeopen, freed, lock, procVars, pc>>

WriteByte(p, c) ==
    /\ pc[p] = "write" /\ left[p] > 0
    /\ readopen = 1 /\ killed[p] = 0
    /\ nwrite # Add(nread, PIPESIZE)
    /\ data' = [data EXCEPT ![nwrite % PIPESIZE] = c]
    /\ nwrite' = Add(nwrite, 1)
    /\ left' = [left EXCEPT ![p] = @ - 1]
    /\ UNCHANGED <<nread, readopen, writeopen, freed, lock, procVars, pc>>

(* All is written, or copyin() fails.                                      *)
WriteReturns(p) ==
    /\ pc[p] = "write"
    /\ left[p] > 0 => readopen = 1 /\ killed[p] = 0 /\ nwrite # Add(nread, PIPESIZE)
    /\ lock' = NoProc
    /\ left' = [left EXCEPT ![p] = 0]
    /\ WakeReaders(p, "idle")
    /\ UNCHANGED <<pipeVars, procVars>>

(* sleep(), from the place l with the lock held.                           *)
Sleep(p, l, m) ==
    /\ pc[p] = l
    /\ lock' = NoProc
    /\ Go(p, m)
    /\ UNCHANGED <<pipeVars, procVars, left>>

-----------------------------------------------------------------------------
(* piperead().                                                             *)
Read(p, n) ==
    /\ pc[p] = "idle" /\ "r" \in ends[p] /\ killed[p] = 0
    /\ left' = [left EXCEPT ![p] = n]
    /\ Go(p, "racquire")
    /\ UNCHANGED <<pipeVars, lock, procVars>>

ReadEmpty(p) ==
    /\ pc[p] = "read" /\ nread = nwrite /\ writeopen = 1
    /\ \/ /\ killed[p] = 1
          /\ lock' = NoProc
          /\ left' = [left EXCEPT ![p] = 0]
          /\ Go(p, "idle")
       \/ /\ killed[p] = 0
          /\ Go(p, "rsleeping")
          /\ UNCHANGED <<lock, left>>
    /\ UNCHANGED <<pipeVars, procVars>>

ReadReady(p) ==
    /\ pc[p] = "read" /\ (nread # nwrite \/ writeopen = 0)
    /\ Go(p, "copy")
    /\ UNCHANGED <<pipeVars, lock, procVars, left>>

(* A byte leaves the ring; when copyout() fails the loop ends.             *)
ReadByte(p) ==
    /\ pc[p] = "copy" /\ left[p] > 0 /\ nread # nwrite
    /\ data' = [data EXCEPT ![nread % PIPESIZE] = NoByte]
    /\ nread' = Add(nread, 1)
    /\ \/ left' = [left EXCEPT ![p] = @ - 1]
       \/ left' = [left EXCEPT ![p] = 0]
    /\ UNCHANGED <<nwrite, readopen, writeopen, freed, lock, procVars, pc>>

(* Mutant: wakeup(&pi->nwrite) is missing.                                 *)
ReadReturnsSilent(p) ==
    /\ pc[p] = "copy" /\ (left[p] = 0 \/ nread = nwrite)
    /\ lock' = NoProc
    /\ left' = [left EXCEPT ![p] = 0]
    /\ Go(p, "idle")
    /\ UNCHANGED <<pipeVars, procVars>>

ReadReturns(p) ==
    /\ pc[p] = "copy" /\ (left[p] = 0 \/ nread = nwrite)
    /\ lock' = NoProc
    /\ left' = [left EXCEPT ![p] = 0]
    /\ WakeWriters(p, "idle")
    /\ UNCHANGED <<pipeVars, procVars>>

-----------------------------------------------------------------------------
(* fork() of a new process q: filedup() of every descriptor.  The members  *)
(* of Proc are processes, not slots of the process table: a slot is used   *)
(* again with killed cleared, a process that was killed is not.            *)
Fork(p, q) ==
    /\ pc[p] = "idle" /\ killed[p] = 0 /\ ends[p] # {}
    /\ pc[q] = "idle" /\ ends[q] = {} /\ killed[q] = 0
    /\ ends' = [ends EXCEPT ![q] = ends[p]]
    /\ UNCHANGED <<pipeVars, lock, killed, pc, left>>

(* Mutant: every close() goes on to pipeclose().                           *)
FilecloseAlways(p, e) ==
    /\ pc[p] = "idle" /\ e \in ends[p]
    /\ ends' = [ends EXCEPT ![p] = @ \ {e}]
    /\ Go(p, IF e = "r" THEN "rclose" ELSE "wclose")
    /\ UNCHANGED <<pipeVars, lock, killed, left>>

(* fileclose(), by close() or exit(): f->ref is the number of processes    *)
(* that have the end; the last one goes on to pipeclose().                 *)
Fileclose(p, e) ==
    /\ pc[p] = "idle" /\ e \in ends[p]
    /\ ends' = [ends EXCEPT ![p] = @ \ {e}]
    /\ IF \E q \in Proc \ {p} : e \in ends[q] THEN UNCHANGED pc
       ELSE Go(p, IF e = "r" THEN "rclose" ELSE "wclose")
    /\ UNCHANGED <<pipeVars, lock, killed, left>>

(* Mutant: the writers are not woken.                                      *)
PipecloseReadSilent(p) ==
    /\ pc[p] = "rclose" /\ lock = NoProc
    /\ readopen' = 0
    /\ freed' = 1 - writeopen
    /\ Go(p, "idle")
    /\ UNCHANGED <<data, nread, nwrite, writeopen, lock, procVars, left>>

PipecloseRead(p) ==
    /\ pc[p] = "rclose" /\ lock = NoProc
    /\ readopen' = 0
    /\ freed' = 1 - writeopen
    /\ WakeWriters(p, "idle")
    /\ UNCHANGED <<data, nread, nwrite, writeopen, lock, procVars, left>>

(* Mutant: the readers are not woken.                                      *)
PipecloseWriteSilent(p) ==
    /\ pc[p] = "wclose" /\ lock = NoProc
    /\ writeopen' = 0
    /\ freed' = 1 - readopen
    /\ Go(p, "idle")
    /\ UNCHANGED <<data, nread, nwrite, readopen, lock, procVars, left>>

PipecloseWrite(p) ==
    /\ pc[p] = "wclose" /\ lock = NoProc
    /\ writeopen' = 0
    /\ freed' = 1 - readopen
    /\ WakeReaders(p, "idle")
    /\ UNCHANGED <<data, nread, nwrite, readopen, lock, procVars, left>>

(* kill() wakes the process if it sleeps.                                  *)
Kill(p) ==
    /\ p \in Killable /\ ends[p] # {} /\ killed[p] = 0
    /\ killed' = [killed EXCEPT ![p] = 1]
    /\ pc' = [pc EXCEPT ![p] = IF @ = "rsleep" THEN "racquire"
                               ELSE IF @ = "wsleep" THEN "wacquire" ELSE @]
    /\ UNCHANGED <<pipeVars, lock, ends, left>>

WriteStep(p) ==
    \/ Acquire(p, "wacquire", "write")
    \/ WriteFails(p) \/ WriteFull(p) \/ WriteReturns(p) \/ (\E c \in Byte : WriteByte(p, c))
    \/ Sleep(p, "wsleeping", "wsleep")
ReadStep(p) ==
    \/ Acquire(p, "racquire", "read")
    \/ ReadEmpty(p) \/ ReadReady(p) \/ ReadByte(p) \/ ReadReturns(p)
    \/ Sleep(p, "rsleeping", "rsleep")
Pipeclose(p) == PipecloseRead(p) \/ PipecloseWrite(p)

Next ==
    \E p \in Proc :
        \/ \E n \in 0 .. MaxCount : Write(p, n) \/ Read(p, n)
        \/ WriteStep(p) \/ ReadStep(p) \/ Pipeclose(p)
        \/ \E q \in Proc \ {p} : Fork(p, q)
        \/ \E e \in {"r", "w"} : Fileclose(p, e)
        \/ Kill(p)

Spec == Init /\ [][Next]_vars

-----------------------------------------------------------------------------
(* The bytes come out in the order they went in, none twice, at most       *)
(* PIPESIZE at a time and none for nobody to read, also when the counters  *)
(* wrap.                                                                   *)
Queue == [i \in 1 .. Count |-> data[(nread + i - 1) % PIPESIZE]]
BQ == INSTANCE ByteQueue
        WITH queue <- Queue, ropen <- readopen, wopen <- writeopen, Size <- PIPESIZE
RefinesByteQueue == BQ!Spec

(* No lost wakeup: with the lock free, a writer sleeps only in front of a  *)
(* full pipe and, unless somebody was killed, a reader only in front of an *)
(* empty one.                                                              *)
SleepersHaveReason ==
    lock = NoProc => \A p \in Proc :
        /\ pc[p] = "wsleep" => nwrite = Add(nread, PIPESIZE)
        /\ pc[p] = "rsleep" => nread = nwrite \/ \E q \in Proc : killed[q] = 1

(* The same for readers without the exception ("pipe-empty" in piperead()).*)
ReadersSleepOnEmpty ==
    lock = NoProc => \A p \in Proc : pc[p] = "rsleep" => nread = nwrite

(* The page is freed when both ends are closed for good and nobody is in   *)
(* the pipe.                                                               *)
NoUseAfterFree ==
    freed = 1 => \A p \in Proc : ends[p] = {} /\ pc[p] = "idle"

(* Fairness: a process in the kernel gets on, and gets the lock in the end.*)
Fairness ==
    \A p \in Proc : SF_vars(WriteStep(p)) /\ SF_vars(ReadStep(p)) /\ WF_vars(Pipeclose(p))
LiveSpec == Spec /\ Fairness

(* When the last writer has gone every read() returns, and when the last   *)
(* reader has gone every write() does.                                     *)
ReadersSeeEOF == \A p \in Proc : (writeopen = 0 /\ pc[p] \in InRead) ~> pc[p] \notin InRead
WritersSeeEPIPE == \A p \in Proc : (readopen = 0 /\ pc[p] \in InWrite) ~> pc[p] \notin InWrite
=============================================================================
