-------------------------------- MODULE Log --------------------------------
(***************************************************************************)
(* The write-ahead log of kernel/log.c: group commit of the file-system    *)
(* operations bracketed by begin_op()/end_op(), the disk writes of commit  *)
(* one by one, a crash between any two of them, and recovery at boot.      *)
(*                                                                         *)
(* The buffer cache (kernel/bio.c) appears as what the log needs of it: a  *)
(* copy of a block that may be recycled whenever it is neither locked nor  *)
(* pinned.  A block write is atomic.  The copies of the log's own blocks   *)
(* are written through and so agree with the disk.                         *)
(***************************************************************************)
EXTENDS Integers, Sequences, FiniteSets

CONSTANTS
    Proc,          \* kernel threads that run file-system operations
    InitProc,      \* the thread that runs fsinit() in forkret()
    Readers,       \* threads that also read blocks outside of a transaction
    Block,         \* home blocks (the blocks that are not part of the log)
    Value,         \* contents of a block
    NoProc, NoValue, NoBlock,
    MAXOPBLOCKS,   \* param.h
    OpBlocks,      \* distinct blocks that one operation really writes
    nlog           \* sb.nlog: blocks of the on-disk log, its header included

ASSUME ProcAssumption ==
    /\ IsFiniteSet(Proc) /\ InitProc \in Proc /\ NoProc \notin Proc
    /\ Readers \subseteq Proc
ASSUME ValueAssumption == NoValue \notin Value /\ NoBlock \notin Block
ASSUME SizeAssumption ==
    /\ MAXOPBLOCKS \in Nat \ {0} /\ OpBlocks \in 0 .. MAXOPBLOCKS
    /\ nlog \in Nat \ {0}

LOGSIZE == MAXOPBLOCKS * 3

VARIABLES
    disk,          \* home blocks on disk
    hdr,           \* log header on disk: block numbers of a committed transaction
    slot,          \* data blocks of the log on disk
    cache,         \* cached contents of a home block, or NoValue
    pin,           \* bpin() references of a home block's buffer
    held,          \* owner of the sleep lock of a home block's buffer
    lh,            \* log.lh: block numbers of the current transaction
    outstanding, committing,
    pc,            \* where each thread is
    buf,           \* the block whose buffer a thread uses
    wrote,         \* distinct blocks the thread's operation has logged
    tail,          \* loop counter of write_log() and install_trans()
    panicked

diskVars == <<disk, hdr, slot>>
cacheVars == <<cache, pin, held>>
logVars == <<lh, outstanding, committing>>
threadVars == <<pc, buf, wrote, tail>>
vars == <<diskVars, cacheVars, logVars, threadVars, panicked>>

InOp == {"inop", "use", "logged"}
InCommit == {"commit", "write_log", "write_head", "install", "erase", "end"}
InRecovery == {"read_head", "rinstall", "rerase"}
PC == {"idle", "read", "begin", "asleep", "down"} \cup InOp \cup InCommit
          \cup InRecovery

Entries(l) == {l[i] : i \in 1 .. Len(l)}

(* What bread(b) finds in the buffer: the cached copy, else the disk's.    *)
Content(b) == IF cache[b] = NoValue THEN disk[b] ELSE cache[b]

TypeOK ==
    /\ disk \in [Block -> Value] /\ slot \in [1 .. nlog - 1 -> Value]
    /\ hdr \in Seq(Block) /\ Len(hdr) <= nlog - 1
    /\ cache \in [Block -> Value \cup {NoValue}]
    /\ pin \in [Block -> Nat]
    /\ held \in [Block -> Proc \cup {NoProc}]
    /\ lh \in Seq(Block) /\ Len(lh) <= nlog - 1
    /\ outstanding \in Nat /\ committing \in 0 .. 1
    /\ pc \in [Proc -> PC]
    /\ buf \in [Proc -> Block \cup {NoBlock}]
    /\ wrote \in [Proc -> SUBSET Block]
    /\ tail \in [Proc -> Nat]
    /\ panicked \in 0 .. 1

-----------------------------------------------------------------------------
(* Power on, with memory as after bss clearing.  The first thread recovers *)
(* before any other thread exists.                                         *)
Boot ==
    /\ cache' = [b \in Block |-> NoValue]
    /\ pin' = [b \in Block |-> 0]
    /\ held' = [b \in Block |-> NoProc]
    /\ lh' = << >> /\ outstanding' = 0 /\ committing' = 0
    /\ pc' = [p \in Proc |-> IF p = InitProc THEN "read_head" ELSE "down"]
    /\ buf' = [p \in Proc |-> NoBlock]
    /\ wrote' = [p \in Proc |-> {}]
    /\ tail' = [p \in Proc |-> 0]
    /\ panicked' = 0

(* A disk made by mkfs: an empty log, any file system, and log blocks that *)
(* mkfs zeroed.                                                            *)
Init ==
    /\ disk \in [Block -> Value]
    /\ hdr = << >>
    /\ slot \in {[i \in 1 .. nlog - 1 |-> v] : v \in Value}
    /\ cache = [b \in Block |-> NoValue]
    /\ pin = [b \in Block |-> 0]
    /\ held = [b \in Block |-> NoProc]
    /\ lh = << >> /\ outstanding = 0 /\ committing = 0
    /\ pc = [p \in Proc |-> IF p = InitProc THEN "read_head" ELSE "down"]
    /\ buf = [p \in Proc |-> NoBlock]
    /\ wrote = [p \in Proc |-> {}]
    /\ tail = [p \in Proc |-> 0]
    /\ panicked = 0

-----------------------------------------------------------------------------
(* wakeup(&log), called with log.lock held: every thread asleep in         *)
(* begin_op() gets to test its condition again.                            *)
Wakeup(f) == [p \in Proc |-> IF f[p] = "asleep" THEN "begin" ELSE f[p]]

Go(p, l) == pc' = [pc EXCEPT ![p] = l]

(* Mutant: space is reserved only for the operations already admitted.     *)
BeginOpOffByOne(p) ==
    /\ pc[p] \in {"idle", "begin"}
    /\ IF committing = 1 \/ Len(lh) + outstanding * MAXOPBLOCKS > LOGSIZE
         THEN Go(p, "asleep") /\ UNCHANGED outstanding
         ELSE Go(p, "inop") /\ outstanding' = outstanding + 1
    /\ UNCHANGED <<diskVars, cacheVars, lh, committing, buf, wrote, tail, panicked>>

(* begin_op(): one critical section of log.lock, which sleep() gives up.   *)
BeginOp(p) ==
    /\ pc[p] \in {"idle", "begin"}
    /\ IF committing = 1 \/ Len(lh) + (outstanding + 1) * MAXOPBLOCKS > LOGSIZE
         THEN /\ Go(p, "asleep")
              /\ UNCHANGED outstanding
         ELSE /\ Go(p, "inop")
              /\ outstanding' = outstanding + 1
    /\ UNCHANGED <<diskVars, cacheVars, lh, committing, buf, wrote, tail, panicked>>

(* bread(): lock the buffer, reading the block if it is not cached.  From  *)
(* idle it is a read outside of a transaction (fileread, filestat).        *)
Bread(p, b) ==
    /\ \/ pc[p] = "inop" /\ Go(p, "use")
       \/ pc[p] = "idle" /\ p \in Readers /\ Go(p, "read")
    /\ held[b] = NoProc
    /\ held' = [held EXCEPT ![b] = p]
    /\ cache' = [cache EXCEPT ![b] = Content(b)]
    /\ buf' = [buf EXCEPT ![p] = b]
    /\ UNCHANGED <<diskVars, pin, logVars, wrote, tail, panicked>>

(* Mutant: bpin() also for a block that is absorbed.                       *)
LogWritePinsAlways(p, v) ==
    /\ pc[p] = "use"
    /\ Cardinality(wrote[p] \cup {buf[p]}) <= OpBlocks
    /\ cache' = [cache EXCEPT ![buf[p]] = v]
    /\ pin' = [pin EXCEPT ![buf[p]] = @ + 1]
    /\ lh' = IF buf[p] \in Entries(lh) THEN lh ELSE Append(lh, buf[p])
    /\ wrote' = [wrote EXCEPT ![p] = @ \cup {buf[p]}]
    /\ Go(p, "logged")
    /\ UNCHANGED <<diskVars, held, outstanding, committing, buf, tail, panicked>>

(* The caller changes the block's data and calls log_write(): absorption   *)
(* of a block that the transaction already has, else a new entry and a     *)
(* pin.  The bound on the distinct blocks of an operation is the file      *)
(* system's part of the contract (filewrite() splits its writes for it).   *)
LogWrite(p, v) ==
    /\ pc[p] = "use"
    /\ Cardinality(wrote[p] \cup {buf[p]}) <= OpBlocks
    /\ cache' = [cache EXCEPT ![buf[p]] = v]
    /\ IF Len(lh) >= LOGSIZE \/ Len(lh) >= nlog - 1 \/ outstanding < 1
         THEN /\ panicked' = 1
              /\ UNCHANGED <<pin, lh, pc, wrote>>
         ELSE /\ IF buf[p] \in Entries(lh)
                   THEN UNCHANGED <<pin, lh>>
                   ELSE /\ pin' = [pin EXCEPT ![buf[p]] = @ + 1]
                        /\ lh' = Append(lh, buf[p])
              /\ wrote' = [wrote EXCEPT ![p] = @ \cup {buf[p]}]
              /\ Go(p, "logged")
              /\ UNCHANGED panicked
    /\ UNCHANGED <<diskVars, held, outstanding, committing, buf, tail>>

Brelse(p) ==
    /\ pc[p] \in {"use", "logged", "read"}
    /\ held' = [held EXCEPT ![buf[p]] = NoProc]
    /\ buf' = [buf EXCEPT ![p] = NoBlock]
    /\ Go(p, IF pc[p] = "read" THEN "idle" ELSE "inop")
    /\ UNCHANGED <<diskVars, cache, pin, logVars, wrote, tail, panicked>>

(* bget() of some other block takes a buffer that nobody references.       *)
Recycle(b) ==
    /\ cache[b] # NoValue /\ pin[b] = 0 /\ held[b] = NoProc
    /\ cache' = [cache EXCEPT ![b] = NoValue]
    /\ UNCHANGED <<diskVars, pin, held, logVars, threadVars, panicked>>

(* end_op(), first critical section.                                       *)
EndOp(p) ==
    /\ pc[p] = "inop"
    /\ outstanding' = outstanding - 1
    /\ panicked' = committing
    /\ \/ committing = 1 /\ UNCHANGED <<committing, pc, wrote>>
       \/ /\ committing = 0
          /\ wrote' = [wrote EXCEPT ![p] = {}]
          /\ IF outstanding' = 0
               THEN committing' = 1 /\ Go(p, "commit")
               ELSE /\ pc' = [Wakeup(pc) EXCEPT ![p] = "idle"]
                    /\ UNCHANGED committing
    /\ UNCHANGED <<diskVars, cacheVars, lh, buf, tail>>

-----------------------------------------------------------------------------
(* Mutant: a transaction of one block is not committed.                    *)
CommitOffByOne(p) ==
    /\ pc[p] = "commit"
    /\ Go(p, IF Len(lh) > 1 THEN "write_log" ELSE "end")
    /\ tail' = [tail EXCEPT ![p] = 0]
    /\ UNCHANGED <<diskVars, cacheVars, logVars, buf, wrote, panicked>>

Commit(p) ==
    /\ pc[p] = "commit"
    /\ Go(p, IF lh # << >> THEN "write_log" ELSE "end")
    /\ tail' = [tail EXCEPT ![p] = 0]
    /\ UNCHANGED <<diskVars, cacheVars, logVars, buf, wrote, panicked>>

(* One round of a loop over log.lh, at control point l; then go to m.      *)
Round(p, l, m) ==
    /\ pc[p] = l
    /\ held[lh[tail[p] + 1]] = NoProc
    /\ tail' = [tail EXCEPT ![p] = IF @ + 1 = Len(lh) THEN 0 ELSE @ + 1]
    /\ Go(p, IF tail[p] + 1 = Len(lh) THEN m ELSE l)

(* write_log(): copy one block from the cache to the log.                  *)
WriteLog(p) ==
    /\ Round(p, "write_log", "write_head")
    /\ LET b == lh[tail[p] + 1] IN
         /\ slot' = [slot EXCEPT ![tail[p] + 1] = Content(b)]
         /\ cache' = [cache EXCEPT ![b] = Content(b)]
    /\ UNCHANGED <<disk, hdr, pin, held, logVars, buf, wrote, panicked>>

(* write_head(): the real commit.                                          *)
WriteHead(p) ==
    /\ pc[p] = "write_head"
    /\ hdr' = lh
    /\ Go(p, "install")
    /\ UNCHANGED <<disk, slot, cacheVars, logVars, buf, wrote, tail, panicked>>

(* install_trans(): copy one block from the log to its home location.      *)
InstallTrans(p) ==
    /\ \/ Round(p, "install", "erase")
       \/ Round(p, "rinstall", "rerase")
    /\ LET b == lh[tail[p] + 1]
           v == slot[tail[p] + 1] IN
         /\ disk' = [disk EXCEPT ![b] = v]
         /\ cache' = [cache EXCEPT ![b] = v]
         /\ pin' = [pin EXCEPT ![b] = IF pc[p] = "install" THEN @ - 1 ELSE @]
    /\ UNCHANGED <<hdr, slot, held, logVars, buf, wrote, panicked>>

(* log.lh.n = 0; write_head().                                             *)
Erase(p) ==
    /\ pc[p] = "erase"
    /\ lh' = << >> /\ hdr' = << >>
    /\ Go(p, "end")
    /\ UNCHANGED <<disk, slot, cacheVars, outstanding, committing, buf, wrote, tail,
                   panicked>>

(* Mutant: no wakeup() after the commit.                                   *)
EndCommitSilently(p) ==
    /\ pc[p] = "end"
    /\ committing' = 0
    /\ Go(p, "idle")
    /\ UNCHANGED <<diskVars, cacheVars, lh, outstanding, buf, wrote, tail, panicked>>

(* end_op(), second critical section.                                      *)
EndCommit(p) ==
    /\ pc[p] = "end"
    /\ committing' = 0
    /\ pc' = [Wakeup(pc) EXCEPT ![p] = "idle"]
    /\ UNCHANGED <<diskVars, cacheVars, lh, outstanding, buf, wrote, tail, panicked>>

-----------------------------------------------------------------------------
(* Mutant: the log is cleared before it is installed.                      *)
ReadHeadThenClear(p) ==
    /\ pc[p] = "read_head"
    /\ lh' = hdr
    /\ Go(p, "rerase")
    /\ UNCHANGED <<diskVars, cacheVars, outstanding, committing, buf, wrote, tail,
                   panicked>>

(* recover_from_log()                                                      *)
ReadHead(p) ==
    /\ pc[p] = "read_head"
    /\ lh' = hdr
    /\ Go(p, IF hdr # << >> THEN "rinstall" ELSE "rerase")
    /\ UNCHANGED <<diskVars, cacheVars, outstanding, committing, buf, wrote, tail,
                   panicked>>

RecoverErase(p) ==
    /\ pc[p] = "rerase"
    /\ lh' = << >> /\ hdr' = << >>
    /\ pc' = [q \in Proc |-> "idle"]
    /\ UNCHANGED <<disk, slot, cacheVars, outstanding, committing, buf, wrote, tail,
                   panicked>>

Crash == Boot /\ UNCHANGED diskVars

CommitStep(p) ==
    \/ Commit(p) \/ WriteLog(p) \/ WriteHead(p)
    \/ InstallTrans(p) \/ Erase(p) \/ EndCommit(p)

OpStep(p) ==
    \/ BeginOp(p) \/ Brelse(p) \/ EndOp(p)
    \/ \E b \in Block : Bread(p, b)
    \/ \E v \in Value : LogWrite(p, v)

Next ==
    \/ /\ panicked = 0
       /\ \/ \E p \in Proc : OpStep(p) \/ CommitStep(p) \/ ReadHead(p) \/ RecoverErase(p)
          \/ \E b \in Block : Recycle(b)
    \/ Crash

Spec == Init /\ [][Next]_vars

(* The scheduler runs every runnable thread, a disk request completes, and *)
(* an operation uses finitely many buffers before its end_op() (strong     *)
(* fairness, as each use of a buffer disables EndOp for a while).          *)
Fairness ==
    \A p \in Proc :
        /\ WF_vars(panicked = 0 /\ (CommitStep(p) \/ ReadHead(p) \/ RecoverErase(p)))
        /\ WF_vars(panicked = 0 /\ pc[p] = "begin" /\ BeginOp(p))
        /\ WF_vars(panicked = 0 /\ Brelse(p))
        /\ SF_vars(panicked = 0 /\ EndOp(p))

LiveSpec == Spec /\ Fairness

-----------------------------------------------------------------------------
Recovering == \E p \in Proc : pc[p] \in InRecovery

(* The home blocks once the committed transaction, if any, is installed.   *)
Durable ==
    [b \in Block |->
        IF b \in Entries(hdr)
          THEN slot[CHOOSE i \in 1 .. Len(hdr) : hdr[i] = b]
          ELSE disk[b]]

View == IF Recovering THEN Durable ELSE [b \in Block |-> Content(b)]

Active == {p \in Proc : pc[p] \in InOp}

AD == INSTANCE AtomicDisk WITH view <- View, durable <- Durable, active <- Active

(* The log implements AtomicDisk: commit() makes durable exactly what all  *)
(* ended operations wrote, in one step, and only while none is active; a   *)
(* crash at any point of commit() or of an earlier recovery loses nothing  *)
(* durable and resurrects nothing that was not (log.c:10-16).              *)
RefinesAtomicDisk == AD!Spec

(* When the last end_op() has returned, everything written is on disk.     *)
QuiescentDurable ==
    outstanding = 0 /\ committing = 0 /\ ~Recovering => View = Durable

(* bpin() in log_write() and bunpin() in install_trans() balance: a block  *)
(* is pinned once while it is logged and not installed, and never else.    *)
Installed(i) ==
    \E p \in Proc : \/ pc[p] = "install" /\ i <= tail[p]
                    \/ pc[p] \in InRecovery \cup {"erase"}
Pending(b) == \E i \in 1 .. Len(lh) : lh[i] = b /\ ~Installed(i)
PinBalance == \A b \in Block : pin[b] = IF Pending(b) THEN 1 ELSE 0

(* begin_op()'s reservation holds although operations overlap, absorb one  *)
(* another's blocks and commit as a group: what the transaction has and    *)
(* what the admitted operations may still add to it fits in LOGSIZE, with  *)
(* the surplus of two reservations to spare.  log_write() needs a spare    *)
(* block, as it tests for space before it looks for a block to absorb.     *)
Owed == {x \in Proc \X (1 .. OpBlocks) : pc[x[1]] \in InOp /\ x[2] > Cardinality(wrote[x[1]])}
SpaceReserved ==
    outstanding # 0 => Len(lh) + Cardinality(Owed) <= LOGSIZE - 2 * (MAXOPBLOCKS - OpBlocks)

(* None of the panics of log.c is reached: not "too big a transaction", as *)
(* begin_op() reserves space for each operation it admits, not             *)
(* "log_write outside of trans", and not "log.committing" in end_op().     *)
NoPanic == panicked = 0

(* A thread in begin_op() returns from it, or the machine crashes, if from *)
(* some time on no new operation starts: end_op() never forgets a sleeper. *)
BeginOpReturns ==
    <>[][\A p \in Proc : pc[p] = "idle" => pc'[p] # "inop" /\ pc'[p] # "asleep"]_vars
        => \A p \in Proc : pc[p] \in {"asleep", "begin"} ~> pc[p] = "inop" \/ Recovering
=============================================================================
