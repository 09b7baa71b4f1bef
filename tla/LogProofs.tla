----------------------------- MODULE LogProofs ------------------------------
(***************************************************************************)
(* The inductive invariant of the write-ahead log, and that the steps of   *)
(* file-system operations and of commit() keep it: of what AtomicDisk can  *)
(* see, only write_head() changes what is durable.                         *)
(***************************************************************************)
EXTENDS Log, FiniteSetTheorems, TLAPS

Distinct(l) == \A i, j \in 1 .. Len(l) : l[i] = l[j] => i = j

(* log.outstanding counts the operations in progress.                      *)
CountInv == outstanding = Cardinality(Active)

(* The thread in commit() is alone with the log.                           *)
SoleCommitter ==
    /\ \A p \in Proc : pc[p] \in InCommit =>
          /\ committing = 1
          /\ \A q \in Proc : pc[q] \notin InOp \cup InRecovery
          /\ \A q \in Proc \ {p} : pc[q] \notin InCommit
    /\ committing = 1 => \E p \in Proc : pc[p] \in InCommit

(* Recovery runs before any other thread.                                  *)
RecoveryAlone ==
    \A p \in Proc : pc[p] \in InRecovery =>
        /\ \A q \in Proc \ {p} : pc[q] = "down"
        /\ pc[p] = "read_head" => lh = << >> /\ tail[p] = 0

(* Where the loops of commit() and recovery stand.                         *)
LoopInv ==
    \A p \in Proc :
        /\ pc[p] \in {"write_log", "install", "rinstall"} => tail[p] < Len(lh)
        /\ pc[p] = "write_head" => tail[p] = 0 /\ lh # << >>
        /\ pc[p] = "end" => lh = << >>

(* The header on disk names a transaction only while it is being installed *)
(* or recovered.                                                           *)
HeaderInv ==
    /\ Distinct(lh) /\ Distinct(hdr)
    /\ \A p \in Proc : pc[p] \in {"install", "erase", "rinstall", "rerase"} => hdr = lh
    /\ hdr # << >> =>
          \E p \in Proc : pc[p] \in {"install", "erase"} \cup InRecovery

(* What has been copied to the log and to the home blocks so far.          *)
CopyInv ==
    \A p \in Proc :
        /\ pc[p] = "write_log" =>
              \A i \in 1 .. tail[p] : slot[i] = Content(lh[i])
        /\ pc[p] \in {"write_head", "install", "erase"} =>
              \A i \in 1 .. Len(lh) : slot[i] = Content(lh[i])
        /\ pc[p] \in {"install", "rinstall"} =>
              \A i \in 1 .. tail[p] : disk[lh[i]] = slot[i]
        /\ pc[p] \in {"erase", "rerase"} =>
              \A i \in 1 .. Len(lh) : disk[lh[i]] = slot[i]

(* Outside of the transaction the cache agrees with the disk; inside it    *)
(* the only copy is in the cache.                                          *)
CacheInv ==
    \A b \in Block :
        /\ Pending(b) => cache[b] # NoValue
        /\ ~Pending(b) /\ panicked = 0 => Content(b) = disk[b]

UsesBuffer ==
    \A p \in Proc : pc[p] \in {"use", "logged", "read"} => buf[p] \in Block

(* Between transactions the log is empty (and log_write() has not panicked). *)
EmptyWhenQuiet ==
    outstanding = 0 /\ committing = 0 /\ ~Recovering => lh = << >> /\ panicked = 0

IInv ==
    /\ TypeOK /\ CountInv /\ SoleCommitter /\ RecoveryAlone /\ LoopInv
    /\ HeaderInv /\ CopyInv /\ CacheInv /\ UsesBuffer /\ PinBalance /\ EmptyWhenQuiet

-----------------------------------------------------------------------------
LEMMA ActiveFinite == IsFiniteSet(Active) /\ Cardinality(Active) \in Nat
BY Zenon, ProcAssumption, FS_Subset, FS_CardinalityType DEF Active

LEMMA InitIInv == Init => IInv
<1> SUFFICES ASSUME Init PROVE IInv
  BY Zenon
<1>1. TypeOK
  <2>1. pc \in [Proc -> PC]
    BY Zenon DEF Init, PC, InRecovery
  <2>2. hdr \in Seq(Block) /\ lh \in Seq(Block) /\ Len(hdr) = 0 /\ Len(lh) = 0
    BY DEF Init
  <2>3. PICK v \in Value : slot = [i \in 1 .. nlog - 1 |-> v]
    BY Zenon DEF Init
  <2>4. slot \in [1 .. nlog - 1 -> Value]
    BY Zenon, <2>3
  <2>5. cache \in [Block -> Value \cup {NoValue}] /\ pin \in [Block -> Nat]
        /\ held \in [Block -> Proc \cup {NoProc}]
    BY Zenon DEF Init
  <2>6. buf \in [Proc -> Block \cup {NoBlock}] /\ wrote \in [Proc -> SUBSET Block]
        /\ tail \in [Proc -> Nat]
    BY Zenon DEF Init
  <2>7. disk \in [Block -> Value] /\ outstanding \in Nat /\ committing \in 0 .. 1
        /\ panicked \in 0 .. 1
    BY DEF Init
  <2>8. Len(hdr) <= nlog - 1 /\ Len(lh) <= nlog - 1
    BY <2>2, SizeAssumption
  <2> QED
    BY Zenon, <2>1, <2>2, <2>4, <2>5, <2>6, <2>7, <2>8 DEF TypeOK
<1>2. Active = {} /\ Recovering
  BY Zenon, ProcAssumption DEF Init, Active, InOp, Recovering, InRecovery
<1>3. CountInv
  BY Zenon, <1>2, FS_EmptySet DEF CountInv, Init
<1>4. SoleCommitter /\ RecoveryAlone /\ LoopInv
  BY DEF Init, SoleCommitter, RecoveryAlone, LoopInv, InCommit, InRecovery
<1>5. HeaderInv /\ CopyInv /\ UsesBuffer
  BY DEF Init, HeaderInv, CopyInv, UsesBuffer, Distinct
<1>6. CacheInv /\ PinBalance /\ EmptyWhenQuiet
  BY DEF Init, CacheInv, PinBalance, EmptyWhenQuiet, Pending, Content
<1> QED
  BY Zenon, <1>1, <1>3, <1>4, <1>5, <1>6 DEF IInv

Installing == {"install", "erase"} \cup InRecovery

(* What is durable depends on the disk alone, what is read also on the     *)
(* cache.                                                                  *)
LEMMA DurableFrame ==
    ASSUME UNCHANGED <<disk, hdr, slot>>
    PROVE  Durable' = Durable
BY DEF Durable

LEMMA ViewFrame ==
    ASSUME UNCHANGED <<disk, hdr, slot, cache>>, Recovering' <=> Recovering
    PROVE  View' = View /\ Durable' = Durable
<1>1. Durable' = Durable
  BY Zenon, DurableFrame
<1>2. \A b \in Block : Content(b)' = Content(b)
  BY Zenon DEF Content
<1> QED
  BY Zenon, <1>1, <1>2 DEF View

(* A step in which no thread enters, leaves or advances an installation    *)
(* leaves the installed part of the transaction as it is.                  *)
LEMMA InstalledFrame ==
    ASSUME \A q \in Proc : \/ pc'[q] = pc[q] /\ tail'[q] = tail[q]
                           \/ pc[q] \notin Installing /\ pc'[q] \notin Installing
    PROVE  /\ \A i : Installed(i)' <=> Installed(i)
           /\ Recovering' <=> Recovering
BY Zenon DEF Installing, Installed, Recovering, InRecovery

(* While an operation is in progress nobody commits or recovers.           *)
LEMMA OpExcludes ==
    ASSUME IInv, NEW p \in Proc, pc[p] \in InOp
    PROVE  /\ committing = 0 /\ outstanding # 0 /\ hdr = << >> /\ ~Recovering
           /\ \A q \in Proc : pc[q] \notin InCommit \cup InRecovery
           /\ \A i : ~Installed(i)
<1>1. p \in Active /\ outstanding # 0
  <2>1. p \in Active
    BY Zenon DEF Active
  <2> QED
    BY Zenon, <2>1, ActiveFinite, FS_EmptySet DEF IInv, CountInv
<1>2. \A q \in Proc : pc[q] \notin InCommit \cup InRecovery
  BY Zenon DEF IInv, SoleCommitter, RecoveryAlone, InOp, InRecovery, InCommit
<1>3. committing = 0
  BY <1>2 DEF IInv, SoleCommitter, TypeOK
<1>4. hdr = << >> /\ ~Recovering /\ \A i : ~Installed(i)
  BY Zenon, <1>2 DEF IInv, HeaderInv, Recovering, Installed, InCommit, InRecovery
<1> QED
  BY Zenon, <1>1, <1>2, <1>3, <1>4

(* The thread in commit() runs with no operation and no other commit.      *)
LEMMA CommitExcludes ==
    ASSUME IInv, NEW p \in Proc, pc[p] \in InCommit
    PROVE  /\ committing = 1 /\ outstanding = 0 /\ Active = {} /\ ~Recovering
           /\ \A q \in Proc : pc[q] \notin InOp \cup InRecovery
           /\ \A q \in Proc \ {p} : pc[q] \notin InCommit
<1>1. /\ committing = 1
      /\ \A q \in Proc : pc[q] \notin InOp \cup InRecovery
      /\ \A q \in Proc \ {p} : pc[q] \notin InCommit
  BY Zenon DEF IInv, SoleCommitter
<1>2. Active = {} /\ ~Recovering
  BY Zenon, <1>1 DEF Active, Recovering
<1>3. outstanding = 0
  BY Zenon, <1>2, FS_EmptySet DEF IInv, CountInv
<1> QED
  BY Zenon, <1>1, <1>2, <1>3

Busy == InCommit \cup InRecovery \cup {"down"}

(* A step that moves threads only outside of commit() and recovery, and    *)
(* leaves the disk, the transaction and what reads return as they are.     *)
LEMMA QuietStep ==
    ASSUME IInv,
           UNCHANGED <<disk, hdr, slot, lh, tail>>,
           \A c \in Block : Content(c)' = Content(c),
           \A q \in Proc : \/ pc'[q] = pc[q]
                           \/ pc[q] \notin Busy /\ pc'[q] \notin Busy
    PROVE  /\ RecoveryAlone' /\ LoopInv' /\ HeaderInv' /\ CopyInv'
           /\ \A i : Installed(i)' <=> Installed(i)
           /\ Recovering' <=> Recovering
           /\ View' = View /\ Durable' = Durable
<1>0. /\ TypeOK /\ CountInv /\ SoleCommitter /\ RecoveryAlone /\ LoopInv
      /\ HeaderInv /\ CopyInv /\ CacheInv /\ UsesBuffer /\ PinBalance /\ EmptyWhenQuiet
  BY Zenon DEF IInv
<1>1. RecoveryAlone' /\ LoopInv'
  BY Zenon, <1>0 DEF RecoveryAlone, LoopInv, Busy, InCommit, InRecovery
<1>2. HeaderInv'
  BY Zenon, <1>0 DEF HeaderInv, Distinct, Busy, InCommit, InRecovery
<1>3. CopyInv'
  <2>1. \A i \in 1 .. Len(lh) : Content(lh[i])' = Content(lh[i])
    BY <1>0 DEF TypeOK
  <2>2. \A q \in Proc : pc'[q] \in InCommit \cup InRecovery => pc'[q] = pc[q]
    BY Zenon DEF Busy
  <2>3. \A q \in Proc : tail[q] \in Nat /\ (pc[q] = "write_log" => tail[q] < Len(lh))
    BY Zenon, <1>0 DEF LoopInv, TypeOK
  <2> QED
    BY <2>1, <2>2, <2>3, <1>0 DEF CopyInv, InCommit, InRecovery, TypeOK
<1>4. /\ \A i : Installed(i)' <=> Installed(i)
      /\ Recovering' <=> Recovering
  BY Zenon, InstalledFrame DEF Busy, Installing, InCommit, InRecovery
<1>5. Durable' = Durable
  BY DEF Durable
<1>6. View' = View
  BY Zenon, <1>4, <1>5 DEF View
<1> QED
  BY Zenon, <1>1, <1>2, <1>3, <1>4, <1>5, <1>6

LEMMA BeginOpIInv ==
    ASSUME IInv, NEW p \in Proc, BeginOp(p)
    PROVE  IInv' /\ View' = View /\ Durable' = Durable
<1>0. /\ TypeOK /\ CountInv /\ SoleCommitter /\ RecoveryAlone /\ LoopInv
      /\ HeaderInv /\ CopyInv /\ CacheInv /\ UsesBuffer /\ PinBalance /\ EmptyWhenQuiet
  BY Zenon DEF IInv
<1>u. UNCHANGED <<disk, hdr, slot, cache, pin, held, lh, committing, buf, wrote, tail,
                  panicked>>
  BY Zenon DEF BeginOp, diskVars, cacheVars
<1>p. /\ pc[p] \in {"idle", "begin"} /\ pc'[p] \in {"asleep", "inop"}
      /\ pc' \in [Proc -> PC] /\ \A q \in Proc \ {p} : pc'[q] = pc[q]
  BY Zenon, <1>0 DEF TypeOK, BeginOp, Go, PC, InOp
<1>o. \/ pc'[p] = "asleep" /\ outstanding' = outstanding
      \/ pc'[p] = "inop" /\ outstanding' = outstanding + 1 /\ committing = 0
  BY <1>0 DEF TypeOK, BeginOp, Go
<1>q. /\ RecoveryAlone' /\ LoopInv' /\ HeaderInv' /\ CopyInv'
      /\ \A i : Installed(i)' <=> Installed(i)
      /\ Recovering' <=> Recovering
      /\ View' = View /\ Durable' = Durable
  <2>1. \A c \in Block : Content(c)' = Content(c)
    BY Zenon, <1>u DEF Content
  <2> QED
    BY Zenon, <2>1, <1>u, <1>p, QuietStep DEF Busy, InCommit, InRecovery
<1>1. TypeOK'
  BY <1>0, <1>u, <1>p, <1>o DEF TypeOK
<1>2. CountInv'
  <2>1. CASE pc'[p] = "asleep"
    <3>1. Active' = Active
      BY Zenon, <2>1, <1>p DEF Active, InOp
    <3> QED
      BY Zenon, <2>1, <1>0, <1>o, <3>1 DEF CountInv
  <2>2. CASE pc'[p] = "inop"
    <3>1. Active' = Active \cup {p} /\ p \notin Active
      BY Zenon, <2>2, <1>p DEF Active, InOp
    <3> QED
      BY Zenon, <2>2, <1>0, <1>o, <3>1, ActiveFinite, FS_AddElement DEF CountInv
  <2> QED
    BY Zenon, <2>1, <2>2, <1>p
<1>3. SoleCommitter'
  BY <1>0, <1>u, <1>p, <1>o DEF SoleCommitter, InOp, InCommit, InRecovery, TypeOK
<1>4. CacheInv' /\ PinBalance'
  BY Zenon, <1>0, <1>u, <1>q DEF CacheInv, PinBalance, Pending, Content
<1>5. UsesBuffer' /\ EmptyWhenQuiet'
  BY <1>0, <1>u, <1>p, <1>o, <1>q DEF TypeOK, UsesBuffer, EmptyWhenQuiet
<1> QED
  BY Zenon, <1>q, <1>1, <1>2, <1>3, <1>4, <1>5 DEF IInv

LEMMA BreadIInv ==
    ASSUME IInv, NEW p \in Proc, NEW b \in Block, Bread(p, b)
    PROVE  IInv' /\ View' = View /\ Durable' = Durable
<1>0. /\ TypeOK /\ CountInv /\ SoleCommitter /\ RecoveryAlone /\ LoopInv
      /\ HeaderInv /\ CopyInv /\ CacheInv /\ UsesBuffer /\ PinBalance /\ EmptyWhenQuiet
  BY Zenon DEF IInv
<1>u. UNCHANGED <<disk, hdr, slot, pin, lh, outstanding, committing, wrote, tail,
                  panicked>>
  BY Zenon DEF Bread, diskVars, logVars
<1>p. /\ \/ pc[p] = "inop" /\ pc'[p] = "use"
         \/ pc[p] = "idle" /\ pc'[p] = "read"
      /\ pc' \in [Proc -> PC] /\ \A q \in Proc \ {p} : pc'[q] = pc[q]
  BY Zenon, <1>0 DEF TypeOK, Bread, Go, PC, InOp
<1>b. buf' \in [Proc -> Block \cup {NoBlock}] /\ buf'[p] = b
      /\ \A q \in Proc \ {p} : buf'[q] = buf[q]
  BY Zenon, <1>0 DEF TypeOK, Bread
<1>c. /\ cache' \in [Block -> Value \cup {NoValue}]
      /\ \A c \in Block : Content(c)' = Content(c)
      /\ \A c \in Block : cache[c] # NoValue => cache'[c] # NoValue
  BY Zenon, <1>0, <1>u, ValueAssumption DEF TypeOK, Bread, Content
<1>q. /\ RecoveryAlone' /\ LoopInv' /\ HeaderInv' /\ CopyInv'
      /\ \A i : Installed(i)' <=> Installed(i)
      /\ Recovering' <=> Recovering
      /\ View' = View /\ Durable' = Durable
  BY Zenon, <1>u, <1>p, <1>c, QuietStep DEF Busy, InCommit, InRecovery
<1>1. TypeOK'
  <2>1. held' \in [Block -> Proc \cup {NoProc}]
    BY Zenon, <1>0 DEF TypeOK, Bread
  <2> QED
    BY Zenon, <2>1, <1>0, <1>u, <1>p, <1>b, <1>c DEF TypeOK
<1>2. CountInv'
  <2>1. Active' = Active
    BY Zenon, <1>p DEF Active, InOp
  <2> QED
    BY Zenon, <2>1, <1>0, <1>u DEF CountInv
<1>3. SoleCommitter'
  BY SMTT(30), <1>0, <1>u, <1>p DEF SoleCommitter, InOp, InCommit, InRecovery
<1>4. CacheInv' /\ PinBalance'
  BY Zenon, <1>0, <1>u, <1>c, <1>q DEF CacheInv, PinBalance, Pending
<1>5. UsesBuffer' /\ EmptyWhenQuiet'
  BY Zenon, <1>0, <1>u, <1>p, <1>b, <1>q DEF UsesBuffer, EmptyWhenQuiet
<1> QED
  BY Zenon, <1>q, <1>1, <1>2, <1>3, <1>4, <1>5 DEF IInv

LEMMA BrelseIInv ==
    ASSUME IInv, NEW p \in Proc, Brelse(p)
    PROVE  IInv' /\ View' = View /\ Durable' = Durable
<1>0. /\ TypeOK /\ CountInv /\ SoleCommitter /\ RecoveryAlone /\ LoopInv
      /\ HeaderInv /\ CopyInv /\ CacheInv /\ UsesBuffer /\ PinBalance /\ EmptyWhenQuiet
  BY Zenon DEF IInv
<1>u. UNCHANGED <<disk, hdr, slot, cache, pin, lh, outstanding, committing, wrote, tail,
                  panicked>>
  BY Zenon DEF Brelse, diskVars, logVars
<1>p. /\ \/ pc[p] \in {"use", "logged"} /\ pc'[p] = "inop"
         \/ pc[p] = "read" /\ pc'[p] = "idle"
      /\ pc' \in [Proc -> PC] /\ \A q \in Proc \ {p} : pc'[q] = pc[q]
  BY Zenon, <1>0 DEF TypeOK, Brelse, Go, PC, InOp
<1>b. buf' \in [Proc -> Block \cup {NoBlock}] /\ \A q \in Proc \ {p} : buf'[q] = buf[q]
  BY Zenon, <1>0 DEF TypeOK, Brelse
<1>q. /\ RecoveryAlone' /\ LoopInv' /\ HeaderInv' /\ CopyInv'
      /\ \A i : Installed(i)' <=> Installed(i)
      /\ Recovering' <=> Recovering
      /\ View' = View /\ Durable' = Durable
  <2>1. \A c \in Block : Content(c)' = Content(c)
    BY Zenon, <1>u DEF Content
  <2> QED
    BY Zenon, <2>1, <1>u, <1>p, QuietStep DEF Busy, InCommit, InRecovery
<1>1. TypeOK'
  <2>1. held' \in [Block -> Proc \cup {NoProc}]
    BY Zenon, <1>0 DEF TypeOK, Brelse
  <2> QED
    BY Zenon, <2>1, <1>0, <1>u, <1>p, <1>b DEF TypeOK
<1>2. CountInv'
  <2>1. Active' = Active
    BY Zenon, <1>p DEF Active, InOp
  <2> QED
    BY Zenon, <2>1, <1>0, <1>u DEF CountInv
<1>3. SoleCommitter'
  BY Zenon, <1>0, <1>u, <1>p DEF SoleCommitter, InOp, InCommit, InRecovery
<1>4. CacheInv' /\ PinBalance'
  BY Zenon, <1>0, <1>u, <1>q DEF CacheInv, PinBalance, Pending, Content
<1>5. UsesBuffer' /\ EmptyWhenQuiet'
  BY Zenon, <1>0, <1>u, <1>p, <1>b, <1>q DEF UsesBuffer, EmptyWhenQuiet
<1> QED
  BY Zenon, <1>q, <1>1, <1>2, <1>3, <1>4, <1>5 DEF IInv

LEMMA RecycleIInv ==
    ASSUME IInv, panicked = 0, NEW b \in Block, Recycle(b)
    PROVE  IInv' /\ View' = View /\ Durable' = Durable
<1>0. /\ TypeOK /\ CountInv /\ SoleCommitter /\ RecoveryAlone /\ LoopInv
      /\ HeaderInv /\ CopyInv /\ CacheInv /\ UsesBuffer /\ PinBalance /\ EmptyWhenQuiet
  BY Zenon DEF IInv
<1>u. UNCHANGED <<disk, hdr, slot, pin, held, lh, outstanding, committing, pc, buf, wrote,
                  tail, panicked>>
  BY Zenon DEF Recycle, diskVars, logVars, threadVars
<1>n. ~Pending(b)
  BY <1>0 DEF PinBalance, Recycle
<1>c. /\ cache' \in [Block -> Value \cup {NoValue}]
      /\ \A c \in Block : Content(c)' = Content(c)
      /\ \A c \in Block \ {b} : cache'[c] = cache[c]
  BY Zenon, <1>0, <1>u, <1>n DEF TypeOK, Recycle, Content, CacheInv
<1>q. /\ RecoveryAlone' /\ LoopInv' /\ HeaderInv' /\ CopyInv'
      /\ \A i : Installed(i)' <=> Installed(i)
      /\ Recovering' <=> Recovering
      /\ View' = View /\ Durable' = Durable
  BY Zenon, <1>u, <1>c, QuietStep
<1>1. TypeOK'
  BY Zenon, <1>0, <1>u, <1>c DEF TypeOK
<1>2. CountInv' /\ SoleCommitter'
  BY Zenon, <1>0, <1>u DEF CountInv, SoleCommitter, Active
<1>3. \A c \in Block : Pending(c)' <=> Pending(c)
  BY SMTT(30), <1>u, <1>q DEF Pending
<1>4. CacheInv' /\ PinBalance'
  BY Zenon, <1>0, <1>u, <1>c, <1>n, <1>3 DEF CacheInv, PinBalance
<1>5. UsesBuffer' /\ EmptyWhenQuiet'
  BY Zenon, <1>0, <1>u, <1>q DEF UsesBuffer, EmptyWhenQuiet
<1> QED
  BY Zenon, <1>q, <1>1, <1>2, <1>4, <1>5 DEF IInv

LEMMA WakeupFacts ==
    ASSUME TypeOK
    PROVE  /\ Wakeup(pc) \in [Proc -> PC]
           /\ \A q \in Proc : \/ Wakeup(pc)[q] = pc[q]
                              \/ pc[q] = "asleep" /\ Wakeup(pc)[q] = "begin"
BY Zenon DEF TypeOK, Wakeup, PC

LEMMA EndOpIInv ==
    ASSUME IInv, panicked = 0, NEW p \in Proc, EndOp(p)
    PROVE  /\ IInv' /\ View' = View /\ Durable' = Durable
           /\ p \in Active /\ Active' = Active \ {p}
<1>0. /\ TypeOK /\ CountInv /\ SoleCommitter /\ RecoveryAlone /\ LoopInv
      /\ HeaderInv /\ CopyInv /\ CacheInv /\ UsesBuffer /\ PinBalance /\ EmptyWhenQuiet
  BY Zenon DEF IInv
<1>x. /\ committing = 0 /\ outstanding # 0 /\ hdr = << >> /\ ~Recovering
      /\ \A q \in Proc : pc[q] \notin InCommit \cup InRecovery
      /\ \A i : ~Installed(i)
  BY Zenon, OpExcludes DEF EndOp, InOp
<1>u. /\ UNCHANGED <<disk, hdr, slot, cache, pin, held, lh, buf, tail>>
      /\ panicked' = 0 /\ outstanding' = outstanding - 1
  BY Zenon, <1>x DEF EndOp, diskVars, cacheVars
<1>w. wrote' \in [Proc -> SUBSET Block]
  BY Zenon, <1>0, <1>x DEF TypeOK, EndOp
<1>t. committing = 0 /\ outstanding \in Nat /\ outstanding' \in Nat
  BY <1>0, <1>x, <1>u DEF TypeOK
<1>o. \/ outstanding' = 0 /\ committing' = 1 /\ pc' = [pc EXCEPT ![p] = "commit"]
      \/ outstanding' # 0 /\ committing' = 0 /\ pc' = [Wakeup(pc) EXCEPT ![p] = "idle"]
  BY <1>t DEF EndOp, Go
<1>p. /\ pc[p] = "inop" /\ pc' \in [Proc -> PC]
      /\ \A q \in Proc \ {p} : pc'[q] = pc[q] \/ (pc[q] = "asleep" /\ pc'[q] = "begin")
      /\ outstanding' = 0 => pc'[p] = "commit"
      /\ outstanding' # 0 => pc'[p] = "idle"
  <2>1. pc \in [Proc -> PC] /\ pc[p] = "inop" /\ "commit" \in PC /\ "idle" \in PC
    BY Zenon, <1>0 DEF TypeOK, EndOp, PC, InCommit
  <2>2. CASE pc' = [pc EXCEPT ![p] = "commit"] /\ outstanding' = 0
    BY Zenon, <2>1, <2>2, <1>t
  <2>3. CASE pc' = [Wakeup(pc) EXCEPT ![p] = "idle"] /\ outstanding' # 0
    BY Zenon, <2>1, <2>3, <1>0, <1>t, WakeupFacts
  <2> QED
    BY Zenon, <2>2, <2>3, <1>o
<1>a. p \in Active /\ Active' = Active \ {p}
  BY Zenon, <1>p DEF Active, InOp
<1>2. CountInv'
  BY Zenon, <1>0, <1>u, <1>a, ActiveFinite, FS_RemoveElement DEF CountInv
<1>1. TypeOK'
  <2>1. outstanding' \in Nat /\ committing' \in 0 .. 1
    BY <1>t, <1>o
  <2> QED
    BY Zenon, <2>1, <1>0, <1>u, <1>w, <1>p DEF TypeOK
<1>3. \A q \in Proc : pc'[q] \notin InRecovery
  BY Zenon, <1>x, <1>p DEF InRecovery
<1>4. SoleCommitter'
  <2>1. CASE outstanding' = 0
    <3>1. Active' = {}
      BY Zenon, <2>1, <1>2, <1>a, ActiveFinite, FS_RemoveElement, FS_EmptySet DEF CountInv
    <3> QED
      BY Zenon, <2>1, <3>1, <1>x, <1>p, <1>o, <1>3 DEF SoleCommitter, Active, InCommit
  <2>2. CASE outstanding' # 0
    BY <2>2, <1>x, <1>p, <1>o DEF SoleCommitter, InCommit
  <2> QED
    BY Zenon, <2>1, <2>2
<1>5. /\ \A i : ~Installed(i)'
      /\ ~Recovering'
  BY SMTT(30), <1>x, <1>p DEF Installed, Recovering, InRecovery, InCommit
<1>6. RecoveryAlone' /\ LoopInv' /\ HeaderInv' /\ CopyInv'
  BY SMTT(30), <1>0, <1>u, <1>x, <1>p
     DEF RecoveryAlone, LoopInv, HeaderInv, CopyInv, Distinct, InCommit, InRecovery
<1>7. CacheInv' /\ PinBalance'
  BY Zenon, <1>0, <1>u, <1>x, <1>5 DEF CacheInv, PinBalance, Pending, Content
<1>8. UsesBuffer' /\ EmptyWhenQuiet'
  BY <1>0, <1>u, <1>p, <1>o DEF UsesBuffer, EmptyWhenQuiet
<1>9. View' = View /\ Durable' = Durable
  BY <1>u, <1>x, <1>5 DEF View, Durable, Content
<1> QED
  BY Zenon, <1>a, <1>1, <1>2, <1>4, <1>6, <1>7, <1>8, <1>9 DEF IInv

LEMMA AppendFacts ==
    ASSUME NEW S, NEW l \in Seq(S), NEW e \in S
    PROVE  /\ Append(l, e) \in Seq(S) /\ Len(Append(l, e)) = Len(l) + 1
           /\ Len(l) \in Nat
           /\ \A i \in 1 .. Len(l) : Append(l, e)[i] = l[i]
           /\ Append(l, e)[Len(l) + 1] = e
           /\ Entries(Append(l, e)) = Entries(l) \cup {e}
           /\ Distinct(l) /\ e \notin Entries(l) => Distinct(Append(l, e))
<1>1. /\ Append(l, e) \in Seq(S) /\ Len(Append(l, e)) = Len(l) + 1
      /\ Len(l) \in Nat
      /\ \A i \in 1 .. Len(l) : Append(l, e)[i] = l[i]
      /\ Append(l, e)[Len(l) + 1] = e
  OBVIOUS
<1>2. Entries(Append(l, e)) = Entries(l) \cup {e}
  BY <1>1 DEF Entries
<1>3. Distinct(l) /\ e \notin Entries(l) => Distinct(Append(l, e))
  BY <1>1 DEF Entries, Distinct
<1> QED
  BY Zenon, <1>1, <1>2, <1>3

LEMMA LogWriteIInv ==
    ASSUME IInv, panicked = 0, NEW p \in Proc, NEW v \in Value, LogWrite(p, v)
    PROVE  /\ IInv' /\ Durable' = Durable /\ Active' = Active /\ p \in Active
           /\ buf[p] \in Block /\ View' = [View EXCEPT ![buf[p]] = v]
<1>0. /\ TypeOK /\ CountInv /\ SoleCommitter /\ RecoveryAlone /\ LoopInv
      /\ HeaderInv /\ CopyInv /\ CacheInv /\ UsesBuffer /\ PinBalance /\ EmptyWhenQuiet
  BY Zenon DEF IInv
<1>x. /\ committing = 0 /\ outstanding # 0 /\ hdr = << >> /\ ~Recovering
      /\ \A q \in Proc : pc[q] \notin InCommit \cup InRecovery
      /\ \A i : ~Installed(i)
  BY Zenon, OpExcludes DEF LogWrite, InOp
<1>u. UNCHANGED <<disk, hdr, slot, held, outstanding, committing, buf, tail>>
  BY Zenon DEF LogWrite, diskVars
<1>b. buf[p] \in Block
  BY Zenon, <1>0 DEF UsesBuffer, LogWrite
<1>c. /\ cache' = [cache EXCEPT ![buf[p]] = v]
      /\ cache' \in [Block -> Value \cup {NoValue}]
      /\ v # NoValue
  BY Zenon, <1>0, <1>b, ValueAssumption DEF TypeOK, LogWrite
<1>p. /\ pc[p] = "use" /\ pc'[p] \in {"use", "logged"} /\ pc' \in [Proc -> PC]
      /\ \A q \in Proc \ {p} : pc'[q] = pc[q]
  BY Zenon, <1>0 DEF TypeOK, LogWrite, Go, PC, InOp
<1>a. p \in Active /\ Active' = Active
  BY Zenon, <1>p DEF Active, InOp
<1>l. \/ panicked' = 1 /\ pin' = pin /\ lh' = lh
      \/ panicked' = 0 /\ pin' = pin /\ lh' = lh /\ buf[p] \in Entries(lh)
      \/ /\ panicked' = 0 /\ Len(lh) < nlog - 1
         /\ pin' = [pin EXCEPT ![buf[p]] = @ + 1]
         /\ lh' = Append(lh, buf[p]) /\ buf[p] \notin Entries(lh)
  BY <1>0, SizeAssumption DEF LogWrite, TypeOK
<1>1. TypeOK'
  <2>1. wrote' \in [Proc -> SUBSET Block]
    <3>1. wrote' = wrote \/ wrote' = [wrote EXCEPT ![p] = wrote[p] \cup {buf[p]}]
      BY Zenon DEF LogWrite
    <3>2. wrote[p] \cup {buf[p]} \in SUBSET Block
      BY Zenon, <1>0, <1>b DEF TypeOK
    <3> QED
      BY ZenonT(40), <3>1, <3>2, <1>0 DEF TypeOK
  <2>2. lh' \in Seq(Block) /\ Len(lh') <= nlog - 1
    <3>1. CASE lh' = lh
      BY Zenon, <3>1, <1>0 DEF TypeOK
    <3>2. CASE lh' = Append(lh, buf[p]) /\ Len(lh) < nlog - 1
      BY <3>2, <1>0, <1>b, AppendFacts, SizeAssumption DEF TypeOK
    <3> QED
      BY Zenon, <3>1, <3>2, <1>l
  <2>3. pin' \in [Block -> Nat] /\ panicked' \in 0 .. 1
    BY SMTT(30), <1>0, <1>b, <1>l DEF TypeOK
  <2> QED
    BY Zenon, <2>1, <2>2, <2>3, <1>0, <1>u, <1>c, <1>p DEF TypeOK
<1>2. CountInv'
  BY Zenon, <1>0, <1>u, <1>a DEF CountInv
<1>3. SoleCommitter' /\ RecoveryAlone' /\ LoopInv' /\ CopyInv'
  BY <1>0, <1>u, <1>x, <1>p
     DEF SoleCommitter, RecoveryAlone, LoopInv, CopyInv, InCommit, InRecovery
<1>4. HeaderInv'
  <2>1. Distinct(lh)'
    <3>1. CASE lh' = lh
      BY Zenon, <3>1, <1>0 DEF HeaderInv, Distinct
    <3>2. CASE lh' = Append(lh, buf[p]) /\ buf[p] \notin Entries(lh)
      <4>1. Distinct(Append(lh, buf[p]))
        BY Zenon, <3>2, <1>0, <1>b, AppendFacts DEF HeaderInv, TypeOK
      <4> QED
        BY Zenon, <4>1, <3>2 DEF Distinct
    <3> QED
      BY Zenon, <3>1, <3>2, <1>l
  <2> QED
    BY <2>1, <1>0, <1>u, <1>x, <1>p DEF HeaderInv, Distinct, InCommit, InRecovery
<1>5. /\ \A i : ~Installed(i)'
      /\ ~Recovering'
  BY Zenon, <1>x, <1>p DEF Installed, Recovering, InRecovery, InCommit
<1>6. \A c \in Block : /\ Pending(c) <=> c \in Entries(lh)
                       /\ Pending(c)' <=> c \in Entries(lh')
  BY Zenon, <1>x, <1>5 DEF Pending, Entries
<1>7. \A c \in Block : c \in Entries(lh') <=> c \in Entries(lh) \/ (lh' # lh /\ c = buf[p])
  <2>1. CASE lh' = lh
    BY Zenon, <2>1
  <2>2. CASE lh' = Append(lh, buf[p])
    <3>1. Entries(lh') = Entries(lh) \cup {buf[p]} /\ lh' # lh
      BY <2>2, <1>0, <1>b, AppendFacts DEF TypeOK
    <3> QED
      BY Zenon, <3>1
  <2> QED
    BY Zenon, <2>1, <2>2, <1>l
<1>8. PinBalance'
  BY <1>0, <1>b, <1>l, <1>6, <1>7 DEF PinBalance, TypeOK
<1>9. CacheInv'
  BY SMTT(30), <1>0, <1>u, <1>b, <1>c, <1>l, <1>6, <1>7 DEF CacheInv, Content, TypeOK
<1>10. UsesBuffer' /\ EmptyWhenQuiet'
  BY Zenon, <1>0, <1>u, <1>p, <1>x DEF UsesBuffer, EmptyWhenQuiet
<1>11. Durable' = Durable
  BY Zenon, <1>u, DurableFrame
<1>12. View' = [View EXCEPT ![buf[p]] = v]
  BY Zenon, <1>0, <1>u, <1>b, <1>c, <1>x, <1>5 DEF View, Content, TypeOK
<1> QED
  BY Zenon, <1>a, <1>b, <1>1, <1>2, <1>3, <1>4, <1>8, <1>9, <1>10, <1>11, <1>12 DEF IInv

-----------------------------------------------------------------------------
(* The steps of commit().                                                  *)

(* What every step of commit() from one control point to another keeps.    *)
LEMMA CommitFrame ==
    ASSUME IInv, NEW p \in Proc, pc[p] \in InCommit,
           NEW l \in InCommit, pc' = [pc EXCEPT ![p] = l],
           UNCHANGED <<outstanding, committing, buf>>
    PROVE  /\ pc' \in [Proc -> PC] /\ pc'[p] = l
           /\ \A q \in Proc \ {p} : pc'[q] = pc[q] /\ pc[q] \notin InCommit \cup InRecovery
           /\ Active = {} /\ Active' = {} /\ ~Recovering /\ ~Recovering'
           /\ \A i : Installed(i) <=> (pc[p] = "install" /\ i <= tail[p]) \/ pc[p] = "erase"
           /\ \A i : Installed(i)' <=> (l = "install" /\ i <= tail'[p]) \/ l = "erase"
           /\ CountInv' /\ SoleCommitter' /\ RecoveryAlone' /\ UsesBuffer' /\ EmptyWhenQuiet'
<1>0. /\ TypeOK /\ CountInv /\ SoleCommitter /\ RecoveryAlone /\ LoopInv
      /\ HeaderInv /\ CopyInv /\ CacheInv /\ UsesBuffer /\ PinBalance /\ EmptyWhenQuiet
  BY Zenon DEF IInv
<1>x. /\ committing = 1 /\ outstanding = 0 /\ Active = {} /\ ~Recovering
      /\ \A q \in Proc : pc[q] \notin InOp \cup InRecovery
      /\ \A q \in Proc \ {p} : pc[q] \notin InCommit
  BY Zenon, CommitExcludes
<1>1. /\ pc' \in [Proc -> PC] /\ pc'[p] = l
      /\ \A q \in Proc \ {p} : pc'[q] = pc[q]
  <2>1. l \in PC /\ pc \in [Proc -> PC]
    BY Zenon, <1>0 DEF PC, TypeOK
  <2> QED
    BY Zenon, <2>1
<1>2. /\ \A q \in Proc : pc'[q] \notin InOp \cup InRecovery
      /\ \A q \in Proc \ {p} : pc'[q] \notin InCommit
  BY Zenon, <1>1, <1>x DEF InCommit, InOp, InRecovery
<1>3. Active' = {} /\ ~Recovering'
  BY Zenon, <1>2 DEF Active, Recovering
<1>4. CountInv'
  BY Zenon, <1>x, <1>3, FS_EmptySet DEF CountInv
<1>5. SoleCommitter'
  BY Zenon, <1>x, <1>1, <1>2 DEF SoleCommitter
<1>6. RecoveryAlone'
  BY Zenon, <1>2 DEF RecoveryAlone
<1>7. UsesBuffer'
  BY Zenon, <1>0, <1>1 DEF UsesBuffer, InCommit
<1>8. EmptyWhenQuiet'
  BY <1>x DEF EmptyWhenQuiet
<1>9. \A i : Installed(i) <=> (pc[p] = "install" /\ i <= tail[p]) \/ pc[p] = "erase"
  BY <1>x DEF Installed, InCommit
<1>10. \A i : Installed(i)' <=> (l = "install" /\ i <= tail'[p]) \/ l = "erase"
  BY Zenon, <1>1, <1>2 DEF Installed, InCommit
<1> QED
  BY Zenon, <1>x, <1>1, <1>3, <1>4, <1>5, <1>6, <1>7, <1>8, <1>9, <1>10

LEMMA CommitIInv ==
    ASSUME IInv, NEW p \in Proc, Commit(p)
    PROVE  IInv' /\ View' = View /\ Durable' = Durable /\ Active' = Active
<1>0. /\ TypeOK /\ CountInv /\ SoleCommitter /\ RecoveryAlone /\ LoopInv
      /\ HeaderInv /\ CopyInv /\ CacheInv /\ UsesBuffer /\ PinBalance /\ EmptyWhenQuiet
  BY Zenon DEF IInv
<1> DEFINE l == IF lh # << >> THEN "write_log" ELSE "end"
<1>u. /\ UNCHANGED <<disk, hdr, slot, cache, pin, held, lh, outstanding, committing, buf,
                     wrote, panicked>>
      /\ pc[p] = "commit" /\ pc' = [pc EXCEPT ![p] = l]
      /\ tail' = [tail EXCEPT ![p] = 0]
  BY Zenon DEF Commit, Go, diskVars, cacheVars, logVars
<1>l. l \in InCommit /\ pc[p] \in InCommit
  BY Zenon, <1>u DEF InCommit
<1>f. /\ pc' \in [Proc -> PC] /\ pc'[p] = l
      /\ \A q \in Proc \ {p} : pc'[q] = pc[q] /\ pc[q] \notin InCommit \cup InRecovery
      /\ Active = {} /\ Active' = {} /\ ~Recovering /\ ~Recovering'
      /\ \A i : Installed(i) <=> (pc[p] = "install" /\ i <= tail[p]) \/ pc[p] = "erase"
      /\ \A i : Installed(i)' <=> (l = "install" /\ i <= tail'[p]) \/ l = "erase"
      /\ CountInv' /\ SoleCommitter' /\ RecoveryAlone' /\ UsesBuffer' /\ EmptyWhenQuiet'
  <2> HIDE DEF l
  <2> QED
    BY Zenon, <1>u, <1>l, CommitFrame
<1>t. tail' \in [Proc -> Nat] /\ tail'[p] = 0 /\ \A q \in Proc \ {p} : tail'[q] = tail[q]
  BY Zenon, <1>0, <1>u DEF TypeOK
<1>1. TypeOK'
  BY Zenon, <1>0, <1>u, <1>f, <1>t DEF TypeOK
<1>2. LoopInv'
  BY <1>0, <1>u, <1>f, <1>t DEF LoopInv, InCommit, InRecovery, TypeOK
<1>3. HeaderInv'
  BY <1>0, <1>u, <1>f DEF HeaderInv, Distinct, InCommit, InRecovery
<1>4. CopyInv'
  BY <1>u, <1>f, <1>t DEF CopyInv, InCommit, InRecovery
<1>5. \A i : Installed(i)' <=> Installed(i)
  BY Zenon, <1>u, <1>f
<1>6. CacheInv' /\ PinBalance'
  BY Zenon, <1>0, <1>u, <1>5 DEF CacheInv, PinBalance, Pending, Content
<1>7. View' = View /\ Durable' = Durable
  BY Zenon, <1>u, <1>f, ViewFrame
<1> QED
  BY Zenon, <1>f, <1>1, <1>2, <1>3, <1>4, <1>6, <1>7 DEF IInv

LEMMA WriteLogIInv ==
    ASSUME IInv, NEW p \in Proc, WriteLog(p)
    PROVE  IInv' /\ View' = View /\ Durable' = Durable /\ Active' = Active
<1>0. /\ TypeOK /\ CountInv /\ SoleCommitter /\ RecoveryAlone /\ LoopInv
      /\ HeaderInv /\ CopyInv /\ CacheInv /\ UsesBuffer /\ PinBalance /\ EmptyWhenQuiet
  BY Zenon DEF IInv
<1> DEFINE k == tail[p] + 1
           l == IF k = Len(lh) THEN "write_head" ELSE "write_log"
<1>u. /\ UNCHANGED <<disk, hdr, pin, held, lh, outstanding, committing, buf, wrote,
                     panicked>>
      /\ pc[p] = "write_log" /\ pc' = [pc EXCEPT ![p] = l]
      /\ tail' = [tail EXCEPT ![p] = IF k = Len(lh) THEN 0 ELSE k]
      /\ slot' = [slot EXCEPT ![k] = Content(lh[k])]
      /\ cache' = [cache EXCEPT ![lh[k]] = Content(lh[k])]
  BY Zenon DEF WriteLog, Round, Go, logVars
<1>l. l \in InCommit /\ pc[p] \in InCommit
  BY Zenon, <1>u DEF InCommit
<1>f. /\ pc' \in [Proc -> PC] /\ pc'[p] = l
      /\ \A q \in Proc \ {p} : pc'[q] = pc[q] /\ pc[q] \notin InCommit \cup InRecovery
      /\ Active = {} /\ Active' = {} /\ ~Recovering /\ ~Recovering'
      /\ \A i : Installed(i) <=> (pc[p] = "install" /\ i <= tail[p]) \/ pc[p] = "erase"
      /\ \A i : Installed(i)' <=> (l = "install" /\ i <= tail'[p]) \/ l = "erase"
      /\ CountInv' /\ SoleCommitter' /\ RecoveryAlone' /\ UsesBuffer' /\ EmptyWhenQuiet'
  <2> HIDE DEF l
  <2> QED
    BY Zenon, <1>u, <1>l, CommitFrame
<1>k. /\ k \in 1 .. Len(lh) /\ k \in 1 .. nlog - 1 /\ lh[k] \in Block /\ tail[p] \in Nat
      /\ Len(lh) \in Nat
  BY SMTT(30), <1>0, <1>u, SizeAssumption DEF TypeOK, LoopInv
<1>t. /\ tail' \in [Proc -> Nat] /\ tail'[p] = IF k = Len(lh) THEN 0 ELSE k
      /\ \A q \in Proc \ {p} : tail'[q] = tail[q]
  BY <1>0, <1>u, <1>k DEF TypeOK
<1>c. /\ cache' \in [Block -> Value \cup {NoValue}]
      /\ \A c \in Block : Content(c)' = Content(c)
      /\ \A c \in Block : cache[c] # NoValue => cache'[c] # NoValue
  BY Zenon, <1>0, <1>u, <1>k, ValueAssumption DEF TypeOK, Content
<1>s. /\ slot' \in [1 .. nlog - 1 -> Value] /\ slot'[k] = Content(lh[k])
      /\ \A i \in 1 .. nlog - 1 : i # k => slot'[i] = slot[i]
  <2>1. Content(lh[k]) \in Value
    BY Zenon, <1>0, <1>k DEF TypeOK, Content
  <2> QED
    BY Zenon, <2>1, <1>0, <1>u, <1>k DEF TypeOK
<1>h. hdr = << >>
  BY Zenon, <1>0, <1>u, <1>f DEF HeaderInv, InCommit, InRecovery
<1>1. TypeOK'
  BY Zenon, <1>0, <1>u, <1>f, <1>t, <1>c, <1>s DEF TypeOK
<1>2. LoopInv'
  BY <1>0, <1>u, <1>f, <1>t, <1>k DEF LoopInv, InCommit, InRecovery
<1>3. HeaderInv'
  BY <1>0, <1>u, <1>f, <1>h DEF HeaderInv, Distinct, InCommit, InRecovery
<1>4. CopyInv'
  <2>1. \A i \in 1 .. k : slot'[i] = Content(lh[i])
    <3>1. \A i \in 1 .. tail[p] : slot[i] = Content(lh[i])
      BY Zenon, <1>0, <1>u DEF CopyInv
    <3>2. ASSUME NEW i \in 1 .. k, i # k PROVE slot'[i] = Content(lh[i])
      <4>1. i \in 1 .. tail[p] /\ i \in 1 .. nlog - 1
        BY <3>2, <1>k, SizeAssumption
      <4> QED
        BY Zenon, <4>1, <3>1, <3>2, <1>s
    <3> QED
      BY Zenon, <3>2, <1>s
  <2>2. \A i \in 1 .. Len(lh) : Content(lh[i])' = Content(lh[i])
    BY <1>0, <1>u, <1>c DEF TypeOK
  <2>3. \A i \in 1 .. k : slot'[i] = Content(lh[i])'
    BY <2>1, <2>2, <1>k
  <2> QED
    BY Zenon, <2>3, <1>u, <1>f, <1>t, <1>k DEF CopyInv, InCommit, InRecovery
<1>5. \A i : Installed(i)' <=> Installed(i)
  BY Zenon, <1>u, <1>f
<1>6. CacheInv' /\ PinBalance'
  BY Zenon, <1>0, <1>u, <1>5, <1>c DEF CacheInv, PinBalance, Pending
<1>7. Durable' = Durable
  BY <1>u, <1>h DEF Durable, Entries
<1>8. View' = View
  BY Zenon, <1>f, <1>c DEF View
<1> QED
  BY Zenon, <1>f, <1>1, <1>2, <1>3, <1>4, <1>6, <1>7, <1>8 DEF IInv

(* The commit point: all of the transaction becomes durable at once.       *)
LEMMA WriteHeadIInv ==
    ASSUME IInv, panicked = 0, NEW p \in Proc, WriteHead(p)
    PROVE  IInv' /\ View' = View /\ Durable' = View /\ Active = {} /\ Active' = {}
<1>0. /\ TypeOK /\ CountInv /\ SoleCommitter /\ RecoveryAlone /\ LoopInv
      /\ HeaderInv /\ CopyInv /\ CacheInv /\ UsesBuffer /\ PinBalance /\ EmptyWhenQuiet
  BY Zenon DEF IInv
<1>u. /\ UNCHANGED <<disk, slot, cache, pin, held, lh, outstanding, committing, buf, wrote,
                     tail, panicked>>
      /\ pc[p] = "write_head" /\ pc' = [pc EXCEPT ![p] = "install"] /\ hdr' = lh
  BY Zenon DEF WriteHead, Go, cacheVars, logVars
<1>l. "install" \in InCommit /\ pc[p] \in InCommit
  BY Zenon, <1>u DEF InCommit
<1>f. /\ pc' \in [Proc -> PC] /\ pc'[p] = "install"
      /\ \A q \in Proc \ {p} : pc'[q] = pc[q] /\ pc[q] \notin InCommit \cup InRecovery
      /\ Active = {} /\ Active' = {} /\ ~Recovering /\ ~Recovering'
      /\ \A i : Installed(i) <=> (pc[p] = "install" /\ i <= tail[p]) \/ pc[p] = "erase"
      /\ \A i : Installed(i)' <=> ("install" = "install" /\ i <= tail'[p]) \/ "install" = "erase"
      /\ CountInv' /\ SoleCommitter' /\ RecoveryAlone' /\ UsesBuffer' /\ EmptyWhenQuiet'
  BY Zenon, <1>u, <1>l, CommitFrame
<1>t. tail[p] = 0 /\ lh # << >> /\ Len(lh) \in Nat /\ Len(lh) > 0
  <2>1. tail[p] = 0 /\ lh # << >> /\ lh \in Seq(Block)
    BY Zenon, <1>0, <1>u DEF LoopInv, TypeOK
  <2> QED
    BY <2>1
<1>1. TypeOK'
  BY Zenon, <1>0, <1>u, <1>f DEF TypeOK
<1>2. LoopInv'
  BY Zenon, <1>0, <1>u, <1>f, <1>t DEF LoopInv, InCommit, InRecovery
<1>3. HeaderInv'
  BY <1>0, <1>u, <1>f DEF HeaderInv, Distinct, InCommit, InRecovery
<1>4. CopyInv'
  BY <1>0, <1>u, <1>f, <1>t DEF CopyInv, Content, InCommit, InRecovery
<1>5. \A i \in 1 .. Len(lh) : ~Installed(i) /\ ~Installed(i)'
  BY <1>u, <1>f, <1>t
<1>6. \A c \in Block : Pending(c)' <=> Pending(c)
  BY Zenon, <1>u, <1>5 DEF Pending
<1>7. CacheInv' /\ PinBalance'
  BY Zenon, <1>0, <1>u, <1>6 DEF CacheInv, PinBalance, Content
<1>8. View' = View
  BY Zenon, <1>u, <1>f DEF View, Content
<1>9. Durable' = View
  <2>1. View = [b \in Block |-> Content(b)]
    BY Zenon, <1>f DEF View
  <2>2. ASSUME NEW b \in Block PROVE Durable'[b] = Content(b)
    <3>1. CASE b \in Entries(lh)
      <4> DEFINE i == CHOOSE i \in 1 .. Len(lh) : lh[i] = b
      <4>1. i \in 1 .. Len(lh) /\ lh[i] = b
        BY Zenon, <3>1 DEF Entries
      <4>2. slot[i] = Content(b)
        BY Zenon, <4>1, <1>0, <1>u DEF CopyInv
      <4>3. Durable'[b] = slot[i]
        BY Zenon, <3>1, <1>u DEF Durable
      <4> QED
        BY Zenon, <4>2, <4>3
    <3>2. CASE b \notin Entries(lh)
      <4>1. ~Pending(b)
        BY Zenon, <3>2 DEF Pending, Entries
      <4>2. Content(b) = disk[b]
        BY Zenon, <4>1, <1>0 DEF CacheInv
      <4> QED
        BY Zenon, <4>2, <3>2, <1>u DEF Durable
    <3> QED
      BY Zenon, <3>1, <3>2
  <2>3. Durable' = [b \in Block |-> Durable'[b]]
    BY DEF Durable
  <2> QED
    BY Zenon, <2>1, <2>2, <2>3
<1> QED
  BY Zenon, <1>f, <1>1, <1>2, <1>3, <1>4, <1>7, <1>8, <1>9 DEF IInv

(* Installing one block of the log changes no durable content.             *)
LEMMA InstallDurable ==
    ASSUME IInv, hdr = lh, UNCHANGED <<hdr, slot>>,
           NEW k \in 1 .. Len(lh), disk' = [disk EXCEPT ![lh[k]] = slot[k]]
    PROVE  /\ Durable' = Durable
           /\ disk' \in [Block -> Value]
           /\ \A i \in 1 .. k : (\A j \in 1 .. k - 1 : disk[lh[j]] = slot[j])
                                   => disk'[lh[i]] = slot[i]
<1>0. TypeOK /\ HeaderInv
  BY Zenon DEF IInv
<1>1. lh[k] \in Block /\ slot[k] \in Value /\ lh[k] \in Entries(hdr)
  BY <1>0, SizeAssumption DEF TypeOK, Entries
<1>2. disk' \in [Block -> Value]
  BY Zenon, <1>0, <1>1 DEF TypeOK
<1>3. \A b \in Block : b \notin Entries(hdr) => disk'[b] = disk[b]
  BY Zenon, <1>0, <1>1 DEF TypeOK
<1>4. Durable' = Durable
  BY <1>3 DEF Durable
<1>5. ASSUME NEW i \in 1 .. k, \A j \in 1 .. k - 1 : disk[lh[j]] = slot[j]
      PROVE  disk'[lh[i]] = slot[i]
  <2>0. i \in 1 .. Len(lh) /\ lh[i] \in Block /\ Len(lh) \in Nat
    BY <1>0 DEF TypeOK
  <2>1. CASE i = k
    BY Zenon, <2>1, <1>0, <1>1 DEF TypeOK
  <2>2. CASE i # k
    <3>1. lh[i] # lh[k]
      BY Zenon, <2>2, <2>0, <1>0 DEF HeaderInv, Distinct
    <3>2. i \in 1 .. k - 1
      BY <2>0, <2>2
    <3> QED
      BY Zenon, <3>1, <3>2, <2>0, <1>0, <1>5 DEF TypeOK
  <2> QED
    BY Zenon, <2>1, <2>2
<1> QED
  BY Zenon, <1>2, <1>4, <1>5

LEMMA InstallIInv ==
    ASSUME IInv, NEW p \in Proc, InstallTrans(p), pc[p] = "install"
    PROVE  IInv' /\ View' = View /\ Durable' = Durable /\ Active' = Active
<1>0. /\ TypeOK /\ CountInv /\ SoleCommitter /\ RecoveryAlone /\ LoopInv
      /\ HeaderInv /\ CopyInv /\ CacheInv /\ UsesBuffer /\ PinBalance /\ EmptyWhenQuiet
  BY Zenon DEF IInv
<1>a. PICK k \in Nat : k = tail[p] + 1
  BY <1>0 DEF TypeOK
<1>b. PICK b \in Block : b = lh[k]
  BY <1>0, <1>a DEF TypeOK, LoopInv
<1> DEFINE l == IF k = Len(lh) THEN "erase" ELSE "install"
<1>u. /\ UNCHANGED <<hdr, slot, held, lh, outstanding, committing, buf, wrote, panicked>>
      /\ pc' = [pc EXCEPT ![p] = l]
      /\ tail' = [tail EXCEPT ![p] = IF k = Len(lh) THEN 0 ELSE k]
      /\ disk' = [disk EXCEPT ![b] = slot[k]]
      /\ cache' = [cache EXCEPT ![b] = slot[k]]
      /\ pin' = [pin EXCEPT ![b] = pin[b] - 1]
  BY Zenon, <1>a, <1>b DEF InstallTrans, Round, Go, logVars
<1>l. l \in InCommit /\ pc[p] \in InCommit
  BY Zenon DEF InCommit
<1>f. /\ pc' \in [Proc -> PC] /\ pc'[p] = l
      /\ \A q \in Proc \ {p} : pc'[q] = pc[q] /\ pc[q] \notin InCommit \cup InRecovery
      /\ Active = {} /\ Active' = {} /\ ~Recovering /\ ~Recovering'
      /\ \A i : Installed(i) <=> (pc[p] = "install" /\ i <= tail[p]) \/ pc[p] = "erase"
      /\ \A i : Installed(i)' <=> (l = "install" /\ i <= tail'[p]) \/ l = "erase"
      /\ CountInv' /\ SoleCommitter' /\ RecoveryAlone' /\ UsesBuffer' /\ EmptyWhenQuiet'
  <2> HIDE DEF l
  <2> QED
    BY Zenon, <1>u, <1>l, CommitFrame
<1>k. /\ k \in 1 .. Len(lh) /\ k \in 1 .. nlog - 1 /\ b = lh[k] /\ tail[p] \in Nat
      /\ Len(lh) \in Nat /\ hdr = lh /\ k = tail[p] + 1
  BY <1>0, <1>a, <1>b, SizeAssumption DEF TypeOK, LoopInv, HeaderInv
<1>t. /\ tail' \in [Proc -> Nat] /\ tail'[p] = IF k = Len(lh) THEN 0 ELSE k
      /\ \A q \in Proc \ {p} : tail'[q] = tail[q]
  BY Zenon, <1>0, <1>u, <1>k DEF TypeOK
<1>d. /\ Durable' = Durable /\ disk' \in [Block -> Value]
      /\ \A i \in 1 .. k : disk'[lh[i]] = slot[i]
  <2>1. \A j \in 1 .. k - 1 : disk[lh[j]] = slot[j]
    BY <1>0, <1>k DEF CopyInv
  <2> QED
    BY Zenon, <2>1, <1>u, <1>k, InstallDurable
<1>v. slot[k] = Content(b) /\ slot[k] \in Value
  BY SMTT(30), <1>0, <1>k DEF CopyInv, TypeOK
<1>c. /\ cache' \in [Block -> Value \cup {NoValue}]
      /\ \A c \in Block : Content(c)' = Content(c)
      /\ \A c \in Block \ {b} : cache'[c] = cache[c] /\ disk'[c] = disk[c]
      /\ cache'[b] = disk'[b] /\ disk'[b] = slot[k]
  BY SMTT(30), <1>0, <1>u, <1>k, <1>v, ValueAssumption DEF TypeOK, Content
<1>i. \A i \in 1 .. Len(lh) : /\ Installed(i) <=> i <= tail[p]
                              /\ Installed(i)' <=> i <= k
  BY <1>f, <1>k, <1>t
<1>n. /\ Pending(b) /\ ~Pending(b)'
      /\ \A c \in Block \ {b} : Pending(c)' <=> Pending(c)
  <2>1. Pending(b)
    BY <1>i, <1>k DEF Pending
  <2>2. ~Pending(b)'
    <3>1. \A i \in 1 .. Len(lh) : lh[i] = b => i = k
      BY Zenon, <1>0, <1>k DEF HeaderInv, Distinct
    <3>2. Installed(k)'
      BY <1>i, <1>k
    <3> QED
      BY Zenon, <3>1, <3>2, <1>u DEF Pending
  <2>3. \A c \in Block \ {b} : Pending(c)' <=> Pending(c)
    BY <1>0, <1>i, <1>k, <1>u DEF Pending, TypeOK
  <2> QED
    BY Zenon, <2>1, <2>2, <2>3
<1>p. /\ pin' \in [Block -> Nat] /\ pin'[b] = 0
      /\ \A c \in Block \ {b} : pin'[c] = pin[c]
  <2>1. pin[b] = 1
    BY SMTT(30), <1>0, <1>k, <1>n DEF PinBalance
  <2> QED
    BY SMTT(30), <2>1, <1>0, <1>k, <1>u DEF TypeOK
<1>1. TypeOK'
  BY Zenon, <1>0, <1>u, <1>f, <1>t, <1>c, <1>d, <1>p DEF TypeOK
<1>2. LoopInv'
  BY SMTT(30), <1>0, <1>u, <1>f, <1>t, <1>k DEF LoopInv, InCommit, InRecovery
<1>3. HeaderInv'
  BY SMTT(30), <1>0, <1>u, <1>f, <1>k DEF HeaderInv, Distinct, InCommit, InRecovery
<1>4. CopyInv'
  <2>1. \A i \in 1 .. Len(lh) : slot[i] = Content(lh[i])'
    BY SMTT(30), <1>0, <1>u, <1>c DEF CopyInv, TypeOK
  <2> QED
    BY SMTT(30), <2>1, <1>u, <1>f, <1>t, <1>k, <1>d DEF CopyInv, InCommit, InRecovery
<1>5. PinBalance'
  BY Zenon, <1>0, <1>k, <1>n, <1>p DEF PinBalance
<1>6. CacheInv'
  <2>1. ASSUME NEW c \in Block \ {b}
        PROVE  /\ Pending(c)' => cache'[c] # NoValue
               /\ ~Pending(c)' /\ panicked' = 0 => Content(c)' = disk'[c]
    BY SMTT(30), <1>0, <1>u, <1>n, <1>c DEF CacheInv
  <2>2. /\ ~Pending(b)'
        /\ Content(b)' = disk'[b]
    <3>1. Content(b)' = Content(b)
      BY Zenon, <1>c, <1>k
    <3> QED
      BY Zenon, <3>1, <1>n, <1>c, <1>v
  <2> QED
    BY Zenon, <2>1, <2>2, <1>u DEF CacheInv
<1>7. View' = View
  BY Zenon, <1>f, <1>c DEF View
<1> QED
  BY Zenon, <1>f, <1>d, <1>1, <1>2, <1>3, <1>4, <1>5, <1>6, <1>7 DEF IInv

LEMMA EraseIInv ==
    ASSUME IInv, NEW p \in Proc, Erase(p)
    PROVE  IInv' /\ View' = View /\ Durable' = Durable /\ Active' = Active
<1>0. /\ TypeOK /\ CountInv /\ SoleCommitter /\ RecoveryAlone /\ LoopInv
      /\ HeaderInv /\ CopyInv /\ CacheInv /\ UsesBuffer /\ PinBalance /\ EmptyWhenQuiet
  BY Zenon DEF IInv
<1>u. /\ UNCHANGED <<disk, slot, cache, pin, held, outstanding, committing, buf, wrote, tail,
                     panicked>>
      /\ pc[p] = "erase" /\ pc' = [pc EXCEPT ![p] = "end"] /\ hdr' = << >> /\ lh' = << >>
  BY Zenon DEF Erase, Go, cacheVars
<1>l. "end" \in InCommit /\ pc[p] \in InCommit
  BY Zenon, <1>u DEF InCommit
<1>f. /\ pc' \in [Proc -> PC] /\ pc'[p] = "end"
      /\ \A q \in Proc \ {p} : pc'[q] = pc[q] /\ pc[q] \notin InCommit \cup InRecovery
      /\ Active = {} /\ Active' = {} /\ ~Recovering /\ ~Recovering'
      /\ \A i : Installed(i) <=> (pc[p] = "install" /\ i <= tail[p]) \/ pc[p] = "erase"
      /\ \A i : Installed(i)' <=> ("end" = "install" /\ i <= tail'[p]) \/ "end" = "erase"
      /\ CountInv' /\ SoleCommitter' /\ RecoveryAlone' /\ UsesBuffer' /\ EmptyWhenQuiet'
  BY Zenon, <1>u, <1>l, CommitFrame
<1>e. << >> \in Seq(Block) /\ Len(<< >>) = 0 /\ Distinct(<< >>)
  BY DEF Distinct
<1>n. /\ \A c \in Block : ~Pending(c)
      /\ \A c \in Block : ~Pending(c)'
  BY SMTT(30), <1>u, <1>f, <1>e DEF Pending
<1>1. TypeOK'
  BY <1>0, <1>u, <1>f, <1>e, SizeAssumption DEF TypeOK
<1>2. LoopInv'
  BY Zenon, <1>0, <1>u, <1>f DEF LoopInv, InCommit, InRecovery
<1>3. HeaderInv'
  BY SMTT(30), <1>0, <1>u, <1>f DEF HeaderInv, Distinct, InCommit, InRecovery
<1>4. CopyInv'
  BY Zenon, <1>u, <1>f DEF CopyInv, InCommit, InRecovery
<1>5. CacheInv' /\ PinBalance'
  BY Zenon, <1>0, <1>u, <1>n DEF CacheInv, PinBalance, Content
<1>6. View' = View
  BY Zenon, <1>u, <1>f DEF View, Content
<1>7. Durable' = Durable
  <2>1. hdr = lh /\ \A i \in 1 .. Len(lh) : disk[lh[i]] = slot[i]
    BY Zenon, <1>0, <1>u DEF HeaderInv, CopyInv
  <2>2. \A b \in Block : b \in Entries(hdr) =>
            slot[CHOOSE i \in 1 .. Len(hdr) : hdr[i] = b] = disk[b]
    BY Zenon, <2>1 DEF Entries
  <2>3. Entries(hdr') = {}
    BY <1>u, <1>e DEF Entries
  <2> QED
    BY ZenonT(40), <2>2, <2>3, <1>u DEF Durable
<1> QED
  BY Zenon, <1>f, <1>1, <1>2, <1>3, <1>4, <1>5, <1>6, <1>7 DEF IInv

LEMMA EndCommitIInv ==
    ASSUME IInv, panicked = 0, NEW p \in Proc, EndCommit(p)
    PROVE  IInv' /\ View' = View /\ Durable' = Durable /\ Active' = Active
<1>0. /\ TypeOK /\ CountInv /\ SoleCommitter /\ RecoveryAlone /\ LoopInv
      /\ HeaderInv /\ CopyInv /\ CacheInv /\ UsesBuffer /\ PinBalance /\ EmptyWhenQuiet
  BY Zenon DEF IInv
<1>u. /\ UNCHANGED <<disk, hdr, slot, cache, pin, held, lh, outstanding, buf, wrote, tail,
                     panicked>>
      /\ pc[p] = "end" /\ pc' = [Wakeup(pc) EXCEPT ![p] = "idle"] /\ committing' = 0
  BY Zenon DEF EndCommit, diskVars, cacheVars
<1>x. /\ committing = 1 /\ outstanding = 0 /\ Active = {} /\ ~Recovering
      /\ \A q \in Proc : pc[q] \notin InOp \cup InRecovery
      /\ \A q \in Proc \ {p} : pc[q] \notin InCommit
  BY Zenon, <1>u, CommitExcludes DEF InCommit
<1>p. /\ pc' \in [Proc -> PC] /\ pc'[p] = "idle"
      /\ \A q \in Proc \ {p} : pc'[q] = pc[q] \/ (pc[q] = "asleep" /\ pc'[q] = "begin")
  <2>1. "idle" \in PC
    BY Zenon DEF PC
  <2> QED
    BY Zenon, <2>1, <1>0, <1>u, WakeupFacts
<1>q. \A q \in Proc : pc'[q] \notin InOp \cup InRecovery \cup InCommit
  BY Zenon, <1>x, <1>p DEF InOp, InRecovery, InCommit
<1>e. lh = << >> /\ hdr = << >>
  BY Zenon, <1>0, <1>u, <1>x DEF LoopInv, HeaderInv, InCommit
<1>a. Active' = {} /\ ~Recovering'
  BY Zenon, <1>q DEF Active, Recovering
<1>n. /\ \A c \in Block : ~Pending(c)
      /\ \A c \in Block : ~Pending(c)'
  BY <1>u, <1>e DEF Pending
<1>1. TypeOK'
  BY Zenon, <1>0, <1>u, <1>p DEF TypeOK
<1>2. CountInv'
  BY SMTT(30), <1>x, <1>u, <1>a, FS_EmptySet DEF CountInv
<1>3. SoleCommitter' /\ RecoveryAlone' /\ LoopInv' /\ CopyInv'
  BY <1>u, <1>q DEF SoleCommitter, RecoveryAlone, LoopInv, CopyInv, InCommit, InRecovery
<1>4. HeaderInv'
  BY SMTT(30), <1>0, <1>u, <1>q, <1>e DEF HeaderInv, Distinct, InCommit, InRecovery
<1>5. CacheInv' /\ PinBalance'
  BY Zenon, <1>0, <1>u, <1>n DEF CacheInv, PinBalance, Content
<1>6. UsesBuffer' /\ EmptyWhenQuiet'
  BY Zenon, <1>0, <1>u, <1>p, <1>e DEF UsesBuffer, EmptyWhenQuiet
<1>7. View' = View /\ Durable' = Durable
  BY Zenon, <1>u, <1>x, <1>a, ViewFrame
<1> QED
  BY Zenon, <1>x, <1>a, <1>1, <1>2, <1>3, <1>4, <1>5, <1>6, <1>7 DEF IInv

-----------------------------------------------------------------------------
(* What every step of recovery from one control point to another keeps.    *)
LEMMA RecoveryFrame ==
    ASSUME IInv, NEW p \in Proc, pc[p] \in InRecovery,
           NEW l \in InRecovery, pc' = [pc EXCEPT ![p] = l],
           UNCHANGED <<outstanding, committing, buf>>
    PROVE  /\ pc' \in [Proc -> PC] /\ pc'[p] = l
           /\ \A q \in Proc \ {p} : pc'[q] = "down"
           /\ Active = {} /\ Active' = {} /\ Recovering /\ Recovering'
           /\ \A i : Installed(i) /\ Installed(i)'
           /\ CountInv' /\ SoleCommitter' /\ UsesBuffer' /\ EmptyWhenQuiet'
<1>0. /\ TypeOK /\ CountInv /\ SoleCommitter /\ RecoveryAlone /\ LoopInv
      /\ HeaderInv /\ CopyInv /\ CacheInv /\ UsesBuffer /\ PinBalance /\ EmptyWhenQuiet
  BY Zenon DEF IInv
<1>1. /\ pc' \in [Proc -> PC] /\ pc'[p] = l
      /\ \A q \in Proc \ {p} : pc'[q] = "down" /\ pc[q] = "down"
  <2>1. l \in PC /\ pc \in [Proc -> PC]
    BY Zenon, <1>0 DEF PC, TypeOK
  <2>2. \A q \in Proc \ {p} : pc[q] = "down"
    BY Zenon, <1>0 DEF RecoveryAlone
  <2> QED
    BY Zenon, <2>1, <2>2
<1>2. Active = {} /\ Active' = {} /\ Recovering /\ Recovering'
  BY Zenon, <1>1 DEF Active, Recovering, InOp, InRecovery
<1>3. \A i : Installed(i) /\ Installed(i)'
  BY Zenon, <1>1 DEF Installed
<1>4. CountInv'
  BY Zenon, <1>0, <1>2, FS_EmptySet DEF CountInv
<1>5. SoleCommitter'
  BY Zenon, <1>0, <1>1 DEF SoleCommitter, InCommit, InRecovery
<1>6. UsesBuffer' /\ EmptyWhenQuiet'
  BY Zenon, <1>0, <1>1, <1>2 DEF UsesBuffer, EmptyWhenQuiet, InRecovery
<1> QED
  BY Zenon, <1>1, <1>2, <1>3, <1>4, <1>5, <1>6

LEMMA ReadHeadIInv ==
    ASSUME IInv, NEW p \in Proc, ReadHead(p)
    PROVE  IInv' /\ View' = View /\ Durable' = Durable /\ Active' = Active
<1>0. /\ TypeOK /\ CountInv /\ SoleCommitter /\ RecoveryAlone /\ LoopInv
      /\ HeaderInv /\ CopyInv /\ CacheInv /\ UsesBuffer /\ PinBalance /\ EmptyWhenQuiet
  BY Zenon DEF IInv
<1> DEFINE l == IF hdr # << >> THEN "rinstall" ELSE "rerase"
<1>u. /\ UNCHANGED <<disk, hdr, slot, cache, pin, held, outstanding, committing, buf, wrote,
                     tail, panicked>>
      /\ pc[p] = "read_head" /\ pc' = [pc EXCEPT ![p] = l] /\ lh' = hdr
  BY Zenon DEF ReadHead, Go, diskVars, cacheVars
<1>l. l \in InRecovery /\ pc[p] \in InRecovery
  BY Zenon, <1>u DEF InRecovery
<1>f. /\ pc' \in [Proc -> PC] /\ pc'[p] = l
      /\ \A q \in Proc \ {p} : pc'[q] = "down"
      /\ Active = {} /\ Active' = {} /\ Recovering /\ Recovering'
      /\ \A i : Installed(i) /\ Installed(i)'
      /\ CountInv' /\ SoleCommitter' /\ UsesBuffer' /\ EmptyWhenQuiet'
  <2> HIDE DEF l
  <2> QED
    BY Zenon, <1>u, <1>l, RecoveryFrame
<1>t. tail[p] = 0 /\ (hdr # << >> => Len(hdr) > 0) /\ (hdr = << >> => Len(hdr) = 0)
  <2>1. tail[p] = 0
    BY Zenon, <1>0, <1>u DEF RecoveryAlone, InRecovery
  <2>2. hdr \in Seq(Block)
    BY Zenon, <1>0 DEF TypeOK
  <2> QED
    BY <2>1, <2>2
<1>n. /\ \A c \in Block : ~Pending(c)
      /\ \A c \in Block : ~Pending(c)'
  BY Zenon, <1>f DEF Pending
<1>1. TypeOK'
  BY Zenon, <1>0, <1>u, <1>f DEF TypeOK
<1>2. RecoveryAlone' /\ LoopInv'
  BY Zenon, <1>u, <1>f, <1>t DEF RecoveryAlone, LoopInv, InRecovery
<1>3. HeaderInv'
  BY <1>0, <1>u, <1>f, <1>l DEF HeaderInv, Distinct, InRecovery
<1>4. CopyInv'
  BY <1>u, <1>f, <1>t DEF CopyInv
<1>5. CacheInv' /\ PinBalance'
  BY Zenon, <1>0, <1>u, <1>n DEF CacheInv, PinBalance, Content
<1>6. View' = View /\ Durable' = Durable
  <2>1. Durable' = Durable
    BY Zenon, <1>u, DurableFrame
  <2> QED
    BY Zenon, <2>1, <1>f DEF View
<1> QED
  BY Zenon, <1>f, <1>1, <1>2, <1>3, <1>4, <1>5, <1>6 DEF IInv

LEMMA RecoverInstallIInv ==
    ASSUME IInv, NEW p \in Proc, InstallTrans(p), pc[p] = "rinstall"
    PROVE  IInv' /\ View' = View /\ Durable' = Durable /\ Active' = Active
<1>0. /\ TypeOK /\ CountInv /\ SoleCommitter /\ RecoveryAlone /\ LoopInv
      /\ HeaderInv /\ CopyInv /\ CacheInv /\ UsesBuffer /\ PinBalance /\ EmptyWhenQuiet
  BY Zenon DEF IInv
<1>a. PICK k \in Nat : k = tail[p] + 1
  BY <1>0 DEF TypeOK
<1>b. PICK b \in Block : b = lh[k]
  BY <1>0, <1>a DEF TypeOK, LoopInv
<1> DEFINE l == IF k = Len(lh) THEN "rerase" ELSE "rinstall"
<1>u. /\ UNCHANGED <<hdr, slot, held, lh, outstanding, committing, buf, wrote, panicked>>
      /\ pc' = [pc EXCEPT ![p] = l]
      /\ tail' = [tail EXCEPT ![p] = IF k = Len(lh) THEN 0 ELSE k]
      /\ disk' = [disk EXCEPT ![b] = slot[k]]
      /\ cache' = [cache EXCEPT ![b] = slot[k]]
      /\ pin' = [pin EXCEPT ![b] = pin[b]]
  BY Zenon, <1>a, <1>b DEF InstallTrans, Round, Go, logVars
<1>l. l \in InRecovery /\ pc[p] \in InRecovery
  BY Zenon DEF InRecovery
<1>f. /\ pc' \in [Proc -> PC] /\ pc'[p] = l
      /\ \A q \in Proc \ {p} : pc'[q] = "down"
      /\ Active = {} /\ Active' = {} /\ Recovering /\ Recovering'
      /\ \A i : Installed(i) /\ Installed(i)'
      /\ CountInv' /\ SoleCommitter' /\ UsesBuffer' /\ EmptyWhenQuiet'
  <2> HIDE DEF l
  <2> QED
    BY Zenon, <1>u, <1>l, RecoveryFrame
<1>k. /\ k \in 1 .. Len(lh) /\ k \in 1 .. nlog - 1 /\ b = lh[k] /\ tail[p] \in Nat
      /\ Len(lh) \in Nat /\ hdr = lh /\ k = tail[p] + 1
  BY <1>0, <1>a, <1>b, SizeAssumption DEF TypeOK, LoopInv, HeaderInv
<1>t. /\ tail' \in [Proc -> Nat] /\ tail'[p] = IF k = Len(lh) THEN 0 ELSE k
      /\ \A q \in Proc \ {p} : tail'[q] = tail[q]
  BY Zenon, <1>0, <1>u, <1>k DEF TypeOK
<1>d. /\ Durable' = Durable /\ disk' \in [Block -> Value]
      /\ \A i \in 1 .. k : disk'[lh[i]] = slot[i]
  <2>1. \A j \in 1 .. k - 1 : disk[lh[j]] = slot[j]
    BY <1>0, <1>k DEF CopyInv
  <2> QED
    BY Zenon, <2>1, <1>u, <1>k, InstallDurable
<1>c. /\ cache' \in [Block -> Value \cup {NoValue}] /\ pin' = pin
      /\ \A c \in Block \ {b} : cache'[c] = cache[c] /\ disk'[c] = disk[c]
      /\ cache'[b] = disk'[b]
  BY Zenon, <1>0, <1>u, <1>k DEF TypeOK
<1>n. /\ \A c \in Block : ~Pending(c)
      /\ \A c \in Block : ~Pending(c)'
  BY Zenon, <1>f DEF Pending
<1>1. TypeOK'
  BY Zenon, <1>0, <1>u, <1>f, <1>t, <1>c, <1>d DEF TypeOK
<1>2. RecoveryAlone' /\ LoopInv'
  BY <1>u, <1>f, <1>t, <1>k DEF RecoveryAlone, LoopInv, InRecovery
<1>3. HeaderInv'
  BY SMTT(30), <1>0, <1>u, <1>f, <1>k, <1>l DEF HeaderInv, Distinct, InRecovery
<1>4. CopyInv'
  BY <1>u, <1>f, <1>t, <1>k, <1>d DEF CopyInv
<1>5. PinBalance'
  BY Zenon, <1>0, <1>c, <1>n DEF PinBalance
<1>6. CacheInv'
  BY Zenon, <1>0, <1>u, <1>c, <1>n DEF CacheInv, Content
<1>7. View' = View
  BY Zenon, <1>f, <1>d DEF View
<1> QED
  BY Zenon, <1>f, <1>d, <1>1, <1>2, <1>3, <1>4, <1>5, <1>6, <1>7 DEF IInv

LEMMA RecoverEraseIInv ==
    ASSUME IInv, panicked = 0, NEW p \in Proc, RecoverErase(p)
    PROVE  IInv' /\ View' = View /\ Durable' = Durable /\ Active' = Active
<1>0. /\ TypeOK /\ CountInv /\ SoleCommitter /\ RecoveryAlone /\ LoopInv
      /\ HeaderInv /\ CopyInv /\ CacheInv /\ UsesBuffer /\ PinBalance /\ EmptyWhenQuiet
  BY Zenon DEF IInv
<1>u. /\ UNCHANGED <<disk, slot, cache, pin, held, outstanding, committing, buf, wrote, tail,
                     panicked>>
      /\ pc[p] = "rerase" /\ pc' = [q \in Proc |-> "idle"] /\ hdr' = << >> /\ lh' = << >>
  BY Zenon DEF RecoverErase, cacheVars
<1>x. /\ \A q \in Proc \ {p} : pc[q] = "down"
      /\ Recovering /\ ~Recovering' /\ Active = {} /\ Active' = {}
      /\ \A i : Installed(i)
  BY Zenon, <1>0, <1>u DEF RecoveryAlone, Recovering, Active, Installed, InOp, InRecovery
<1>e. << >> \in Seq(Block) /\ Len(<< >>) = 0 /\ Distinct(<< >>)
  BY DEF Distinct
<1>n. /\ \A c \in Block : ~Pending(c)
      /\ \A c \in Block : ~Pending(c)'
  BY <1>u, <1>x, <1>e DEF Pending
<1>p. pc' \in [Proc -> PC] /\ \A q \in Proc : pc'[q] = "idle"
  BY Zenon, <1>u DEF PC
<1>m. committing = 0
  <2>1. \A q \in Proc : pc[q] \notin InCommit
    BY Zenon, <1>u, <1>x DEF InCommit
  <2> QED
    BY <2>1, <1>0 DEF SoleCommitter, TypeOK
<1>1. TypeOK'
  <2>1. lh' \in Seq(Block) /\ hdr' \in Seq(Block) /\ Len(lh') <= nlog - 1
        /\ Len(hdr') <= nlog - 1
    BY <1>u, <1>e, SizeAssumption
  <2> QED
    BY Zenon, <2>1, <1>0, <1>u, <1>p DEF TypeOK
<1>2. CountInv'
  BY Zenon, <1>0, <1>u, <1>x DEF CountInv
<1>3. SoleCommitter' /\ RecoveryAlone' /\ LoopInv' /\ CopyInv' /\ UsesBuffer'
  BY <1>u, <1>p, <1>m
     DEF SoleCommitter, RecoveryAlone, LoopInv, CopyInv, UsesBuffer, InCommit, InRecovery
<1>4. HeaderInv' /\ EmptyWhenQuiet'
  BY Zenon, <1>u, <1>p, <1>e DEF HeaderInv, EmptyWhenQuiet, Distinct
<1>5. CacheInv' /\ PinBalance'
  BY Zenon, <1>0, <1>u, <1>n DEF CacheInv, PinBalance, Content
<1>6. /\ \A b \in Block : Durable[b] = disk[b]
      /\ Durable' = disk
  <2>1. hdr = lh /\ \A i \in 1 .. Len(lh) : disk[lh[i]] = slot[i]
    BY Zenon, <1>0, <1>u DEF HeaderInv, CopyInv
  <2>2. \A b \in Block : b \in Entries(hdr) =>
            slot[CHOOSE i \in 1 .. Len(hdr) : hdr[i] = b] = disk[b]
    BY Zenon, <2>1 DEF Entries
  <2>3. Entries(hdr') = {}
    BY <1>u, <1>e DEF Entries
  <2>4. disk \in [Block -> Value]
    BY Zenon, <1>0 DEF TypeOK
  <2> QED
    BY Zenon, <2>2, <2>3, <2>4, <1>u DEF Durable
<1>7. Durable = disk
  BY Zenon, <1>6, <1>0 DEF Durable, TypeOK
<1>8. View = disk
  BY Zenon, <1>7, <1>x DEF View
<1>9. View' = disk
  <2>1. \A b \in Block : Content(b)' = disk[b]
    BY Zenon, <1>0, <1>n, <1>u DEF CacheInv, Content
  <2> QED
    BY Zenon, <2>1, <1>x, <1>0 DEF View, TypeOK
<1> QED
  BY Zenon, <1>x, <1>1, <1>2, <1>3, <1>4, <1>5, <1>6, <1>7, <1>8, <1>9 DEF IInv

LEMMA CrashIInv ==
    ASSUME IInv, Crash
    PROVE  IInv' /\ View' = Durable /\ Durable' = Durable /\ Active' = {}
<1>0. TypeOK /\ HeaderInv
  BY Zenon DEF IInv
<1>u. /\ UNCHANGED <<disk, hdr, slot>>
      /\ cache' = [b \in Block |-> NoValue] /\ pin' = [b \in Block |-> 0]
      /\ held' = [b \in Block |-> NoProc]
      /\ lh' = << >> /\ outstanding' = 0 /\ committing' = 0
      /\ pc' = [p \in Proc |-> IF p = InitProc THEN "read_head" ELSE "down"]
      /\ buf' = [p \in Proc |-> NoBlock] /\ wrote' = [p \in Proc |-> {}]
      /\ tail' = [p \in Proc |-> 0] /\ panicked' = 0
  BY Zenon DEF Crash, Boot, diskVars
<1>p. /\ pc' \in [Proc -> PC] /\ pc'[InitProc] = "read_head"
      /\ \A q \in Proc \ {InitProc} : pc'[q] = "down"
  BY Zenon, <1>u, ProcAssumption DEF PC, InRecovery
<1>a. Active' = {} /\ Recovering'
  BY Zenon, <1>p, ProcAssumption DEF Active, InOp, Recovering, InRecovery
<1>e. << >> \in Seq(Block) /\ Len(<< >>) = 0 /\ Distinct(<< >>)
  BY DEF Distinct
<1>n. \A c \in Block : ~Pending(c)'
  BY <1>u, <1>e DEF Pending
<1>1. TypeOK'
  <2>1. /\ cache' \in [Block -> Value \cup {NoValue}] /\ pin' \in [Block -> Nat]
        /\ held' \in [Block -> Proc \cup {NoProc}]
    BY Zenon, <1>u
  <2>2. buf' \in [Proc -> Block \cup {NoBlock}] /\ wrote' \in [Proc -> SUBSET Block]
        /\ tail' \in [Proc -> Nat]
    BY Zenon, <1>u
  <2> QED
    BY <2>1, <2>2, <1>0, <1>u, <1>p, <1>e, SizeAssumption DEF TypeOK
<1>2. CountInv'
  BY Zenon, <1>u, <1>a, FS_EmptySet DEF CountInv
<1>3. SoleCommitter' /\ LoopInv' /\ CopyInv' /\ UsesBuffer'
  BY <1>u, <1>p DEF SoleCommitter, LoopInv, CopyInv, UsesBuffer, InCommit, InRecovery
<1>4. RecoveryAlone'
  BY Zenon, <1>u, <1>p DEF RecoveryAlone, InRecovery
<1>5. HeaderInv' /\ EmptyWhenQuiet'
  BY <1>0, <1>u, <1>p, <1>e, ProcAssumption DEF HeaderInv, EmptyWhenQuiet, Distinct, InRecovery
<1>6. CacheInv' /\ PinBalance'
  BY Zenon, <1>u, <1>n DEF CacheInv, PinBalance, Content
<1>7. Durable' = Durable
  BY Zenon, <1>u, DurableFrame
<1>8. View' = Durable
  BY Zenon, <1>7, <1>a DEF View
<1> QED
  BY Zenon, <1>a, <1>1, <1>2, <1>3, <1>4, <1>5, <1>6, <1>7, <1>8 DEF IInv

-----------------------------------------------------------------------------
(* Every step of the log keeps the invariant and is a step of AtomicDisk,  *)
(* or leaves the state of AtomicDisk alone.                                *)
LEMMA StepSimulates ==
    ASSUME IInv, [Next]_vars
    PROVE  IInv' /\ [AD!Next]_(AD!vars)
<1> DEFINE Stutter == View' = View /\ Durable' = Durable /\ Active' = Active
<1>0. Stutter => [AD!Next]_(AD!vars)
  BY Zenon DEF AD!vars
<1>1. CASE UNCHANGED vars
  <2>u. UNCHANGED <<disk, hdr, slot, cache, pin, held, lh, outstanding, committing, pc, buf,
                    wrote, tail, panicked>>
    BY Zenon, <1>1 DEF vars, diskVars, cacheVars, logVars, threadVars
  <2>0. /\ TypeOK /\ CountInv /\ SoleCommitter /\ RecoveryAlone /\ LoopInv
        /\ HeaderInv /\ CopyInv /\ CacheInv /\ UsesBuffer /\ PinBalance /\ EmptyWhenQuiet
    BY Zenon DEF IInv
  <2>1. TypeOK' /\ LoopInv' /\ UsesBuffer' /\ HeaderInv'
    BY Zenon, <2>0, <2>u DEF TypeOK, LoopInv, UsesBuffer, HeaderInv, Distinct
  <2>2. (\A i : Installed(i)' <=> Installed(i)) /\ (Recovering' <=> Recovering)
        /\ Active' = Active
    BY SMTT(30), <2>u DEF Installed, Recovering, Active
  <2>3. CountInv' /\ SoleCommitter' /\ RecoveryAlone' /\ EmptyWhenQuiet'
    BY SMTT(30), <2>0, <2>u, <2>2 DEF CountInv, SoleCommitter, RecoveryAlone, EmptyWhenQuiet
  <2>4. \A b \in Block : (Pending(b)' <=> Pending(b)) /\ Content(b)' = Content(b)
    BY Zenon, <2>u, <2>2 DEF Pending, Content
  <2>5. CopyInv'
    BY Zenon, <2>0, <2>u DEF CopyInv, Content
  <2>6. CacheInv' /\ PinBalance'
    BY Zenon, <2>0, <2>u, <2>4 DEF CacheInv, PinBalance
  <2>7. View' = View /\ Durable' = Durable
    BY Zenon, <2>u, <2>2, ViewFrame
  <2> QED
    BY Zenon, <2>1, <2>2, <2>3, <2>5, <2>6, <2>7, <1>0 DEF IInv
<1>2. CASE Crash
  BY Zenon, <1>2, CrashIInv DEF AD!Next, AD!Crash
<1>3. ASSUME panicked = 0, NEW b \in Block, Recycle(b)
      PROVE  IInv' /\ [AD!Next]_(AD!vars)
  <2>1. Active' = Active
    BY Zenon, <1>3 DEF Recycle, threadVars, Active
  <2> QED
    BY Zenon, <2>1, <1>3, <1>0, RecycleIInv
<1>4. ASSUME panicked = 0, NEW p \in Proc,
             OpStep(p) \/ CommitStep(p) \/ ReadHead(p) \/ RecoverErase(p)
      PROVE  IInv' /\ [AD!Next]_(AD!vars)
  <2>0. TypeOK
    BY Zenon DEF IInv
  <2>1. CASE BeginOp(p)
    <3>1. IInv' /\ View' = View /\ Durable' = Durable
      BY Zenon, <2>1, BeginOpIInv
    <3>2. CASE pc' = [pc EXCEPT ![p] = "asleep"]
      <4>1. Active' = Active
        BY Zenon, <2>0, <2>1, <3>2 DEF BeginOp, Active, InOp, TypeOK
      <4> QED
        BY Zenon, <3>1, <4>1, <1>0
    <3>3. CASE pc' = [pc EXCEPT ![p] = "inop"]
      <4>1. p \notin Active /\ Active' = Active \cup {p}
        BY Zenon, <2>0, <2>1, <3>3 DEF BeginOp, Active, InOp, TypeOK
      <4> QED
        BY Zenon, <3>1, <4>1 DEF AD!Next, AD!Begin
    <3> QED
      BY Zenon, <2>1, <3>2, <3>3 DEF BeginOp, Go
  <2>2. CASE Brelse(p)
    <3>1. Active' = Active
      BY Zenon, <2>0, <2>2 DEF Brelse, Go, Active, InOp, TypeOK
    <3> QED
      BY Zenon, <3>1, <2>2, <1>0, BrelseIInv
  <2>3. CASE EndOp(p)
    BY Zenon, <2>3, <1>4, EndOpIInv DEF AD!Next, AD!End
  <2>4. ASSUME NEW b \in Block, Bread(p, b) PROVE IInv' /\ [AD!Next]_(AD!vars)
    <3>1. Active' = Active
      BY Zenon, <2>0, <2>4 DEF Bread, Go, Active, InOp, TypeOK
    <3> QED
      BY Zenon, <3>1, <2>4, <1>0, BreadIInv
  <2>5. ASSUME NEW v \in Value, LogWrite(p, v) PROVE IInv' /\ [AD!Next]_(AD!vars)
    <3>1. /\ IInv' /\ Durable' = Durable /\ Active' = Active /\ p \in Active
          /\ buf[p] \in Block /\ View' = [View EXCEPT ![buf[p]] = v]
      BY Zenon, <2>5, <1>4, LogWriteIInv
    <3>2. AD!Write(p, buf[p], v)
      BY Zenon, <3>1 DEF AD!Write
    <3>3. AD!Next
      BY Zenon, <3>1, <3>2 DEF AD!Next
    <3> QED
      BY Zenon, <3>1, <3>3
  <2>6. CASE Commit(p)
    BY Zenon, <2>6, <1>0, CommitIInv
  <2>7. CASE WriteLog(p)
    BY Zenon, <2>7, <1>0, WriteLogIInv
  <2>8. CASE WriteHead(p)
    BY Zenon, <2>8, <1>4, WriteHeadIInv DEF AD!Next, AD!Commit
  <2>9. CASE InstallTrans(p)
    <3>1. pc[p] = "install" \/ pc[p] = "rinstall"
      BY Zenon, <2>9 DEF InstallTrans, Round
    <3> QED
      BY Zenon, <2>9, <3>1, <1>0, InstallIInv, RecoverInstallIInv
  <2>10. CASE Erase(p)
    BY Zenon, <2>10, <1>0, EraseIInv
  <2>11. CASE EndCommit(p)
    BY Zenon, <2>11, <1>0, <1>4, EndCommitIInv
  <2>12. CASE ReadHead(p)
    BY Zenon, <2>12, <1>0, ReadHeadIInv
  <2>13. CASE RecoverErase(p)
    BY Zenon, <2>13, <1>0, <1>4, RecoverEraseIInv
  <2> QED
    BY Zenon, <1>4, <2>1, <2>2, <2>3, <2>4, <2>5, <2>6, <2>7, <2>8, <2>9, <2>10, <2>11, <2>12,
       <2>13 DEF OpStep, CommitStep
<1> QED
  BY Zenon, <1>1, <1>2, <1>3, <1>4 DEF Next

(* Every reachable state of log.c, a crash at any point included, satisfies *)
(* the inductive invariant.                                                *)
THEOREM Invariance == Spec => []IInv
<1>1. IInv /\ [Next]_vars => IInv'
  BY Zenon, StepSimulates
<1> QED
  BY <1>1, InitIInv, PTL DEF Spec

(* The log keeps its data structures well formed.                          *)
THEOREM TypeCorrect == Spec => []TypeOK
<1>1. IInv => TypeOK
  BY Zenon DEF IInv
<1> QED
  BY <1>1, Invariance, PTL

(* log_write() and install_trans() balance the pins of every block, for    *)
(* any interleaving, crash and recovery.                                   *)
THEOREM PinsBalance == Spec => []PinBalance
<1>1. IInv => PinBalance
  BY Zenon DEF IInv
<1> QED
  BY <1>1, Invariance, PTL

(* Everything written is on disk once the last end_op() has returned.      *)
THEOREM DurableWhenQuiet == Spec => []QuiescentDurable
<1>1. IInv => QuiescentDurable
  <2> SUFFICES ASSUME IInv, outstanding = 0, committing = 0, ~Recovering
               PROVE  View = Durable
    BY Zenon DEF QuiescentDurable
  <2>0. TypeOK /\ SoleCommitter /\ HeaderInv /\ CacheInv /\ EmptyWhenQuiet
    BY Zenon DEF IInv
  <2>1. lh = << >> /\ panicked = 0 /\ \A p \in Proc : pc[p] \notin InCommit \cup InRecovery
    BY <2>0 DEF EmptyWhenQuiet, SoleCommitter, Recovering
  <2>2. hdr = << >>
    BY Zenon, <2>0, <2>1 DEF HeaderInv, InCommit, InRecovery
  <2>3. \A b \in Block : ~Pending(b) /\ Content(b) = disk[b]
    BY <2>0, <2>1 DEF CacheInv, Pending
  <2>4. Durable = [b \in Block |-> disk[b]]
    BY <2>2 DEF Durable, Entries
  <2> QED
    BY Zenon, <2>3, <2>4 DEF View
<1> QED
  BY <1>1, Invariance, PTL

(* The log implements the atomic disk.                                     *)
THEOREM Refinement == Spec => RefinesAtomicDisk
<1>1. Init => AD!Init
  <2> SUFFICES ASSUME Init PROVE AD!Init
    BY Zenon
  <2>1. IInv
    BY Zenon, InitIInv
  <2>2. Active = {} /\ Recovering
    BY Zenon, ProcAssumption DEF Init, Active, InOp, Recovering, InRecovery
  <2>3. Durable = disk
    BY DEF Init, Durable, Entries
  <2>4. View = Durable
    BY Zenon, <2>2 DEF View
  <2>5. disk \in [Block -> Value]
    BY Zenon DEF Init
  <2> QED
    BY Zenon, <2>2, <2>3, <2>4, <2>5 DEF AD!Init
<1>2. IInv /\ [Next]_vars => [AD!Next]_(AD!vars)
  BY Zenon, StepSimulates
<1> QED
  BY <1>1, <1>2, Invariance, PTL DEF Spec, RefinesAtomicDisk, AD!Spec

-----------------------------------------------------------------------------

(* What an operation logged is in the transaction, and an operation logs   *)
(* no more than OpBlocks blocks.                                           *)
WroteInv ==
    \A p \in Proc :
        /\ IsFiniteSet(wrote[p]) /\ Cardinality(wrote[p]) <= OpBlocks
        /\ IF pc[p] \in InOp THEN wrote[p] \subseteq Entries(lh) ELSE wrote[p] = {}

RoomInv == SpaceReserved /\ WroteInv

-----------------------------------------------------------------------------
(* At most OpBlocks blocks are owed per operation.                         *)
LEMMA ProductBound ==
    ASSUME NEW A, IsFiniteSet(A), NEW U \in SUBSET (A \X (1 .. OpBlocks))
    PROVE  /\ IsFiniteSet(U) /\ Cardinality(U) \in Nat
           /\ Cardinality(U) <= Cardinality(A) * OpBlocks
<1>1. IsFiniteSet(1 .. OpBlocks) /\ Cardinality(1 .. OpBlocks) = OpBlocks
  BY FS_Interval, SizeAssumption
<1>2. /\ IsFiniteSet(A \X (1 .. OpBlocks))
      /\ Cardinality(A \X (1 .. OpBlocks)) = Cardinality(A) * OpBlocks
  BY Zenon, <1>1, FS_Product
<1> QED
  BY Zenon, <1>2, FS_Subset, FS_CardinalityType

(* k reservations of m blocks each leave two surpluses or more.            *)
LEMMA Surplus ==
    ASSUME NEW k \in Nat, k >= 2, NEW m \in Nat, NEW o \in 0 .. m, NEW l \in Nat,
           l + k * m <= 3 * m
    PROVE  l + k * o <= 3 * m - 2 * (m - o)
<1>1. PICK d \in Nat : m = o + d
  <2>1. m - o \in Nat /\ m = o + (m - o)
    OBVIOUS
  <2> QED
    BY Zenon, <2>1
<1>2. k * m = k * o + k * d
  BY <1>1
<1>3. k * d >= 2 * d
  BY SMTT(30)
<1>4. k * o \in Nat /\ k * d \in Nat
  OBVIOUS
<1> QED
  BY <1>1, <1>2, <1>3, <1>4

LEMMA InitRoom == Init => RoomInv
<1> SUFFICES ASSUME Init PROVE RoomInv
  BY Zenon
<1>1. \A p \in Proc : wrote[p] = {} /\ pc[p] \notin InOp
  BY Zenon DEF Init, InOp
<1> QED
  BY <1>1, FS_EmptySet, SizeAssumption DEF RoomInv, SpaceReserved, WroteInv, Init

(* A step after which nothing is outstanding and nothing has been written. *)
LEMMA QuietRoom ==
    ASSUME outstanding' = 0,
           \A p \in Proc : wrote'[p] = {} /\ pc'[p] \notin InOp
    PROVE  RoomInv'
BY FS_EmptySet, SizeAssumption DEF RoomInv, SpaceReserved, WroteInv

(* A step of an operation that writes nothing.                             *)
LEMMA SameRoom ==
    ASSUME RoomInv, UNCHANGED <<lh, outstanding, wrote>>,
           \A p \in Proc : pc'[p] \in InOp <=> pc[p] \in InOp
    PROVE  RoomInv'
<1>1. Owed' = Owed
  BY Zenon DEF Owed
<1> QED
  BY Zenon, <1>1 DEF RoomInv, SpaceReserved, WroteInv, Entries

LEMMA BeginOpRoom ==
    ASSUME IInv, IInv', RoomInv, NEW p \in Proc, BeginOp(p)
    PROVE  RoomInv'
<1>0. TypeOK /\ CountInv /\ CountInv' /\ EmptyWhenQuiet /\ SoleCommitter /\ RecoveryAlone
  BY Zenon DEF IInv
<1>u. UNCHANGED <<lh, wrote, committing>> /\ pc[p] \in {"idle", "begin"}
  BY Zenon DEF BeginOp
<1>1. CASE pc' = [pc EXCEPT ![p] = "asleep"]
  <2>1. UNCHANGED outstanding
    BY Zenon, <1>0, <1>1 DEF BeginOp, Go, TypeOK
  <2>2. \A q \in Proc : pc'[q] \in InOp <=> pc[q] \in InOp
    BY Zenon, <1>0, <1>1, <1>u DEF TypeOK, InOp
  <2> QED
    BY Zenon, <2>1, <2>2, <1>u, SameRoom
<1>2. CASE pc' = [pc EXCEPT ![p] = "inop"]
  <2>1. /\ outstanding' = outstanding + 1 /\ committing = 0
        /\ Len(lh) + (outstanding + 1) * MAXOPBLOCKS <= LOGSIZE
    <3>1. pc'[p] = "inop" /\ outstanding \in Nat /\ Len(lh) \in Nat /\ committing \in 0 .. 1
      BY <1>0, <1>2 DEF TypeOK
    <3>2. (outstanding + 1) * MAXOPBLOCKS \in Nat /\ LOGSIZE \in Nat
      BY <3>1, SizeAssumption DEF LOGSIZE
    <3>3. ~ (committing = 1 \/ Len(lh) + (outstanding + 1) * MAXOPBLOCKS > LOGSIZE)
      BY Zenon, <3>1, <1>0 DEF BeginOp, Go, TypeOK
    <3> QED
      BY <3>1, <3>2, <3>3 DEF BeginOp
  <2>2. WroteInv'
    <3>1. \A q \in Proc \ {p} : pc'[q] = pc[q]
      BY Zenon, <1>0, <1>2 DEF TypeOK
    <3>2. wrote[p] = {}
      BY Zenon, <1>u DEF RoomInv, WroteInv, InOp
    <3> QED
      BY Zenon, <3>1, <3>2, <1>u DEF RoomInv, WroteInv, Entries
  <2>3. Cardinality(Owed') <= (outstanding + 1) * OpBlocks /\ Cardinality(Owed') \in Nat
    <3>1. Owed' \in SUBSET (Active' \X (1 .. OpBlocks))
      BY Zenon DEF Owed, Active
    <3>2. Active' \in SUBSET Proc
      BY Zenon DEF Active
    <3>3. IsFiniteSet(Active')
      BY Zenon, <3>2, ProcAssumption, FS_Subset
    <3>4. Cardinality(Owed') <= Cardinality(Active') * OpBlocks /\ Cardinality(Owed') \in Nat
      BY Zenon, <3>1, <3>3, ProductBound
    <3> QED
      BY Zenon, <3>4, <1>0, <2>1 DEF CountInv
  <2>4. Len(lh) + (outstanding + 1) * OpBlocks <= LOGSIZE - 2 * (MAXOPBLOCKS - OpBlocks)
    <3>1. CASE outstanding = 0
      <4>1. ~Recovering
        BY Zenon, <1>0, <1>u DEF Recovering, RecoveryAlone, InRecovery
      <4>2. Len(lh) = 0
        BY Zenon, <3>1, <4>1, <2>1, <1>0 DEF EmptyWhenQuiet
      <4> QED
        BY <3>1, <4>2, SizeAssumption DEF LOGSIZE
    <3>2. CASE outstanding # 0
      <4>1. outstanding + 1 \in Nat /\ outstanding + 1 >= 2 /\ Len(lh) \in Nat
        BY <3>2, <1>0 DEF TypeOK
      <4>2. Len(lh) + (outstanding + 1) * MAXOPBLOCKS <= 3 * MAXOPBLOCKS
        BY <2>1, SizeAssumption DEF LOGSIZE
      <4>3. Len(lh) + (outstanding + 1) * OpBlocks
              <= 3 * MAXOPBLOCKS - 2 * (MAXOPBLOCKS - OpBlocks)
        BY Zenon, <4>1, <4>2, Surplus, SizeAssumption
      <4> QED
        BY <4>3, SizeAssumption DEF LOGSIZE
    <3> QED
      BY Zenon, <3>1, <3>2
  <2>5. Len(lh) + Cardinality(Owed') <= LOGSIZE - 2 * (MAXOPBLOCKS - OpBlocks)
    <3>1. /\ (outstanding + 1) * OpBlocks \in Nat /\ Len(lh) \in Nat
          /\ LOGSIZE - 2 * (MAXOPBLOCKS - OpBlocks) \in Int
      BY <1>0, SizeAssumption DEF TypeOK, LOGSIZE
    <3> QED
      BY <3>1, <2>3, <2>4
  <2> QED
    BY Zenon, <2>2, <2>5, <1>u DEF RoomInv, SpaceReserved
<1> QED
  BY Zenon, <1>1, <1>2 DEF BeginOp, Go

LEMMA LogWriteRoom ==
    ASSUME IInv, RoomInv, NEW p \in Proc, NEW v \in Value, LogWrite(p, v)
    PROVE  RoomInv'
<1>0. TypeOK /\ WroteInv /\ SpaceReserved
  BY Zenon DEF IInv, RoomInv
<1>u. UNCHANGED <<outstanding, committing>> /\ pc[p] = "use"
  BY Zenon DEF LogWrite
<1>w. /\ IsFiniteSet(wrote[p]) /\ Cardinality(wrote[p]) \in 0 .. OpBlocks
      /\ wrote[p] \subseteq Entries(lh)
  BY <1>0, <1>u, FS_CardinalityType, SizeAssumption DEF WroteInv, InOp
<1> DEFINE W == wrote[p] \cup {buf[p]}
<1>c. /\ IsFiniteSet(W) /\ Cardinality(W) <= OpBlocks
      /\ Cardinality(W) = IF buf[p] \in wrote[p] THEN Cardinality(wrote[p])
                                               ELSE Cardinality(wrote[p]) + 1
  BY Zenon, <1>w, FS_AddElement DEF LogWrite
<1>o. outstanding # 0 /\ outstanding \in Nat
  BY Zenon, <1>0, <1>u, OpExcludes DEF TypeOK, InOp
<1>f. IsFiniteSet(Owed) /\ Cardinality(Owed) \in Nat
  <2>1. Owed \in SUBSET (Proc \X (1 .. OpBlocks))
    BY Zenon DEF Owed
  <2> QED
    BY Zenon, <2>1, ProductBound, ProcAssumption
<1>l. Len(lh) \in Nat
  BY <1>0 DEF TypeOK
<1>p. CASE Len(lh) >= LOGSIZE \/ Len(lh) >= nlog - 1 \/ outstanding < 1
  BY Zenon, <1>p, <1>u, SameRoom DEF LogWrite
<1> SUFFICES ASSUME ~ (Len(lh) >= LOGSIZE \/ Len(lh) >= nlog - 1 \/ outstanding < 1)
             PROVE  RoomInv'
  BY Zenon, <1>p
<1>n. /\ pc' = [pc EXCEPT ![p] = "logged"]
      /\ wrote' = [wrote EXCEPT ![p] = W]
      /\ IF buf[p] \in Entries(lh) THEN lh' = lh ELSE lh' = Append(lh, buf[p])
  BY Zenon, <1>0 DEF LogWrite, Go
<1>b. buf[p] \in Block
  BY Zenon, <1>u DEF IInv, UsesBuffer
<1>e. /\ Entries(lh') = Entries(lh) \cup {buf[p]} /\ Len(lh') \in Nat
      /\ Len(lh') = IF buf[p] \in Entries(lh) THEN Len(lh) ELSE Len(lh) + 1
  <2>1. CASE buf[p] \in Entries(lh)
    BY Zenon, <2>1, <1>n, <1>l
  <2>2. CASE buf[p] \notin Entries(lh)
    <3>1. lh \in Seq(Block)
      BY Zenon, <1>0 DEF TypeOK
    <3>2. /\ Len(lh') = Len(lh) + 1 /\ lh'[Len(lh) + 1] = buf[p]
          /\ \A i \in 1 .. Len(lh) : lh'[i] = lh[i]
      BY <2>2, <3>1, <1>n, <1>b
    <3> QED
      BY <2>2, <3>2, <1>l DEF Entries
  <2> QED
    BY Zenon, <2>1, <2>2
<1>q. \A q \in Proc : pc'[q] \in InOp <=> pc[q] \in InOp
  BY Zenon, <1>0, <1>n, <1>u DEF TypeOK, InOp
<1>r. wrote'[p] = W /\ \A q \in Proc \ {p} : wrote'[q] = wrote[q]
  BY Zenon, <1>n, <1>0 DEF TypeOK
<1>1. WroteInv'
  <2> SUFFICES ASSUME NEW q \in Proc
               PROVE  /\ IsFiniteSet(wrote'[q]) /\ Cardinality(wrote'[q]) <= OpBlocks
                      /\ IF pc'[q] \in InOp THEN wrote'[q] \subseteq Entries(lh')
                                            ELSE wrote'[q] = {}
    BY Zenon DEF WroteInv, Entries
  <2>1. CASE q = p
    BY Zenon, <2>1, <1>r, <1>c, <1>e, <1>w, <1>n, <1>0 DEF TypeOK, InOp
  <2>2. CASE q # p
    BY Zenon, <2>2, <1>r, <1>q, <1>e, <1>0 DEF WroteInv
  <2> QED
    BY Zenon, <2>1, <2>2
<1>2. Len(lh') + Cardinality(Owed') <= Len(lh) + Cardinality(Owed)
  <2>1. CASE buf[p] \in wrote[p]
    <3>1. W = wrote[p]
      BY Zenon, <2>1
    <3>2. Owed' = Owed
      BY Zenon, <3>1, <1>r, <1>q DEF Owed
    <3> QED
      BY <2>1, <3>2, <1>e, <1>w, <1>f, <1>l
  <2>2. CASE buf[p] \notin wrote[p]
    <3> DEFINE x == <<p, Cardinality(wrote[p]) + 1>>
    <3>1. x \in Owed
      BY <2>2, <1>c, <1>w, <1>u DEF Owed, InOp
    <3>2. Owed' = Owed \ {x}
      <4>1. ASSUME NEW y \in Proc \X (1 .. OpBlocks)
            PROVE  y \in Owed' <=> y \in Owed /\ y # x
        <5>1. CASE y[1] = p
          <6>1. PICK i \in 1 .. OpBlocks : y = <<p, i>>
            BY <5>1
          <6>2. y \in Owed <=> i > Cardinality(wrote[p])
            BY Zenon, <6>1, <1>u DEF Owed, InOp
          <6>3. y \in Owed' <=> i > Cardinality(wrote'[p])
            BY Zenon, <6>1, <1>u, <1>q DEF Owed, InOp
          <6>4. Cardinality(wrote'[p]) = Cardinality(wrote[p]) + 1
            BY Zenon, <2>2, <1>c, <1>r
          <6> QED
            BY <6>1, <6>2, <6>3, <6>4, <1>w
        <5>2. CASE y[1] # p
          BY <5>2, <1>r, <1>q DEF Owed
        <5> QED
          BY Zenon, <5>1, <5>2
      <4> QED
        BY Zenon, <4>1 DEF Owed
    <3>3. Cardinality(Owed') = Cardinality(Owed) - 1
      BY ZenonT(30), <3>1, <3>2, <1>f, FS_RemoveElement
    <3> QED
      BY SMTT(30), <3>3, <1>e, <1>f, <1>l
  <2> QED
    BY Zenon, <2>1, <2>2
<1>3. SpaceReserved'
  <2>1. Owed' \in SUBSET (Proc \X (1 .. OpBlocks))
    BY Zenon DEF Owed
  <2>2. Cardinality(Owed') \in Nat
    BY Zenon, <2>1, ProductBound, ProcAssumption
  <2> QED
    BY SMTT(30), <2>2, <1>2, <1>0, <1>u, <1>o, <1>e, <1>f, <1>l, SizeAssumption DEF SpaceReserved, LOGSIZE
<1> QED
  BY Zenon, <1>1, <1>3 DEF RoomInv

LEMMA EndOpRoom ==
    ASSUME IInv, IInv', RoomInv, NEW p \in Proc, EndOp(p)
    PROVE  RoomInv'
<1>0. TypeOK /\ WroteInv /\ SpaceReserved
  BY Zenon DEF IInv, RoomInv
<1>x. committing = 0 /\ outstanding # 0 /\ pc[p] = "inop"
  BY Zenon, OpExcludes DEF EndOp, InOp
<1>u. UNCHANGED lh /\ wrote' = [wrote EXCEPT ![p] = {}]
  BY <1>x DEF EndOp
<1>q. pc'[p] \notin InOp /\ \A q \in Proc \ {p} : pc'[q] \in InOp <=> pc[q] \in InOp
  <2>1. pc' = [pc EXCEPT ![p] = "commit"] \/ pc' = [Wakeup(pc) EXCEPT ![p] = "idle"]
    BY <1>x DEF EndOp, Go
  <2> QED
    BY Zenon, <2>1, <1>0, WakeupFacts DEF TypeOK, InOp
<1>r. wrote'[p] = {} /\ \A q \in Proc \ {p} : wrote'[q] = wrote[q]
  BY Zenon, <1>u, <1>0 DEF TypeOK
<1>1. WroteInv'
  <2> SUFFICES ASSUME NEW q \in Proc
               PROVE  /\ IsFiniteSet(wrote'[q]) /\ Cardinality(wrote'[q]) <= OpBlocks
                      /\ IF pc'[q] \in InOp THEN wrote'[q] \subseteq Entries(lh)
                                            ELSE wrote'[q] = {}
    BY Zenon, <1>u DEF WroteInv, Entries
  <2>1. CASE q = p
    BY <2>1, <1>r, <1>q, FS_EmptySet, SizeAssumption
  <2>2. CASE q # p
    BY Zenon, <2>2, <1>r, <1>q, <1>0 DEF WroteInv
  <2> QED
    BY Zenon, <2>1, <2>2
<1>2. SpaceReserved'
  <2>1. Owed \in SUBSET (Proc \X (1 .. OpBlocks))
    BY Zenon DEF Owed
  <2>2. IsFiniteSet(Owed) /\ Cardinality(Owed) \in Nat
    BY Zenon, <2>1, ProductBound, ProcAssumption
  <2>3. Owed' \in SUBSET Owed
    BY Zenon, <1>q, <1>r DEF Owed
  <2>4. Cardinality(Owed') <= Cardinality(Owed) /\ Cardinality(Owed') \in Nat
    BY Zenon, <2>2, <2>3, FS_Subset, FS_CardinalityType
  <2> QED
    BY <2>2, <2>4, <1>0, <1>x, <1>u, SizeAssumption DEF SpaceReserved, TypeOK, LOGSIZE
<1> QED
  BY Zenon, <1>1, <1>2 DEF RoomInv

(* Nobody is in an operation while a thread commits or recovers.           *)
LEMMA NobodyWrites ==
    ASSUME IInv, RoomInv, NEW p \in Proc, pc[p] \in InCommit \cup InRecovery
    PROVE  outstanding = 0 /\ \A q \in Proc : wrote[q] = {} /\ pc[q] \notin InOp
<1>1. \A q \in Proc : pc[q] \notin InOp
  BY Zenon DEF IInv, SoleCommitter, RecoveryAlone, InOp, InRecovery, InCommit
<1>2. Active = {}
  BY Zenon, <1>1 DEF Active
<1>3. outstanding = 0
  BY Zenon, <1>2, FS_EmptySet DEF IInv, CountInv
<1> QED
  BY Zenon, <1>1, <1>3 DEF RoomInv, WroteInv

LEMMA RoomStep ==
    ASSUME IInv, IInv', RoomInv, [Next]_vars
    PROVE  RoomInv'
<1>0. TypeOK
  BY Zenon DEF IInv
<1>1. CASE UNCHANGED vars
  BY Zenon, <1>1, SameRoom DEF vars, logVars, threadVars
<1>2. CASE Crash
  BY Zenon, <1>2, QuietRoom DEF Crash, Boot, InOp
<1>3. ASSUME NEW b \in Block, Recycle(b) PROVE RoomInv'
  BY Zenon, <1>3, SameRoom DEF Recycle, logVars, threadVars
<1>4. ASSUME NEW p \in Proc, BeginOp(p) PROVE RoomInv'
  BY Zenon, <1>4, BeginOpRoom
<1>5. ASSUME NEW p \in Proc, Brelse(p) PROVE RoomInv'
  <2>1. \A q \in Proc : pc'[q] \in InOp <=> pc[q] \in InOp
    BY Zenon, <1>0, <1>5 DEF Brelse, Go, TypeOK, InOp
  <2> QED
    BY Zenon, <1>5, <2>1, SameRoom DEF Brelse, logVars
<1>6. ASSUME NEW p \in Proc, EndOp(p) PROVE RoomInv'
  BY Zenon, <1>6, EndOpRoom
<1>7. ASSUME NEW p \in Proc, NEW b \in Block, Bread(p, b) PROVE RoomInv'
  <2>1. \A q \in Proc : pc'[q] \in InOp <=> pc[q] \in InOp
    BY Zenon, <1>0, <1>7 DEF Bread, Go, TypeOK, InOp
  <2> QED
    BY Zenon, <1>7, <2>1, SameRoom DEF Bread, logVars
<1>8. ASSUME NEW p \in Proc, NEW v \in Value, LogWrite(p, v) PROVE RoomInv'
  BY Zenon, <1>8, LogWriteRoom
<1>9. ASSUME NEW p \in Proc, CommitStep(p) \/ ReadHead(p) \/ RecoverErase(p) PROVE RoomInv'
  <2>1. pc[p] \in InCommit \cup InRecovery
    BY Zenon, <1>9 DEF CommitStep, Commit, WriteLog, WriteHead, InstallTrans, Erase, EndCommit, Round,
                ReadHead, RecoverErase, InCommit, InRecovery
  <2>2. outstanding = 0 /\ \A q \in Proc : wrote[q] = {} /\ pc[q] \notin InOp
    BY Zenon, <2>1, NobodyWrites
  <2>3. UNCHANGED <<outstanding, wrote>>
    BY Zenon, <1>9 DEF CommitStep, Commit, WriteLog, WriteHead, InstallTrans, Erase, EndCommit,
                ReadHead, RecoverErase, logVars
  <2>4. \A q \in Proc : pc'[q] \notin InOp
    <3>1. CASE \E l \in InCommit \cup InRecovery : Go(p, l)
      BY Zenon, <3>1, <2>2, <1>0 DEF Go, TypeOK, InOp, InCommit, InRecovery
    <3>2. CASE EndCommit(p)
      BY Zenon, <3>2, <2>2, <1>0, WakeupFacts DEF EndCommit, TypeOK, InOp
    <3>3. CASE RecoverErase(p)
      BY Zenon, <3>3 DEF RecoverErase, InOp
    <3> QED
      BY Zenon, <1>9, <3>1, <3>2, <3>3 DEF CommitStep, Commit, WriteLog, WriteHead, InstallTrans,
         Erase, Round, ReadHead, InCommit, InRecovery
  <2> QED
    BY Zenon, <2>2, <2>3, <2>4, QuietRoom
<1> QED
  BY Zenon, <1>1, <1>2, <1>3, <1>4, <1>5, <1>6, <1>7, <1>8, <1>9 DEF Next, OpStep

(* begin_op() has always reserved what the operations in progress may      *)
(* still log, and two surpluses, for any number of threads and blocks and  *)
(* any interleaving of them with group commits, crashes and recoveries.    *)
THEOREM Reserved == Spec => []SpaceReserved
<1>1. IInv /\ RoomInv /\ [Next]_vars => (IInv /\ RoomInv)'
  BY Zenon, StepSimulates, RoomStep
<1>2. Init => IInv /\ RoomInv
  BY Zenon, InitIInv, InitRoom
<1>3. RoomInv => SpaceReserved
  BY Zenon DEF RoomInv
<1> QED
  BY <1>1, <1>2, <1>3, PTL DEF Spec

-----------------------------------------------------------------------------
(* The log on disk is as large as mkfs makes it, LOGSIZE blocks with the   *)
(* header, and an operation logs fewer blocks than begin_op() reserves.    *)
Roomy == OpBlocks < MAXOPBLOCKS /\ nlog >= LOGSIZE

LEMMA LogWriteSafe ==
    ASSUME Roomy, IInv, RoomInv, panicked = 0, NEW p \in Proc, NEW v \in Value, LogWrite(p, v)
    PROVE  panicked' = 0
<1>1. outstanding # 0 /\ outstanding \in Nat
  BY Zenon, OpExcludes DEF LogWrite, IInv, TypeOK, InOp
<1>2. Len(lh) \in Nat /\ Cardinality(Owed) \in Nat
  <2>1. Owed \in SUBSET (Proc \X (1 .. OpBlocks))
    BY Zenon DEF Owed
  <2>2. Cardinality(Owed) \in Nat
    BY Zenon, <2>1, ProductBound, ProcAssumption
  <2> QED
    BY <2>2 DEF IInv, TypeOK
<1>3. Len(lh) + Cardinality(Owed) <= LOGSIZE - 2 * (MAXOPBLOCKS - OpBlocks)
  BY Zenon, <1>1 DEF RoomInv, SpaceReserved
<1>4. ~ (Len(lh) >= LOGSIZE \/ Len(lh) >= nlog - 1 \/ outstanding < 1)
  BY <1>1, <1>2, <1>3, SizeAssumption DEF Roomy, LOGSIZE
<1> QED
  BY Zenon, <1>4 DEF LogWrite

LEMMA PanicStep ==
    ASSUME Roomy, IInv, RoomInv, panicked = 0, [Next]_vars
    PROVE  panicked' = 0
<1>1. CASE UNCHANGED vars
  BY Zenon, <1>1 DEF vars
<1>2. CASE Crash
  BY Zenon, <1>2 DEF Crash, Boot
<1>3. ASSUME NEW p \in Proc, EndOp(p) PROVE panicked' = 0
  BY Zenon, <1>3, OpExcludes DEF EndOp, InOp
<1>4. ASSUME NEW p \in Proc, NEW v \in Value, LogWrite(p, v) PROVE panicked' = 0
  BY Zenon, <1>4, LogWriteSafe
<1>5. ASSUME NEW p \in Proc, \/ BeginOp(p) \/ Brelse(p) \/ CommitStep(p) \/ ReadHead(p) \/ RecoverErase(p)
                             \/ \E b \in Block : Bread(p, b) \/ Recycle(b)
      PROVE  panicked' = 0
  BY ZenonT(30), <1>5 DEF BeginOp, Brelse, CommitStep, Commit, WriteLog, WriteHead, InstallTrans, Erase,
                  EndCommit, ReadHead, RecoverErase, Bread, Recycle
<1>6. ASSUME NEW b \in Block, Recycle(b) PROVE panicked' = 0
  BY Zenon, <1>6 DEF Recycle
<1> QED
  BY Zenon, <1>1, <1>2, <1>3, <1>4, <1>5, <1>6 DEF Next, OpStep

(* No panic of log.c is reached, whatever the number of threads and        *)
(* blocks: not "too big a transaction" in log_write(), for which begin_op() *)
(* must have reserved enough, not "log_write outside of trans", and not    *)
(* "log.committing" in end_op().                                           *)
THEOREM NeverPanics == ASSUME Roomy PROVE Spec => []NoPanic
<1>1. /\ IInv /\ RoomInv /\ panicked = 0 /\ [Next]_vars => (IInv /\ RoomInv)'
      /\ IInv /\ RoomInv /\ panicked = 0 /\ [Next]_vars => (panicked = 0)'
  BY Zenon, StepSimulates, RoomStep, PanicStep
<1>2. Init => IInv /\ RoomInv /\ panicked = 0
  BY Zenon, InitIInv, InitRoom DEF Init
<1>3. panicked = 0 => NoPanic
  BY Zenon DEF NoPanic
<1> QED
  BY <1>1, <1>2, <1>3, PTL DEF Spec
=============================================================================
