------------------------------ MODULE ProcProofs ----------------------------
(***************************************************************************)
(* The process table of kernel/proc.c, the process tree and the wakeups of *)
(* wait(), for any number of slots and of CPUs.                            *)
(***************************************************************************)
EXTENDS Proc, TLAPS

(* A CPU is on one stack at most, and it is on the stack of the processes  *)
(* whose thread is at a place of the kernel; the process a scheduler came  *)
(* from is still locked by it.                                             *)
Switched == {"RUNNABLE", "SLEEPING", "ZOMBIE"}
RunInv ==
    /\ \A c, d \in Cpu : run[c] # None /\ run[c] = run[d] => c = d
    /\ \A p \in Slot : pc[p] # "resume" <=> \E c \in Cpu : run[c] = p
    /\ \A c \in Cpu : prev[c] # None =>
          run[c] = None /\ plock[prev[c]] = c /\ state[prev[c]] \in Switched

(* The state of a process a CPU is on.                                     *)
StackInv ==
    \A c \in Cpu : run[c] # None =>
        IF pc[run[c]] = "swtch" THEN plock[run[c]] = c /\ state[run[c]] \in Switched
                                ELSE state[run[c]] = "RUNNING"

(* Who holds p->lock between two steps.                                    *)
HoldInv ==
    \A q \in Slot : plock[q] # NoCpu =>
        prev[plock[q]] = q \/ (run[plock[q]] = q /\ pc[q] = "swtch")

WaitInv == \A c \in Cpu : waitlock = c <=> run[c] # None /\ pc[run[c]] \in Locked

(* What a thread has yet to do, and the intena that sched() saved for it.  *)
ThreadOK(p) ==
    /\ pc[p] = "wakeup" => cont[p] \in {"reparent", "zombie"}
    /\ pc[p] \notin {"wakeup", "swtch", "resume"} => cont[p] = "user"
    /\ pc[p] = "resume" /\ cont[p] = "wait" => saved[p] = 1
    /\ pc[p] = "resume" /\ cont[p] = "sret" => saved[p] = 0
ThreadInv == \A p \in Slot : ThreadOK(p)

(* The interrupt state of a CPU, by what it is doing.                      *)
CpuOK(c) ==
    /\ noff[c] = 0 => intena[c] = 0
    /\ noff[c] = 1 => intr[c] = 0
    /\ run[c] = None => noff[c] = (IF prev[c] = None THEN 0 ELSE 1)
    /\ run[c] # None =>
         /\ pc[run[c]] \in Locked \cup {"swtch"} => noff[c] = 1
         /\ pc[run[c]] = "user" => noff[c] = 0
         /\ pc[run[c]] \in {"user", "fork_parent", "fork_run", "wait"} =>
               IF noff[c] = 0 THEN intr[c] = 1 ELSE intena[c] = 1
         /\ pc[run[c]] \in {"scan", "sleep"} => intena[c] = 1
         /\ pc[run[c]] = "swtch" /\ cont[run[c]] = "wait" => intena[c] = 1
         /\ pc[run[c]] = "swtch" /\ cont[run[c]] = "sret" => intena[c] = 0
CpuInv == \A c \in Cpu : CpuOK(c)

(* The slots that fork() is filling.                                       *)
ChildInv ==
    \A p \in Slot : child[p] # None =>
        /\ state[child[p]] = "USED"
        /\ \A r \in Slot : child[r] = child[p] => r = p

CoreInv ==
    /\ TypeOK /\ RunInv /\ StackInv /\ HoldInv /\ WaitInv
    /\ ThreadInv /\ CpuInv /\ ChildInv

-----------------------------------------------------------------------------
LEMMA Slots == initproc \in Slot /\ None \notin Slot
BY NPROCAssumption DEF Slot, initproc, None

LEMMA MyCpuIs ==
    ASSUME RunInv, NEW p \in Slot, NEW c \in Cpu, run[c] = p
    PROVE  MyCpu(p) = c
<1>1. MyCpu(p) \in Cpu /\ run[MyCpu(p)] = p
  BY Zenon DEF MyCpu
<1> QED
  BY Zenon, <1>1, Slots DEF RunInv

(* A CPU is on the stack of a thread that is at a place of the kernel.     *)
LEMMA AtCpu ==
    ASSUME RunInv, NEW p \in Slot, NEW l, At(p, l)
    PROVE  \E c \in Cpu : run[c] = p /\ MyCpu(p) = c /\ pc[p] = l
BY Zenon, MyCpuIs DEF At

(* A thread that moves and takes or releases no p->lock; the states of     *)
(* other processes change only under their own lock.                       *)
LEMMA MoveRun ==
    ASSUME TypeOK, RunInv, StackInv, HoldInv, NEW p \in Slot, NEW l,
           pc[p] \notin {"swtch", "resume"}, l \notin {"swtch", "resume"},
           pc' = [pc EXCEPT ![p] = l], UNCHANGED <<run, prev, plock>>,
           \A q \in Slot : state'[q] = state[q] \/ (Free(q) /\ state[q] # "RUNNING")
    PROVE  RunInv' /\ StackInv' /\ HoldInv'
<1>1. \A q \in Slot : pc'[q] = IF q = p THEN l ELSE pc[q]
  BY Zenon DEF TypeOK
<1>2. \A q \in Slot : plock[q] # NoCpu => state'[q] = state[q]
  BY Zenon DEF Free
<1>3. \A c \in Cpu : run[c] \in Slot \cup {None} /\ prev[c] \in Slot \cup {None} /\ c # NoCpu
  BY Zenon, CpuAssumption DEF TypeOK
<1>4. RunInv'
  BY <1>1, <1>2, <1>3 DEF RunInv
<1>5. StackInv'
  BY <1>1, <1>2, <1>3 DEF StackInv
<1>6. HoldInv'
  BY Zenon, <1>1 DEF HoldInv
<1> QED
  BY Zenon, <1>4, <1>5, <1>6

(* A thread that takes its own p->lock on its way to sched().              *)
LEMMA LockRun ==
    ASSUME TypeOK, RunInv, StackInv, HoldInv, NEW p \in Slot, NEW c \in Cpu, run[c] = p,
           Free(p), NEW s \in Switched, pc[p] # "swtch", pc' = [pc EXCEPT ![p] = "swtch"],
           plock' = [plock EXCEPT ![p] = c], state' = [state EXCEPT ![p] = s],
           UNCHANGED <<run, prev>>
    PROVE  RunInv' /\ StackInv' /\ HoldInv'
<1>1. \A q \in Slot : /\ pc'[q] = IF q = p THEN "swtch" ELSE pc[q]
                      /\ plock'[q] = IF q = p THEN c ELSE plock[q]
                      /\ state'[q] = IF q = p THEN s ELSE state[q]
  BY Zenon DEF TypeOK
<1>2. \A d \in Cpu : run[d] \in Slot \cup {None} /\ prev[d] \in Slot \cup {None} /\ d # NoCpu
  BY Zenon, CpuAssumption DEF TypeOK
<1>3. \A d \in Cpu : prev[d] # p
  BY <1>2, Slots DEF RunInv, Free
<1>4. RunInv'
  BY <1>1, <1>2, <1>3, Slots DEF RunInv
<1>5. StackInv'
  BY <1>1, <1>2, Slots DEF StackInv, RunInv
<1>6. HoldInv'
  BY <1>1 DEF HoldInv
<1> QED
  BY Zenon, <1>4, <1>5, <1>6

(* wait_lock and the places where it is held.                              *)
LEMMA MoveWait ==
    ASSUME TypeOK, RunInv, WaitInv, NEW p \in Slot, NEW c \in Cpu, run[c] = p, NEW l,
           pc' = [pc EXCEPT ![p] = l], UNCHANGED run,
           \/ waitlock' = waitlock /\ (pc[p] \in Locked <=> l \in Locked)
           \/ waitlock = NoCpu /\ waitlock' = c /\ l \in Locked
           \/ pc[p] \in Locked /\ waitlock' = NoCpu /\ l \notin Locked
    PROVE  WaitInv'
<1>1. \A q \in Slot : pc'[q] = IF q = p THEN l ELSE pc[q]
  BY Zenon DEF TypeOK
<1>2. \A d \in Cpu : run[d] \in Slot \cup {None} /\ d # NoCpu /\ (d # c => run[d] # p)
  BY CpuAssumption, Slots DEF TypeOK, RunInv
<1>3. pc[p] \in Locked => waitlock = c
  BY Zenon, Slots DEF WaitInv
<1> QED
  BY <1>1, <1>2, <1>3, Slots DEF WaitInv

(* The interrupt state of the other CPUs.                                  *)
LEMMA MoveCpu ==
    ASSUME TypeOK, RunInv, CpuInv, NEW p \in Slot, NEW c \in Cpu, run[c] = p,
           UNCHANGED <<run, prev>>, CpuOK(c)',
           \A q \in Slot \ {p} : pc'[q] = pc[q] /\ (pc[q] # "resume" => cont'[q] = cont[q]),
           \A d \in Cpu \ {c} : intr'[d] = intr[d] /\ noff'[d] = noff[d] /\ intena'[d] = intena[d]
    PROVE  CpuInv'
<1> SUFFICES ASSUME NEW d \in Cpu \ {c} PROVE CpuOK(d)'
  BY Zenon DEF CpuInv
<1>1. CpuOK(d) /\ run[d] # p
  BY Zenon, Slots DEF CpuInv, RunInv
<1>2. run[d] # None => pc'[run[d]] = pc[run[d]] /\ cont'[run[d]] = cont[run[d]]
  BY <1>1 DEF TypeOK, RunInv
<1> QED
  BY Zenon, <1>1, <1>2 DEF CpuOK

LEMMA MoveThread ==
    ASSUME ThreadInv, NEW p \in Slot, ThreadOK(p)',
           \A q \in Slot \ {p} : pc'[q] = pc[q] /\ cont'[q] = cont[q] /\ saved'[q] = saved[q]
    PROVE  ThreadInv'
BY Zenon DEF ThreadInv, ThreadOK

LEMMA MoveChild ==
    ASSUME ChildInv, UNCHANGED child,
           \A q \in Slot : state[q] = "USED" => state'[q] = "USED", TypeOK
    PROVE  ChildInv'
BY Zenon DEF ChildInv, TypeOK

-----------------------------------------------------------------------------
(* The three conjuncts of TypeOK about interrupts, and the rest.           *)
IntrTypes ==
    /\ intr \in [Cpu -> 0 .. 1] /\ noff \in [Cpu -> 0 .. 1] /\ intena \in [Cpu -> 0 .. 1]

LEMMA PushCpu ==
    ASSUME IntrTypes, NEW c \in Cpu, noff[c] = 0, NEW old \in 0 .. 1, Push(c, old)
    PROVE  /\ IntrTypes'
           /\ intr'[c] = 0 /\ noff'[c] = 1 /\ intena'[c] = old
           /\ \A d \in Cpu \ {c} : intr'[d] = intr[d] /\ noff'[d] = noff[d] /\ intena'[d] = intena[d]
BY DEF IntrTypes, Push, Set

LEMMA PopCpu ==
    ASSUME IntrTypes, NEW c \in Cpu, noff[c] = 1, Pop(c, intena[c]), intr[c] = 0
    PROVE  /\ IntrTypes'
           /\ intr'[c] = intena[c] /\ noff'[c] = 0 /\ intena'[c] = 0
           /\ \A d \in Cpu \ {c} : intr'[d] = intr[d] /\ noff'[d] = noff[d] /\ intena'[d] = intena[d]
BY DEF IntrTypes, Pop, Set

(* Together, for a step of a thread that takes or releases no p->lock.     *)
LEMMA Move ==
    ASSUME CoreInv, NEW p \in Slot, NEW c \in Cpu, run[c] = p, NEW l,
           pc[p] \notin {"swtch", "resume"}, l \notin {"swtch", "resume"},
           pc' = [pc EXCEPT ![p] = l], UNCHANGED <<run, prev, plock>>,
           \A q \in Slot : state'[q] = state[q] \/ (Free(q) /\ state[q] # "RUNNING"),
           \/ waitlock' = waitlock /\ (pc[p] \in Locked <=> l \in Locked)
           \/ waitlock = NoCpu /\ waitlock' = c /\ l \in Locked
           \/ pc[p] \in Locked /\ waitlock' = NoCpu /\ l \notin Locked,
           CpuOK(c)',
           \A d \in Cpu \ {c} : intr'[d] = intr[d] /\ noff'[d] = noff[d] /\ intena'[d] = intena[d],
           \A q \in Slot \ {p} : pc[q] # "resume" => cont'[q] = cont[q],
           TypeOK', ThreadInv', ChildInv'
    PROVE  CoreInv'
<1>1. \A q \in Slot \ {p} : pc'[q] = pc[q]
  BY Zenon DEF CoreInv, TypeOK
<1>2. RunInv' /\ StackInv' /\ HoldInv'
  BY Zenon, MoveRun DEF CoreInv
<1>3. WaitInv'
  BY Zenon, MoveWait DEF CoreInv
<1>4. CpuInv'
  BY Zenon, <1>1, MoveCpu DEF CoreInv
<1> QED
  BY Zenon, <1>2, <1>3, <1>4 DEF CoreInv

(* The same when interrupts do not change.                                 *)
LEMMA MoveQuiet ==
    ASSUME CoreInv, NEW p \in Slot, NEW c \in Cpu, run[c] = p, NEW l,
           \/ pc[p] \in Locked /\ l \in Locked /\ (l \in {"scan", "sleep"} => pc[p] \in {"scan", "sleep"})
           \/ pc[p] = "user" /\ l \in {"user", "fork_parent", "wait"},
           pc' = [pc EXCEPT ![p] = l], UNCHANGED <<run, prev, plock, waitlock, intr, noff, intena>>,
           \A q \in Slot : state'[q] = state[q] \/ (Free(q) /\ state[q] # "RUNNING"),
           \A q \in Slot \ {p} : pc[q] # "resume" => cont'[q] = cont[q],
           TypeOK', ThreadInv', ChildInv'
    PROVE  CoreInv'
<1>1. pc'[p] = l /\ CpuOK(c)
  BY Zenon DEF CoreInv, TypeOK, CpuInv
<1>2. CpuOK(c)'
  BY Zenon, <1>1, Slots DEF CpuOK, Locked
<1>3. /\ pc[p] \notin {"swtch", "resume"} /\ l \notin {"swtch", "resume"}
      /\ pc[p] \in Locked <=> l \in Locked
  BY Zenon DEF Locked
<1> QED
  BY ZenonT(30), <1>2, <1>3, Move

LEMMA PushOffCore ==
    ASSUME CoreInv, NEW p \in Slot, PushOff(p)
    PROVE  CoreInv'
<1>1. PICK l \in Acquire : At(p, l)
  BY Zenon DEF PushOff
<1>2. PICK c \in Cpu : run[c] = p /\ MyCpu(p) = c /\ pc[p] = l
  BY Zenon, <1>1, AtCpu DEF CoreInv
<1>3. /\ noff[c] = 0 /\ Push(c, intr[c])
      /\ UNCHANGED <<saved, procVars, lockVars, cpuVars, pc, codeVars, loopVars, child, havekids>>
  BY Zenon, <1>2 DEF PushOff
<1>4. TypeOK /\ IntrTypes /\ CpuOK(c) /\ intr[c] \in 0 .. 1 /\ ThreadOK(p)
  BY Zenon DEF CoreInv, CpuInv, ThreadInv, TypeOK, IntrTypes
<1>5. /\ IntrTypes' /\ intr'[c] = 0 /\ noff'[c] = 1 /\ intena'[c] = intr[c]
      /\ \A d \in Cpu \ {c} : intr'[d] = intr[d] /\ noff'[d] = noff[d] /\ intena'[d] = intena[d]
  BY Zenon, <1>3, <1>4, PushCpu
<1>6. TypeOK'
  BY Zenon, <1>3, <1>4, <1>5 DEF TypeOK, IntrTypes, procVars, lockVars, cpuVars, codeVars, loopVars
<1>7. CpuOK(c)' /\ ThreadOK(p)'
  BY Zenon, <1>2, <1>3, <1>4, <1>5, Slots DEF CpuOK, ThreadOK, Acquire, Locked, cpuVars, codeVars
<1>8. pc' = [pc EXCEPT ![p] = l] /\ UNCHANGED <<state, plock, waitlock, run, prev, child, cont, saved>>
  BY Zenon, <1>2, <1>3, <1>4 DEF TypeOK, procVars, lockVars, cpuVars, codeVars
<1>9. ChildInv'
  BY Zenon, <1>8, MoveChild DEF CoreInv
<1>10. ThreadInv'
  BY Zenon, <1>7, <1>8, MoveThread, <1>3 DEF CoreInv
<1> QED
  BY Zenon, <1>2, <1>5, <1>6, <1>7, <1>8, <1>9, <1>10, Move DEF Acquire

LEMMA ForkParentCore ==
    ASSUME CoreInv, NEW p \in Slot, ForkParent(p) \/ ForkRun(p)
    PROVE  CoreInv'
<1>1. PICK l, m : /\ l \in {"fork_parent", "fork_run"} /\ m \in {"fork_run", "user"} /\ AcquireAt(p, l)
                  /\ Release(p) /\ Go(p, m)
                  /\ UNCHANGED <<chan, killed, lockVars, cpuVars, codeVars, loopVars, havekids>>
  BY Zenon DEF ForkParent, ForkRun
<1>2. PICK c \in Cpu : run[c] = p /\ MyCpu(p) = c /\ pc[p] = l
  BY Zenon, <1>1, AtCpu DEF CoreInv, AcquireAt
<1>4. TypeOK /\ IntrTypes /\ CpuOK(c) /\ ThreadOK(p) /\ ChildInv
  BY Zenon DEF CoreInv, CpuInv, ThreadInv, TypeOK, IntrTypes
<1>3. noff[c] = 1 /\ intr[c] = 0 /\ intena[c] = 1 /\ Pop(c, intena[c]) /\ saved' = saved
  BY Zenon, <1>1, <1>2, <1>4, Slots DEF AcquireAt, Release, CpuOK
<1>5. /\ IntrTypes' /\ intr'[c] = 1 /\ noff'[c] = 0 /\ intena'[c] = 0
      /\ \A d \in Cpu \ {c} : intr'[d] = intr[d] /\ noff'[d] = noff[d] /\ intena'[d] = intena[d]
  BY Zenon, <1>3, <1>4, PopCpu
<1>6. pc' = [pc EXCEPT ![p] = m] /\ pc'[p] = m
  BY Zenon, <1>1, <1>4 DEF Go, TypeOK
<1>7. UNCHANGED <<plock, waitlock, run, prev, cont, saved, sepc, chan, killed, idx, widx, wchan, havekids>>
  BY Zenon, <1>1, <1>3 DEF lockVars, cpuVars, codeVars, loopVars
<1>8. CpuOK(c)' /\ ThreadOK(p)'
  BY Zenon, <1>1, <1>2, <1>4, <1>5, <1>6, <1>7, Slots DEF CpuOK, ThreadOK, Locked
<1>9. ThreadInv'
  BY Zenon, <1>4, <1>6, <1>7, <1>8, MoveThread DEF CoreInv, TypeOK
<1>10. /\ state' \in [Slot -> {"UNUSED", "USED", "SLEEPING", "RUNNABLE", "RUNNING", "ZOMBIE"}]
       /\ parent' \in [Slot -> Slot \cup {None}] /\ child' \in [Slot -> Slot \cup {None}]
       /\ ChildInv'
       /\ \A q \in Slot : state'[q] = state[q] \/ (Free(q) /\ state[q] # "RUNNING")
  <2>1. CASE ForkParent(p)
    BY Zenon, <1>4, <2>1 DEF ForkParent, TypeOK, Set, ChildInv
  <2>2. CASE ForkRun(p)
    <3>1. /\ Free(child[p]) /\ state' = [state EXCEPT ![child[p]] = "RUNNABLE"]
          /\ child' = [child EXCEPT ![p] = None] /\ parent' = parent
      BY Zenon, <2>2 DEF ForkRun, Set
    <3>2. CASE child[p] = None
      <4>1. state' = state /\ child' = child
        BY <1>4, <3>1, <3>2, Slots DEF TypeOK
      <4> QED
        BY Zenon, <1>4, <3>1, <4>1 DEF TypeOK, ChildInv
    <3>3. CASE child[p] # None
      <4>1. child[p] \in Slot /\ state[child[p]] = "USED"
        BY Zenon, <1>4, <3>3 DEF TypeOK, ChildInv
      <4>2. \A q \in Slot : /\ state'[q] = IF q = child[p] THEN "RUNNABLE" ELSE state[q]
                            /\ child'[q] = IF q = p THEN None ELSE child[q]
        BY Zenon, <1>4, <3>1 DEF TypeOK
      <4>3. ChildInv'
        BY <1>4, <4>2 DEF ChildInv, TypeOK
      <4> QED
        BY Zenon, <1>4, <3>1, <4>1, <4>2, <4>3 DEF TypeOK
    <3> QED
      BY Zenon, <3>2, <3>3
  <2> QED
    BY Zenon, <2>1, <2>2
<1>11. TypeOK'
  <2>1. pc' \in [Slot -> PC]
    BY Zenon, <1>1, <1>4, <1>6 DEF TypeOK, PC, Unlocked, Acquire
  <2> QED
    BY Zenon, <1>4, <1>5, <1>7, <1>10, <2>1 DEF TypeOK, IntrTypes
<1>12. l \notin {"swtch", "resume"} \cup Locked /\ m \notin {"swtch", "resume"} \cup Locked
  BY Zenon, <1>1 DEF Locked
<1> QED
  BY ZenonT(30), <1>2, <1>5, <1>6, <1>7, <1>8, <1>9, <1>10, <1>11, <1>12, Move

(* The system calls that start in user mode.                               *)
LEMMA SyscallCore ==
    ASSUME CoreInv, NEW p \in Slot, NEW n \in Slot, Fork(p, n) \/ Kill(p, n) \/ Wait(p)
    PROVE  CoreInv'
<1>1. At(p, "user")
  BY Zenon DEF Fork, Kill, Wait, Syscall
<1>2. PICK c \in Cpu : run[c] = p /\ MyCpu(p) = c /\ pc[p] = "user"
  BY Zenon, <1>1, AtCpu DEF CoreInv
<1>3. TypeOK /\ ThreadOK(p) /\ ChildInv /\ state[p] = "RUNNING"
  BY Zenon, <1>2, Slots DEF CoreInv, ThreadInv, StackInv
<1>4. CASE Fork(p, n)
  <2>1. /\ state[n] = "UNUSED" /\ Free(n) /\ state' = [state EXCEPT ![n] = "USED"]
        /\ pc' = [pc EXCEPT ![p] = "fork_parent", ![n] = "resume"]
        /\ cont' = [cont EXCEPT ![n] = "sret"] /\ saved' = [saved EXCEPT ![n] = 0]
        /\ child' = [child EXCEPT ![p] = n]
        /\ UNCHANGED <<intr, noff, intena, sepc, chan, killed, parent, lockVars, cpuVars, loopVars, havekids>>
    BY Zenon, <1>4 DEF Fork, Allocproc, Set
  <2>2. n # p /\ pc[n] = "resume"
    <3>1. \A d \in Cpu : run[d] # n
      BY Zenon, <2>1, Slots DEF CoreInv, StackInv, Switched
    <3> QED
      BY Zenon, <1>3, <2>1, <3>1 DEF CoreInv, RunInv
  <2>3. pc' = [pc EXCEPT ![p] = "fork_parent"]
    BY Zenon, <1>3, <2>1, <2>2 DEF TypeOK
  <2>4. \A q \in Slot : /\ pc'[q] = IF q = p THEN "fork_parent" ELSE pc[q]
                        /\ state'[q] = IF q = n THEN "USED" ELSE state[q]
                        /\ cont'[q] = IF q = n THEN "sret" ELSE cont[q]
                        /\ saved'[q] = IF q = n THEN 0 ELSE saved[q]
                        /\ child'[q] = IF q = p THEN n ELSE child[q]
    BY Zenon, <1>3, <2>1, <2>3 DEF TypeOK
  <2>5. ThreadInv'
    <3>1. ThreadOK(n)'
      BY Zenon, <2>2, <2>4 DEF ThreadOK
    <3>2. ThreadOK(p)'
      BY Zenon, <1>2, <1>3, <2>2, <2>4 DEF ThreadOK
    <3>3. ASSUME NEW q \in Slot \ {n, p} PROVE ThreadOK(q)'
      <4>1. ThreadOK(q) /\ pc'[q] = pc[q] /\ cont'[q] = cont[q] /\ saved'[q] = saved[q]
        BY Zenon, <2>4 DEF CoreInv, ThreadInv
      <4> QED
        BY Zenon, <4>1 DEF ThreadOK
    <3> QED
      BY Zenon, <3>1, <3>2, <3>3 DEF ThreadInv
  <2>6. ChildInv'
    BY <1>3, <2>1, <2>4, Slots DEF ChildInv, TypeOK
  <2>7. TypeOK'
    <3>1. /\ state' \in [Slot -> {"UNUSED", "USED", "SLEEPING", "RUNNABLE", "RUNNING", "ZOMBIE"}]
          /\ cont' \in [Slot -> {"user", "sret", "wait", "reparent", "zombie"}]
      BY Zenon, <1>3, <2>1 DEF TypeOK
    <3>2. pc' \in [Slot -> PC]
      BY Zenon, <1>3, <2>3 DEF TypeOK, PC, Unlocked, Acquire
    <3>3. saved' \in [Slot -> 0 .. 1] /\ child' \in [Slot -> Slot \cup {None}]
      BY <1>3, <2>1 DEF TypeOK
    <3> QED
      BY Zenon, <1>3, <2>1, <3>1, <3>2, <3>3 DEF TypeOK, lockVars, cpuVars, loopVars
  <2>8. /\ \A q \in Slot \ {p} : pc[q] # "resume" => cont'[q] = cont[q]
        /\ \A q \in Slot : state'[q] = state[q] \/ (Free(q) /\ state[q] # "RUNNING")
    BY Zenon, <2>1, <2>2, <2>4
  <2> QED
    BY ZenonT(30), <1>2, <2>1, <2>3, <2>5, <2>6, <2>7, <2>8, MoveQuiet DEF lockVars, cpuVars
<1>5. CASE Kill(p, n)
  <2>1. /\ Free(n) /\ killed' = [killed EXCEPT ![n] = 1]
        /\ state' = [state EXCEPT ![n] = IF state[n] = "SLEEPING" THEN "RUNNABLE" ELSE state[n]]
        /\ UNCHANGED <<intrVars, chan, parent, lockVars, cpuVars, pc, codeVars, loopVars, child, havekids>>
    BY Zenon, <1>5 DEF Kill, Set
  <2>2. pc' = [pc EXCEPT ![p] = "user"]
    BY Zenon, <1>2, <1>3, <2>1 DEF TypeOK
  <2>3. \A q \in Slot : state'[q] = IF q = n /\ state[n] = "SLEEPING" THEN "RUNNABLE" ELSE state[q]
    BY Zenon, <1>3, <2>1 DEF TypeOK
  <2>4. ChildInv'
    BY Zenon, <1>3, <2>1, <2>3, MoveChild
  <2>5. TypeOK'
    <3>1. /\ state' \in [Slot -> {"UNUSED", "USED", "SLEEPING", "RUNNABLE", "RUNNING", "ZOMBIE"}]
          /\ killed' \in [Slot -> 0 .. 1]
      BY <1>3, <2>1 DEF TypeOK
    <3> QED
      BY Zenon, <1>3, <2>1, <3>1 DEF TypeOK, intrVars, lockVars, cpuVars, codeVars, loopVars
  <2>6. ThreadInv' /\ \A q \in Slot : state'[q] = state[q] \/ (Free(q) /\ state[q] # "RUNNING")
    BY Zenon, <2>1, <2>3 DEF CoreInv, ThreadInv, ThreadOK, intrVars, codeVars
  <2> QED
    BY ZenonT(30), <1>2, <2>1, <2>2, <2>4, <2>5, <2>6, MoveQuiet DEF lockVars, cpuVars, intrVars, codeVars
<1>6. CASE Wait(p)
  <2>1. /\ pc' = [pc EXCEPT ![p] = "wait"]
        /\ UNCHANGED <<intrVars, procVars, lockVars, cpuVars, codeVars, loopVars, child, havekids>>
    BY Zenon, <1>6 DEF Wait, Go
  <2>2. pc' \in [Slot -> PC] /\ pc'[p] = "wait" /\ \A q \in Slot \ {p} : pc'[q] = pc[q]
    BY Zenon, <1>3, <2>1 DEF TypeOK, PC, Unlocked, Acquire
  <2>3. TypeOK'
    BY Zenon, <1>3, <2>1, <2>2 DEF TypeOK, procVars, intrVars, lockVars, cpuVars, codeVars, loopVars
  <2>4. ThreadOK(p)'
    BY Zenon, <1>2, <1>3, <2>1, <2>2 DEF ThreadOK, codeVars
  <2>5. ThreadInv'
    BY Zenon, <2>1, <2>2, <2>4, MoveThread DEF CoreInv, codeVars, intrVars
  <2>6. ChildInv'
    BY Zenon, <1>3, <2>1, MoveChild DEF procVars
  <2> QED
    BY ZenonT(30), <1>2, <2>1, <2>3, <2>5, <2>6, MoveQuiet DEF lockVars, cpuVars, intrVars, codeVars, procVars
<1> QED
  BY Zenon, <1>4, <1>5, <1>6

(* exit() from user mode, and taking wait_lock.                            *)
LEMMA EnterCore ==
    ASSUME CoreInv, NEW p \in Slot, Exit(p) \/ ExitLock(p) \/ WaitLock(p)
    PROVE  CoreInv'
<1>1. PICK k \in {"user", "exit", "wait"}, l \in {"exit", "reparent", "scan"} :
         /\ At(p, k) /\ Go(p, l) /\ UNCHANGED <<procVars, plock, cpuVars, codeVars, loopVars, child, havekids>>
         /\ \/ /\ k = "user" /\ l = "exit" /\ UNCHANGED <<noff, intena, saved, waitlock>>
               /\ intr' = intr \/ intr' = [intr EXCEPT ![MyCpu(p)] = 0]
            \/ /\ l = (IF k = "exit" THEN "reparent" ELSE "scan") /\ k # "user"
               /\ noff[MyCpu(p)] = 1 /\ UNCHANGED intrVars /\ waitlock = NoCpu /\ waitlock' = MyCpu(p)
  <2>1. CASE Exit(p)
    BY Zenon, <2>1 DEF Exit, Set, lockVars
  <2>2. CASE ExitLock(p)
    BY Zenon, <2>2 DEF ExitLock, AcquireAt
  <2>3. CASE WaitLock(p)
    <3>1. "wait" # "exit" /\ "wait" # "user"
      BY Zenon
    <3> QED
      BY Zenon, <2>3, <3>1 DEF WaitLock, AcquireAt
  <2> QED
    BY Zenon, <2>1, <2>2, <2>3
<1>2. PICK c \in Cpu : run[c] = p /\ MyCpu(p) = c /\ pc[p] = k
  BY Zenon, <1>1, AtCpu DEF CoreInv
<1>3. TypeOK /\ ThreadOK(p) /\ CpuOK(c)
  BY Zenon DEF CoreInv, ThreadInv, CpuInv
<1>4. pc' = [pc EXCEPT ![p] = l] /\ pc' \in [Slot -> PC] /\ pc'[p] = l /\ \A q \in Slot \ {p} : pc'[q] = pc[q]
  BY Zenon, <1>1, <1>3 DEF TypeOK, PC, Unlocked, Acquire, Locked, Go
<1>5. UNCHANGED <<state, plock, run, prev, cont, sepc, saved, noff, intena, child>>
  BY Zenon, <1>1 DEF procVars, cpuVars, codeVars, intrVars
<1>6. /\ intr' \in [Cpu -> 0 .. 1] /\ \A d \in Cpu \ {c} : intr'[d] = intr[d]
      /\ k # "user" => intr' = intr
      /\ waitlock' \in Cpu \cup {NoCpu}
  BY <1>1, <1>2, <1>3 DEF TypeOK, intrVars
<1>7. TypeOK'
  BY Zenon, <1>1, <1>3, <1>4, <1>5, <1>6 DEF TypeOK, procVars, loopVars
<1>8. ThreadOK(p)'
  BY Zenon, <1>1, <1>2, <1>3, <1>4, <1>5 DEF ThreadOK
<1>9. CpuOK(c)'
  <2>1. noff[c] = (IF k = "user" THEN 0 ELSE 1) /\ (k = "wait" => intena[c] = 1) /\ (l = "scan" => k = "wait")
    BY Zenon, <1>1, <1>2, <1>3, Slots DEF CpuOK
  <2> QED
    BY Zenon, <1>1, <1>2, <1>3, <1>4, <1>5, <1>6, <2>1, Slots DEF CpuOK, Locked
<1>10. ThreadInv'
  BY Zenon, <1>4, <1>5, <1>8, MoveThread DEF CoreInv
<1>11. ChildInv'
  BY Zenon, <1>3, <1>5, MoveChild DEF CoreInv
<1>12. /\ k \notin {"swtch", "resume"} \cup Locked /\ l \notin {"swtch", "resume"}
       /\ \/ waitlock' = waitlock /\ l \notin Locked
          \/ waitlock = NoCpu /\ waitlock' = c /\ l \in Locked
  BY Zenon, <1>1, <1>2 DEF Locked
<1> QED
  BY ZenonT(30), <1>2, <1>4, <1>5, <1>6, <1>7, <1>9, <1>10, <1>11, <1>12, Move

(* The loops of exit(), wakeup() and wait() under wait_lock.               *)
LEMMA LoopCore ==
    ASSUME CoreInv, NEW p \in Slot,
           Reparent(p) \/ WakeParent(p) \/ Wakeup(p) \/ WakeupDone(p) \/ Scan(p) \/ WaitSleeps(p)
    PROVE  CoreInv'
<1> USE DEF Set, Go
<1>0. TypeOK /\ ThreadOK(p) /\ \A q \in Slot : child[q] \in Slot \cup {None}
  BY Zenon DEF CoreInv, ThreadInv, TypeOK
<1>1. PICK c \in Cpu : run[c] = p /\ MyCpu(p) = c
  <2>1. \E l : At(p, l)
    BY Zenon DEF Reparent, WakeParent, Wakeup, WakeupDone, Scan, WaitSleeps
  <2> QED
    BY Zenon, <2>1, AtCpu DEF CoreInv
<1>2. UNCHANGED <<run, prev, plock, waitlock, intr, noff, intena, saved, sepc, child, chan, killed>>
  BY Zenon DEF Reparent, WakeParent, Wakeup, WakeupDone, Scan, WaitSleeps, EndScan, intrVars, lockVars, cpuVars,
               codeVars, procVars
<1>3. PICK l : /\ pc' = [pc EXCEPT ![p] = l] /\ pc[p] \in Locked /\ l \in Locked
               /\ l \in {"scan", "sleep"} => pc[p] \in {"scan", "sleep"}
               /\ \A q \in Slot \ {p} : cont'[q] = cont[q]
               /\ cont' \in [Slot -> {"user", "sret", "wait", "reparent", "zombie"}]
               /\ l = "wakeup" => cont'[p] \in {"reparent", "zombie"}
               /\ l # "wakeup" => cont'[p] = "user"
  <2>1. CASE Reparent(p)
    <3>1. pc[p] = "reparent" /\ \/ pc' = [pc EXCEPT ![p] = "wakeup"] /\ cont' = [cont EXCEPT ![p] = "reparent"]
                                \/ pc' = pc /\ cont' = cont
      BY Zenon, <2>1 DEF Reparent, CallWakeup, At
    <3>2. CASE pc' = [pc EXCEPT ![p] = "wakeup"] /\ cont' = [cont EXCEPT ![p] = "reparent"]
      BY Zenon, <1>0, <3>1, <3>2 DEF TypeOK, Locked
    <3>3. CASE pc' = pc /\ cont' = cont
      <4>1. pc' = [pc EXCEPT ![p] = "reparent"] /\ cont[p] = "user"
        BY Zenon, <1>0, <3>1, <3>3 DEF TypeOK, ThreadOK
      <4> QED
        BY Zenon, <1>0, <3>1, <3>3, <4>1 DEF TypeOK, Locked
    <3> QED
      BY Zenon, <3>1, <3>2, <3>3
  <2>2. CASE WakeParent(p)
    <3>1. /\ pc[p] = "reparent" /\ pc' = [pc EXCEPT ![p] = "wakeup"] /\ cont' = [cont EXCEPT ![p] = "zombie"]
      BY Zenon, <2>2 DEF WakeParent, CallWakeup, At
    <3> QED
      BY Zenon, <1>0, <3>1 DEF TypeOK, Locked
  <2>3. CASE Wakeup(p)
    <3>1. pc[p] = "wakeup" /\ pc' = pc /\ cont' = cont
      BY Zenon, <2>3 DEF Wakeup, At, codeVars
    <3>2. pc' = [pc EXCEPT ![p] = "wakeup"] /\ cont[p] \in {"reparent", "zombie"}
      BY Zenon, <1>0, <3>1 DEF TypeOK, ThreadOK
    <3> QED
      BY Zenon, <1>0, <3>1, <3>2 DEF TypeOK, Locked
  <2>4. CASE WakeupDone(p)
    <3>1. pc[p] = "wakeup" /\ pc' = [pc EXCEPT ![p] = cont[p]] /\ cont' = [cont EXCEPT ![p] = "user"]
      BY Zenon, <2>4 DEF WakeupDone, At
    <3>2. cont[p] \in {"reparent", "zombie"}
      BY Zenon, <1>0, <3>1 DEF ThreadOK
    <3> QED
      BY Zenon, <1>0, <3>1, <3>2 DEF TypeOK, Locked
  <2>5. CASE Scan(p)
    <3>1. pc[p] = "scan" /\ pc' = pc /\ cont' = cont
      BY Zenon, <2>5 DEF Scan, At, codeVars
    <3>2. pc' = [pc EXCEPT ![p] = "scan"] /\ cont[p] = "user"
      BY Zenon, <1>0, <3>1 DEF TypeOK, ThreadOK
    <3> QED
      BY Zenon, <1>0, <3>1, <3>2 DEF TypeOK, Locked
  <2>6. CASE WaitSleeps(p)
    <3>1. pc[p] = "scan" /\ pc' = [pc EXCEPT ![p] = "sleep"] /\ cont' = cont
      BY Zenon, <2>6 DEF WaitSleeps, At, codeVars
    <3>2. cont[p] = "user"
      BY Zenon, <1>0, <3>1 DEF ThreadOK
    <3> QED
      BY Zenon, <1>0, <3>1, <3>2 DEF TypeOK, Locked
  <2> QED
    BY Zenon, <2>1, <2>2, <2>3, <2>4, <2>5, <2>6
<1>4. /\ \A q \in Slot : state'[q] = state[q] \/ (Free(q) /\ state[q] = "SLEEPING")
      /\ state' \in [Slot -> {"UNUSED", "USED", "SLEEPING", "RUNNABLE", "RUNNING", "ZOMBIE"}]
  <2>1. CASE Wakeup(p)
    <3>1. /\ widx[p] \in Slot /\ (widx[p] # p => Free(widx[p]))
          /\ state' = [state EXCEPT ![widx[p]] =
                         IF widx[p] # p /\ state[widx[p]] = "SLEEPING" /\ chan[widx[p]] = wchan[p]
                         THEN "RUNNABLE" ELSE state[widx[p]]]
      BY <1>0, <2>1, NPROCAssumption DEF Wakeup, TypeOK, Slot
    <3> QED
      BY Zenon, <1>0, <3>1 DEF TypeOK
  <2>2. CASE ~Wakeup(p)
    <3>1. state' = state
      BY Zenon, <2>2 DEF Reparent, WakeParent, WakeupDone, Scan, WaitSleeps, procVars
    <3> QED
      BY Zenon, <1>0, <3>1 DEF TypeOK
  <2> QED
    BY Zenon, <2>1, <2>2
<1>5. /\ idx' \in [Slot -> 1 .. NPROC + 1] /\ widx' \in [Slot -> 1 .. NPROC + 1]
      /\ wchan' \in [Slot -> Slot \cup {None}] /\ parent' \in [Slot -> Slot \cup {None}]
      /\ havekids' \in [Slot -> 0 .. 1]
  <2>0. 1 \in 1 .. NPROC + 1 /\ \A i \in 1 .. NPROC + 1 : i <= NPROC => i + 1 \in 1 .. NPROC + 1
    BY NPROCAssumption
  <2>1. CASE Reparent(p)
    <3>1. idx[p] <= NPROC /\ idx' = [idx EXCEPT ![p] = idx[p] + 1] /\ UNCHANGED <<widx, havekids>>
      BY Zenon, <2>1 DEF Reparent
    <3>2. \/ parent' = [parent EXCEPT ![idx[p]] = initproc] /\ wchan' = [wchan EXCEPT ![p] = initproc]
          \/ UNCHANGED <<parent, wchan>>
      BY Zenon, <2>1 DEF Reparent, CallWakeup
    <3>3. idx[p] \in 1 .. NPROC + 1 /\ idx[p] + 1 \in 1 .. NPROC + 1
      BY Zenon, <1>0, <2>0, <3>1 DEF TypeOK
    <3>4. idx' \in [Slot -> 1 .. NPROC + 1]
      BY Zenon, <1>0, <3>1, <3>3 DEF TypeOK
    <3>5. parent' \in [Slot -> Slot \cup {None}] /\ wchan' \in [Slot -> Slot \cup {None}]
      <4>1. parent \in [Slot -> Slot \cup {None}] /\ wchan \in [Slot -> Slot \cup {None}]
        BY Zenon, <1>0 DEF TypeOK
      <4> QED
        BY <3>2, <4>1, Slots
    <3> QED
      BY Zenon, <1>0, <3>1, <3>4, <3>5 DEF TypeOK
  <2>2. CASE WakeParent(p)
    BY Zenon, <1>0, <2>0, <2>2 DEF TypeOK, WakeParent, CallWakeup, procVars
  <2>3. CASE Wakeup(p)
    BY Zenon, <1>0, <2>0, <2>3 DEF TypeOK, Wakeup
  <2>4. CASE WakeupDone(p)
    BY Zenon, <1>0, <2>0, <2>4 DEF TypeOK, WakeupDone, procVars
  <2>5. CASE Scan(p)
    BY <1>0, <2>0, <2>5 DEF TypeOK, Scan, procVars
  <2>6. CASE WaitSleeps(p)
    BY Zenon, <1>0, <2>0, <2>6 DEF TypeOK, WaitSleeps, EndScan, procVars
  <2> QED
    BY Zenon, <2>1, <2>2, <2>3, <2>4, <2>5, <2>6
<1>6. pc' \in [Slot -> PC] /\ pc'[p] = l /\ \A q \in Slot \ {p} : pc'[q] = pc[q]
  BY Zenon, <1>0, <1>3 DEF TypeOK, PC
<1>7. TypeOK'
  BY Zenon, <1>0, <1>2, <1>3, <1>4, <1>5, <1>6 DEF TypeOK
<1>8. ThreadOK(p)'
  BY Zenon, <1>3, <1>6 DEF ThreadOK, Locked
<1>9. ThreadInv'
  BY Zenon, <1>2, <1>3, <1>6, <1>8, MoveThread DEF CoreInv
<1>10. \A q \in Slot : (state[q] = "USED" => state'[q] = "USED") /\ (state'[q] = state[q] \/ (Free(q) /\ state[q] # "RUNNING"))
  BY Zenon, <1>4
<1>11. ChildInv'
  BY Zenon, <1>0, <1>2, <1>10, MoveChild DEF CoreInv
<1> QED
  BY ZenonT(30), <1>1, <1>2, <1>3, <1>7, <1>9, <1>10, <1>11, MoveQuiet

(* The ends of wait().                                                     *)
LEMMA WaitReturnCore ==
    ASSUME CoreInv, NEW p \in Slot, Reap(p) \/ ReapFails(p) \/ WaitFails(p)
    PROVE  CoreInv'
<1>1. At(p, "scan") /\ WaitReturn(p) /\ (UNCHANGED procVars \/ (FoundZombie(p) /\ Freeproc(idx[p])))
  BY Zenon DEF Reap, ReapFails, WaitFails, FoundZombie
<1>2. PICK c \in Cpu : run[c] = p /\ MyCpu(p) = c /\ pc[p] = "scan"
  BY Zenon, <1>1, AtCpu DEF CoreInv
<1>3. TypeOK /\ IntrTypes /\ ThreadOK(p) /\ CpuOK(c)
  BY Zenon DEF CoreInv, ThreadInv, CpuInv, TypeOK, IntrTypes
<1>4. noff[c] = 1 /\ intr[c] = 0 /\ intena[c] = 1
  BY Zenon, <1>2, <1>3, Slots DEF CpuOK, Locked
<1>5. /\ Pop(c, intena[c]) /\ waitlock' = NoCpu /\ pc' = [pc EXCEPT ![p] = "user"]
      /\ idx' = [idx EXCEPT ![p] = 1] /\ havekids' = [havekids EXCEPT ![p] = 0]
      /\ UNCHANGED <<saved, widx, wchan, child, plock, run, prev, cont, sepc>>
  BY Zenon, <1>1, <1>2 DEF WaitReturn, EndScan, Release, Go, Set, cpuVars, codeVars
<1>6. /\ IntrTypes' /\ intr'[c] = 1 /\ noff'[c] = 0 /\ intena'[c] = 0
      /\ \A d \in Cpu \ {c} : intr'[d] = intr[d] /\ noff'[d] = noff[d] /\ intena'[d] = intena[d]
  BY Zenon, <1>3, <1>4, <1>5, PopCpu
<1>7. /\ state' \in [Slot -> {"UNUSED", "USED", "SLEEPING", "RUNNABLE", "RUNNING", "ZOMBIE"}]
      /\ chan' \in [Slot -> Slot \cup {None}] /\ killed' \in [Slot -> 0 .. 1]
      /\ parent' \in [Slot -> Slot \cup {None}]
      /\ \A q \in Slot : state'[q] = state[q] \/ (Free(q) /\ state[q] = "ZOMBIE")
  <2>1. CASE UNCHANGED procVars
    BY Zenon, <1>3, <2>1 DEF TypeOK, procVars
  <2>2. CASE FoundZombie(p) /\ Freeproc(idx[p])
    <3>1. idx[p] \in Slot /\ Free(idx[p]) /\ state[idx[p]] = "ZOMBIE"
      BY <1>3, <2>2, NPROCAssumption DEF FoundZombie, TypeOK, Slot
    <3>2. /\ parent' = [parent EXCEPT ![idx[p]] = None] /\ chan' = [chan EXCEPT ![idx[p]] = None]
          /\ killed' = [killed EXCEPT ![idx[p]] = 0] /\ state' = [state EXCEPT ![idx[p]] = "UNUSED"]
      BY Zenon, <2>2 DEF Freeproc, Set
    <3> QED
      BY <1>3, <3>1, <3>2 DEF TypeOK
  <2> QED
    BY Zenon, <1>1, <2>1, <2>2
<1>8. pc' \in [Slot -> PC] /\ pc'[p] = "user" /\ \A q \in Slot \ {p} : pc'[q] = pc[q]
  BY Zenon, <1>3, <1>5 DEF TypeOK, PC, Unlocked
<1>9. idx' \in [Slot -> 1 .. NPROC + 1] /\ havekids' \in [Slot -> 0 .. 1] /\ waitlock' \in Cpu \cup {NoCpu}
  BY <1>3, <1>5, NPROCAssumption DEF TypeOK
<1>10. TypeOK'
  BY Zenon, <1>3, <1>5, <1>6, <1>7, <1>8, <1>9 DEF TypeOK, IntrTypes
<1>11. CpuOK(c)' /\ ThreadOK(p)'
  BY Zenon, <1>2, <1>3, <1>5, <1>6, <1>8, Slots DEF CpuOK, ThreadOK, Locked
<1>12. ThreadInv'
  BY Zenon, <1>5, <1>8, <1>11, MoveThread DEF CoreInv
<1>13. \A q \in Slot : (state[q] = "USED" => state'[q] = "USED") /\ (state'[q] = state[q] \/ (Free(q) /\ state[q] # "RUNNING"))
  BY Zenon, <1>7
<1>14. ChildInv'
  BY Zenon, <1>3, <1>5, <1>13, MoveChild DEF CoreInv
<1>15. /\ pc[p] \notin {"swtch", "resume"} /\ "user" \notin {"swtch", "resume"}
       /\ pc[p] \in Locked /\ waitlock' = NoCpu /\ "user" \notin Locked
       /\ \A q \in Slot \ {p} : pc[q] # "resume" => cont'[q] = cont[q]
  BY Zenon, <1>2, <1>5 DEF Locked
<1>16. \A q \in Slot : state'[q] = state[q] \/ (Free(q) /\ state[q] # "RUNNING")
  BY Zenon, <1>13
<1> QED
  BY ZenonT(30), <1>2, <1>5, <1>6, <1>10, <1>11, <1>12, <1>14, <1>15, <1>16, Move

(* The threads on their way to sched().                                    *)
LEMMA LockCore ==
    ASSUME CoreInv, NEW p \in Slot, Zombie(p) \/ Sleep(p) \/ Yield(p)
    PROVE  CoreInv'
<1> USE DEF Set, Go
<1>0. TypeOK /\ IntrTypes /\ ThreadOK(p) /\ RunInv
  BY Zenon DEF CoreInv, ThreadInv, TypeOK, IntrTypes
<1>1. PICK c \in Cpu : run[c] = p /\ MyCpu(p) = c
  <2>1. ASSUME NEW l, At(p, l) PROVE \E d \in Cpu : run[d] = p /\ MyCpu(p) = d
    BY ZenonT(30), <1>0, <2>1, AtCpu
  <2>2. CASE Zombie(p) \/ Sleep(p)
    BY Zenon, <2>1, <2>2 DEF Zombie, Sleep
  <2>3. CASE Yield(p)
    BY Zenon, <2>1, <2>3 DEF Yield, TimerTrap
  <2> QED
    BY Zenon, <2>2, <2>3
<1>2. CpuOK(c) /\ run[c] # None
  BY Zenon, <1>1, Slots DEF CoreInv, CpuInv
<1>3. /\ pc[p] # "swtch" /\ pc[p] # "resume" /\ Free(p) /\ UNCHANGED <<run, prev, saved, killed, parent, idx, widx, wchan, child, havekids>>
      /\ pc' = [pc EXCEPT ![p] = "swtch"] /\ plock' = [plock EXCEPT ![p] = c]
  <2>1. Zombie(p) \/ Sleep(p) => pc[p] \in {"zombie", "sleep"}
    BY Zenon DEF Zombie, Sleep, At
  <2>2. Yield(p) => pc[p] # "swtch"
    <3>1. Yield(p) => intr[c] = 1
      BY Zenon, <1>1 DEF Yield, TimerTrap
    <3>2. pc[p] = "swtch" => intr[c] = 0
      BY Zenon, <1>1, <1>2 DEF CpuOK
    <3> QED
      BY <3>1, <3>2
  <2>3. pc[p] # "resume"
    BY Zenon, <1>1 DEF CoreInv, RunInv
  <2>4. pc[p] # "swtch"
    BY Zenon, <2>1, <2>2
  <2> QED
    BY Zenon, <1>1, <2>3, <2>4 DEF Zombie, Sleep, Yield, intrVars, cpuVars, loopVars
<1>4. \E s \in Switched : state' = [state EXCEPT ![p] = s]
  BY Zenon DEF Zombie, Sleep, Yield, Switched
<1>5. RunInv' /\ StackInv' /\ HoldInv'
  BY Zenon, <1>0, <1>1, <1>3, <1>4, LockRun DEF CoreInv
<1>6. \/ pc[p] \in Locked /\ waitlock' = NoCpu
      \/ pc[p] \notin Locked /\ waitlock' = waitlock
  <2>1. CASE Zombie(p) \/ Sleep(p)
    BY Zenon, <2>1 DEF Zombie, Sleep, At, Locked
  <2>2. CASE Yield(p)
    <3>1. waitlock' = waitlock /\ intr[c] = 1
      BY Zenon, <1>1, <2>2 DEF Yield, TimerTrap
    <3>2. noff[c] # 1 /\ (pc[run[c]] \in Locked => noff[c] = 1)
      BY <1>2, <3>1 DEF CpuOK
    <3> QED
      BY Zenon, <1>1, <3>1, <3>2
  <2> QED
    BY Zenon, <2>1, <2>2
<1>7. "swtch" \notin Locked
  BY Zenon DEF Locked
<1>8. WaitInv'
  BY Zenon, <1>1, <1>3, <1>6, <1>7, MoveWait DEF CoreInv
<1>9. \A q \in Slot : /\ pc'[q] = IF q = p THEN "swtch" ELSE pc[q]
                      /\ q # p => state'[q] = state[q]
  BY Zenon, <1>0, <1>3, <1>4 DEF TypeOK
<1>10. /\ IntrTypes' /\ intr'[c] = 0 /\ noff'[c] = 1
       /\ \A d \in Cpu \ {c} : intr'[d] = intr[d] /\ noff'[d] = noff[d] /\ intena'[d] = intena[d]
       /\ cont' \in [Slot -> {"user", "sret", "wait", "reparent", "zombie"}]
       /\ \A q \in Slot \ {p} : cont'[q] = cont[q]
       /\ cont'[p] = "wait" => intena'[c] = 1
       /\ cont'[p] = "sret" => intena'[c] = 0
       /\ sepc' \in [Slot -> Unlocked] /\ chan' \in [Slot -> Slot \cup {None}]
  <2>1. CASE Zombie(p)
    <3>1. pc[p] = "zombie" /\ UNCHANGED <<intr, noff, intena, cont, sepc, chan>>
      BY Zenon, <2>1 DEF Zombie, At, intrVars, codeVars
    <3>2. noff[c] = 1 /\ intr[c] = 0 /\ cont[p] = "user"
      BY Zenon, <1>0, <1>1, <1>2, <3>1 DEF CpuOK, ThreadOK, Locked
    <3> QED
      BY Zenon, <1>0, <3>1, <3>2 DEF TypeOK, IntrTypes
  <2>2. CASE Sleep(p)
    <3>1. pc[p] = "sleep" /\ UNCHANGED <<intr, noff, intena, sepc>> /\ cont' = [cont EXCEPT ![p] = "wait"]
          /\ chan' = [chan EXCEPT ![p] = p]
      BY Zenon, <2>2 DEF Sleep, At, intrVars
    <3>2. noff[c] = 1 /\ intr[c] = 0 /\ intena[c] = 1
      BY Zenon, <1>1, <1>2, <3>1 DEF CpuOK, Locked
    <3> QED
      BY Zenon, <1>0, <3>1, <3>2 DEF TypeOK, IntrTypes
  <2>3. CASE Yield(p)
    <3>1. /\ intr[c] = 1 /\ Push(c, 0) /\ sepc' = [sepc EXCEPT ![p] = pc[p]] /\ cont' = [cont EXCEPT ![p] = "sret"]
          /\ chan' = chan
      BY Zenon, <1>1, <2>3 DEF Yield, TimerTrap
    <3>2. noff[c] = 0
      BY <1>0, <1>2, <3>1 DEF CpuOK, IntrTypes
    <3>3. /\ IntrTypes' /\ intr'[c] = 0 /\ noff'[c] = 1 /\ intena'[c] = 0
          /\ \A d \in Cpu \ {c} : intr'[d] = intr[d] /\ noff'[d] = noff[d] /\ intena'[d] = intena[d]
      BY 0 \in 0 .. 1, <1>0, <3>1, <3>2, PushCpu, Zenon
    <3>4. pc[p] \in Unlocked
      <4>1. pc[p] \in Locked => noff[c] = 1
        BY Zenon, <1>1, <1>2 DEF CpuOK
      <4>2. pc[p] \notin Locked
        BY <3>2, <4>1
      <4> QED
        BY Zenon, <1>0, <1>3, <4>2 DEF TypeOK, PC
    <3> QED
      BY Zenon, <1>0, <3>1, <3>3, <3>4 DEF TypeOK
  <2> QED
    BY Zenon, <2>1, <2>2, <2>3
<1>11. CpuOK(c)' /\ ThreadOK(p)'
  BY <1>1, <1>2, <1>3, <1>9, <1>10 DEF CpuOK, ThreadOK, Locked
<1>a. /\ \A q \in Slot \ {p} : pc'[q] = pc[q] /\ (pc[q] # "resume" => cont'[q] = cont[q])
      /\ \A q \in Slot \ {p} : pc'[q] = pc[q] /\ cont'[q] = cont[q] /\ saved'[q] = saved[q]
  BY Zenon, <1>3, <1>9, <1>10
<1>12. CpuInv'
  BY Zenon, <1>1, <1>3, <1>10, <1>11, <1>a, MoveCpu DEF CoreInv
<1>13. ThreadInv'
  BY Zenon, <1>11, <1>a, MoveThread DEF CoreInv
<1>14. TypeOK'
  <2>1. pc' \in [Slot -> PC] /\ plock' \in [Slot -> Cpu \cup {NoCpu}] /\ waitlock' \in Cpu \cup {NoCpu}
    BY Zenon, <1>0, <1>3, <1>6 DEF TypeOK, PC
  <2>2. state' \in [Slot -> {"UNUSED", "USED", "SLEEPING", "RUNNABLE", "RUNNING", "ZOMBIE"}]
    BY Zenon, <1>0, <1>4 DEF TypeOK, Switched
  <2> QED
    BY Zenon, <1>0, <1>3, <1>10, <2>1, <2>2 DEF TypeOK, IntrTypes
<1>15. state[p] = "RUNNING"
  BY Zenon, <1>1, <1>2, <1>3 DEF CoreInv, StackInv
<1>16. ChildInv'
  <2>1. \A q \in Slot : state[q] = "USED" => state'[q] = "USED"
    BY Zenon, <1>9, <1>15
  <2> QED
    BY Zenon, <1>0, <1>3, <2>1, MoveChild DEF CoreInv
<1> QED
  BY Zenon, <1>5, <1>8, <1>12, <1>13, <1>14, <1>16 DEF CoreInv

(* sched(): the CPU leaves the stack, with p->lock held.                   *)
LEMMA SchedCore ==
    ASSUME CoreInv, NEW p \in Slot, Sched(p)
    PROVE  CoreInv'
<1>1. PICK c \in Cpu : run[c] = p /\ MyCpu(p) = c /\ pc[p] = "swtch"
  BY Zenon, AtCpu DEF CoreInv, Sched
<1>2. /\ saved' = [saved EXCEPT ![p] = intena[c]] /\ run' = [run EXCEPT ![c] = None]
      /\ prev' = [prev EXCEPT ![c] = p] /\ pc' = [pc EXCEPT ![p] = "resume"]
      /\ UNCHANGED <<intr, noff, intena, procVars, lockVars, codeVars, loopVars, child, havekids>>
  BY Zenon, <1>1 DEF Sched, Set, Go
<1>3. TypeOK /\ RunInv /\ ThreadOK(p) /\ CpuOK(c)
  BY Zenon DEF CoreInv, ThreadInv, CpuInv
<1>4. /\ \A q \in Slot : pc'[q] = (IF q = p THEN "resume" ELSE pc[q]) /\ saved'[q] = IF q = p THEN intena[c] ELSE saved[q]
      /\ \A d \in Cpu : run'[d] = (IF d = c THEN None ELSE run[d]) /\ prev'[d] = IF d = c THEN p ELSE prev[d]
  BY Zenon, <1>2, <1>3 DEF TypeOK
<1>5. UNCHANGED <<state, plock, waitlock, intr, noff, intena, cont, child>>
  BY Zenon, <1>2 DEF procVars, lockVars, codeVars
<1>6. plock[p] = c /\ state[p] \in Switched /\ \A d \in Cpu \ {c} : run[d] # p
  BY <1>1, Slots DEF CoreInv, StackInv, RunInv
<1>7. \A d \in Cpu : run[d] \in Slot \cup {None} /\ prev[d] \in Slot \cup {None} /\ d # NoCpu
  BY Zenon, <1>3, CpuAssumption DEF TypeOK
<1>8. RunInv'
  <2>1. \A d, e \in Cpu : run'[d] # None /\ run'[d] = run'[e] => d = e
    BY <1>3, <1>4 DEF RunInv
  <2>2. \A q \in Slot : pc'[q] # "resume" <=> \E d \in Cpu : run'[d] = q
    BY <1>1, <1>3, <1>4, <1>6, Slots DEF RunInv
  <2>3. \A d \in Cpu : prev'[d] # None =>
          run'[d] = None /\ plock'[prev'[d]] = d /\ state'[prev'[d]] \in Switched
    BY <1>3, <1>4, <1>5, <1>6 DEF RunInv
  <2> QED
    BY Zenon, <2>1, <2>2, <2>3 DEF RunInv
<1>9. StackInv'
  BY <1>4, <1>5, <1>6, <1>7 DEF CoreInv, StackInv
<1>10. HoldInv'
  <2>1. \A d \in Cpu : run[d] # None => prev[d] = None
    BY Zenon, <1>3 DEF RunInv
  <2>2. \A q \in Slot : plock[q] # NoCpu => plock[q] \in Cpu
    BY Zenon, <1>3 DEF TypeOK
  <2>3. ASSUME NEW q \in Slot, plock[q] # NoCpu
        PROVE  prev'[plock[q]] = q \/ (run'[plock[q]] = q /\ pc'[q] = "swtch")
    <3>1. prev[plock[q]] = q \/ (run[plock[q]] = q /\ pc[q] = "swtch")
      BY Zenon, <2>3 DEF CoreInv, HoldInv
    <3>2. plock[q] \in Cpu
      BY Zenon, <2>2, <2>3
    <3> QED
      BY <1>1, <1>4, <1>6, <2>1, <3>1, <3>2, Slots
  <2> QED
    BY Zenon, <1>5, <2>3 DEF HoldInv
<1>11. WaitInv'
  BY <1>1, <1>4, <1>5, <1>6, <1>7 DEF CoreInv, WaitInv, Locked
<1>12. ThreadInv'
  <2>1. ThreadOK(p)'
    BY Zenon, <1>1, <1>3, <1>4, <1>5, Slots DEF ThreadOK, CpuOK
  <2> QED
    BY Zenon, <1>4, <1>5, <2>1, MoveThread DEF CoreInv
<1>13. CpuInv'
  <2>1. CpuOK(c)'
    BY Zenon, <1>1, <1>3, <1>4, <1>5, Slots DEF CpuOK
  <2>2. ASSUME NEW d \in Cpu \ {c} PROVE CpuOK(d)'
    <3>1. CpuOK(d) /\ run'[d] = run[d] /\ prev'[d] = prev[d] /\ (run[d] # None => pc'[run[d]] = pc[run[d]])
      BY Zenon, <1>4, <1>6, <1>7 DEF CoreInv, CpuInv
    <3> QED
      BY Zenon, <1>5, <3>1 DEF CpuOK
  <2> QED
    BY Zenon, <2>1, <2>2 DEF CpuInv
<1>14. TypeOK'
  <2>1. /\ pc' \in [Slot -> PC] /\ run' \in [Cpu -> Slot \cup {None}] /\ prev' \in [Cpu -> Slot \cup {None}]
        /\ saved' \in [Slot -> 0 .. 1]
    BY Zenon, <1>2, <1>3 DEF TypeOK, PC
  <2> QED
    BY Zenon, <1>2, <1>3, <2>1 DEF TypeOK, procVars, lockVars, codeVars, loopVars
<1>15. ChildInv'
  BY Zenon, <1>3, <1>5, MoveChild DEF CoreInv
<1> QED
  BY Zenon, <1>8, <1>9, <1>10, <1>11, <1>12, <1>13, <1>14, <1>15 DEF CoreInv

(* scheduler() releases the lock of the process it came from.              *)
LEMMA SchedulerReleaseCore ==
    ASSUME CoreInv, NEW c \in Cpu, SchedulerRelease(c)
    PROVE  CoreInv'
<1>1. /\ prev[c] # None /\ plock' = [plock EXCEPT ![prev[c]] = NoCpu] /\ prev' = [prev EXCEPT ![c] = None]
      /\ Pop(c, intena[c])
      /\ UNCHANGED <<saved, procVars, waitlock, run, pc, codeVars, loopVars, child, havekids>>
  BY Zenon DEF SchedulerRelease, Set
<1>2. TypeOK /\ IntrTypes /\ RunInv /\ CpuOK(c)
  BY Zenon DEF CoreInv, CpuInv, TypeOK, IntrTypes
<1>3. run[c] = None /\ plock[prev[c]] = c /\ prev[c] \in Slot /\ noff[c] = 1 /\ intr[c] = 0
  BY <1>1, <1>2 DEF RunInv, CpuOK, TypeOK
<1>4. /\ IntrTypes' /\ intr'[c] = intena[c] /\ noff'[c] = 0 /\ intena'[c] = 0
      /\ \A d \in Cpu \ {c} : intr'[d] = intr[d] /\ noff'[d] = noff[d] /\ intena'[d] = intena[d]
  BY Zenon, <1>1, <1>2, <1>3, PopCpu
<1>5. /\ \A q \in Slot : plock'[q] = IF q = prev[c] THEN NoCpu ELSE plock[q]
      /\ \A d \in Cpu : prev'[d] = IF d = c THEN None ELSE prev[d]
  BY Zenon, <1>1, <1>2 DEF TypeOK
<1>6. UNCHANGED <<state, run, pc, cont, saved, waitlock, child>>
  BY Zenon, <1>1 DEF procVars, codeVars
<1>7. \A d \in Cpu : run[d] \in Slot \cup {None} /\ prev[d] \in Slot \cup {None} /\ d # NoCpu
  BY Zenon, <1>2, CpuAssumption DEF TypeOK
<1>8. \A d \in Cpu \ {c} : plock[prev[c]] # d
  BY Zenon, <1>3
<1>9. RunInv'
  <2>1. ASSUME NEW d \in Cpu, prev'[d] # None
        PROVE  run[d] = None /\ plock'[prev'[d]] = d /\ state[prev'[d]] \in Switched
    <3>1. d # c /\ prev'[d] = prev[d]
      BY Zenon, <1>5, <2>1
    <3>2. run[d] = None /\ plock[prev[d]] = d /\ state[prev[d]] \in Switched /\ prev[d] \in Slot
      BY Zenon, <1>2, <1>7, <2>1, <3>1 DEF RunInv
    <3>3. prev[d] # prev[c]
      BY Zenon, <1>3, <3>1, <3>2
    <3> QED
      BY Zenon, <1>5, <3>1, <3>2, <3>3
  <2> QED
    BY Zenon, <1>2, <1>6, <2>1 DEF RunInv
<1>10. StackInv'
  BY Zenon, <1>3, <1>5, <1>6, <1>7, <1>8 DEF CoreInv, StackInv
<1>11. HoldInv'
  <2>1. \A q \in Slot : plock[q] # NoCpu => plock[q] \in Cpu
    BY Zenon, <1>2 DEF TypeOK
  <2> QED
    BY <1>3, <1>5, <1>6, <2>1, Slots DEF CoreInv, HoldInv
<1>12. WaitInv' /\ ThreadInv'
  BY Zenon, <1>6 DEF CoreInv, WaitInv, ThreadInv, ThreadOK
<1>13. CpuInv'
  <2>1. CpuOK(c)'
    BY <1>3, <1>4, <1>5, <1>6 DEF CpuOK
  <2>2. ASSUME NEW d \in Cpu \ {c} PROVE CpuOK(d)'
    <3>1. CpuOK(d) /\ prev'[d] = prev[d]
      BY Zenon, <1>5 DEF CoreInv, CpuInv
    <3> QED
      BY Zenon, <1>4, <1>6, <3>1 DEF CpuOK
  <2> QED
    BY Zenon, <2>1, <2>2 DEF CpuInv
<1>14. TypeOK'
  <2>1. plock' \in [Slot -> Cpu \cup {NoCpu}] /\ prev' \in [Cpu -> Slot \cup {None}]
    BY Zenon, <1>1, <1>2 DEF TypeOK
  <2> QED
    BY Zenon, <1>1, <1>2, <1>4, <2>1 DEF TypeOK, IntrTypes, procVars, codeVars, loopVars
<1>15. ChildInv'
  BY Zenon, <1>2, <1>6, MoveChild DEF CoreInv
<1> QED
  BY Zenon, <1>9, <1>10, <1>11, <1>12, <1>13, <1>14, <1>15 DEF CoreInv

(* scheduler() switches to a runnable process.                             *)
LEMMA SchedulerCore ==
    ASSUME CoreInv, NEW c \in Cpu, NEW p \in Slot, SleepReturns(c, p) \/ TrapReturns(c, p)
    PROVE  CoreInv'
<1>1. /\ run[c] = None /\ prev[c] = None /\ state[p] = "RUNNABLE" /\ Free(p)
      /\ state' = [state EXCEPT ![p] = "RUNNING"] /\ run' = [run EXCEPT ![c] = p]
      /\ saved' = [saved EXCEPT ![p] = 0] /\ cont' = [cont EXCEPT ![p] = "user"]
      /\ UNCHANGED <<noff, intena, killed, parent, lockVars, prev, loopVars, child, havekids>>
  BY Zenon DEF SleepReturns, TrapReturns, Scheduler, SwtchReturns, Set
<1>2. TypeOK /\ RunInv /\ CpuOK(c) /\ ThreadOK(p)
  BY Zenon DEF CoreInv, CpuInv, ThreadInv
<1>3. /\ pc[p] = "resume" /\ (\A d \in Cpu : run[d] # p /\ prev[d] # p) /\ noff[c] = 0 /\ intena[c] = 0
  <2>1. \A d \in Cpu : d # NoCpu
    BY Zenon, CpuAssumption
  <2>2. \A d \in Cpu : run[d] # p
    BY Zenon, <1>1, <2>1, Slots DEF CoreInv, StackInv, Free
  <2>3. \A d \in Cpu : prev[d] # p
    BY <1>1, <1>2, <2>1, Slots DEF RunInv, Free
  <2> QED
    BY Zenon, <1>1, <1>2, <2>2, <2>3 DEF RunInv, CpuOK
<1>4. PICK l \in {"user", "fork_parent", "fork_run", "exit", "wait"} :
         /\ pc' = [pc EXCEPT ![p] = l] /\ intr' = [intr EXCEPT ![c] = 1]
         /\ sepc' \in [Slot -> Unlocked] /\ chan' \in [Slot -> Slot \cup {None}]
  <2>1. CASE SleepReturns(c, p)
    <3>1. /\ cont[p] = "wait" /\ intr' = [intr EXCEPT ![c] = saved[p]] /\ chan' = [chan EXCEPT ![p] = None]
          /\ pc' = [pc EXCEPT ![p] = "wait"] /\ sepc' = sepc
      BY Zenon, <2>1 DEF SleepReturns, Scheduler, SwtchReturns, Set, Go
    <3>2. saved[p] = 1
      BY Zenon, <1>2, <1>3, <3>1 DEF ThreadOK
    <3> QED
      BY Zenon, <1>2, <3>1, <3>2 DEF TypeOK
  <2>2. CASE TrapReturns(c, p)
    <3>1. /\ intr' = [intr EXCEPT ![c] = 1] /\ pc' = [pc EXCEPT ![p] = sepc[p]] /\ chan' = chan
          /\ sepc' = [sepc EXCEPT ![p] = "user"]
      BY Zenon, <2>2 DEF TrapReturns, Set, Go
    <3>2. sepc[p] \in {"user", "fork_parent", "fork_run", "exit", "wait"} /\ "user" \in Unlocked
      BY Zenon, <1>2 DEF TypeOK, Unlocked, Acquire
    <3> QED
      BY Zenon, <1>2, <3>1, <3>2 DEF TypeOK
  <2> QED
    BY Zenon, <2>1, <2>2
<1>5. /\ \A q \in Slot : /\ pc'[q] = IF q = p THEN l ELSE pc[q]
                         /\ state'[q] = IF q = p THEN "RUNNING" ELSE state[q]
                         /\ cont'[q] = IF q = p THEN "user" ELSE cont[q]
                         /\ saved'[q] = IF q = p THEN 0 ELSE saved[q]
      /\ \A d \in Cpu : run'[d] = (IF d = c THEN p ELSE run[d]) /\ intr'[d] = IF d = c THEN 1 ELSE intr[d]
  BY Zenon, <1>1, <1>2, <1>4 DEF TypeOK
<1>6. UNCHANGED <<plock, waitlock, prev, noff, intena, child>>
  BY Zenon, <1>1 DEF lockVars
<1>7. \A d \in Cpu : run[d] \in Slot \cup {None} /\ prev[d] \in Slot \cup {None} /\ d # NoCpu
  BY Zenon, <1>2, CpuAssumption DEF TypeOK
<1>8. RunInv'
  <2>1. \A d, e \in Cpu : run'[d] # None /\ run'[d] = run'[e] => d = e
    <3>1. ASSUME NEW d \in Cpu, NEW e \in Cpu, run'[d] # None, run'[d] = run'[e], d # e PROVE FALSE
      <4>1. CASE d = c \/ e = c
        BY Zenon, <1>3, <1>5, <3>1, <4>1
      <4>2. CASE d # c /\ e # c
        <5>1. run'[d] = run[d] /\ run'[e] = run[e]
          BY Zenon, <1>5, <4>2
        <5>2. run[d] # None /\ run[d] = run[e] => d = e
          BY Zenon, <1>2 DEF RunInv
        <5> QED
          BY Zenon, <3>1, <5>1, <5>2
      <4> QED
        BY Zenon, <4>1, <4>2
    <3> QED
      BY Zenon, <3>1
  <2>2. \A q \in Slot : pc'[q] # "resume" <=> \E d \in Cpu : run'[d] = q
    <3>1. ASSUME NEW q \in Slot \ {p} PROVE pc'[q] # "resume" <=> \E d \in Cpu : run'[d] = q
      <4>1. \A d \in Cpu : run'[d] = q <=> run[d] = q
        BY <1>1, <1>5, <3>1, Slots
      <4> QED
        BY Zenon, <1>2, <1>5, <4>1 DEF RunInv
    <3>2. pc'[p] # "resume" /\ run'[c] = p
      BY Zenon, <1>4, <1>5
    <3> QED
      BY Zenon, <3>1, <3>2
  <2>3. \A d \in Cpu : prev'[d] # None =>
          run'[d] = None /\ plock'[prev'[d]] = d /\ state'[prev'[d]] \in Switched
    <3>1. ASSUME NEW d \in Cpu, prev[d] # None PROVE d # c /\ prev[d] # p /\ prev[d] \in Slot
      BY Zenon, <1>1, <1>3, <1>7, <3>1
    <3> QED
      BY Zenon, <1>2, <1>5, <1>6, <3>1 DEF RunInv
  <2> QED
    BY Zenon, <2>1, <2>2, <2>3 DEF RunInv
<1>9. StackInv'
  <2>1. ASSUME NEW d \in Cpu \ {c}, run[d] # None
        PROVE  /\ run'[d] = run[d] /\ pc'[run[d]] = pc[run[d]] /\ state'[run[d]] = state[run[d]]
               /\ plock'[run[d]] = plock[run[d]]
    BY Zenon, <1>3, <1>5, <1>6, <1>7, <2>1
  <2>2. run'[c] = p /\ pc'[p] # "swtch" /\ state'[p] = "RUNNING"
    BY Zenon, <1>4, <1>5
  <2>3. \A d \in Cpu \ {c} : run'[d] = run[d]
    BY Zenon, <1>5
  <2>4. ASSUME NEW d \in Cpu, run'[d] # None
        PROVE  IF pc'[run'[d]] = "swtch" THEN plock'[run'[d]] = d /\ state'[run'[d]] \in Switched
                                         ELSE state'[run'[d]] = "RUNNING"
    <3>1. CASE d = c
      BY Zenon, <2>2, <3>1
    <3>2. CASE d # c
      <4>1. run'[d] = run[d] /\ run[d] # None
        BY Zenon, <2>3, <2>4, <3>2
      <4>2. IF pc[run[d]] = "swtch" THEN plock[run[d]] = d /\ state[run[d]] \in Switched ELSE state[run[d]] = "RUNNING"
        BY Zenon, <4>1 DEF CoreInv, StackInv
      <4> QED
        BY Zenon, <2>1, <3>2, <4>1, <4>2
    <3> QED
      BY Zenon, <3>1, <3>2
  <2> QED
    BY Zenon, <2>4 DEF StackInv
<1>10. HoldInv'
  <2>1. \A q \in Slot : plock[q] # NoCpu => plock[q] \in Cpu
    BY Zenon, <1>2 DEF TypeOK
  <2> QED
    BY <1>1, <1>3, <1>5, <1>6, <2>1, Slots DEF CoreInv, HoldInv, Free
<1>11. WaitInv'
  <2>1. ASSUME NEW d \in Cpu PROVE waitlock' = d <=> run'[d] # None /\ pc'[run'[d]] \in Locked
    <3>1. waitlock' = waitlock /\ (waitlock = d <=> run[d] # None /\ pc[run[d]] \in Locked)
      BY Zenon, <1>6 DEF CoreInv, WaitInv
    <3>2. CASE d = c
      <4>1. run'[d] = p /\ pc'[p] \notin Locked
        BY Zenon, <1>4, <1>5, <3>2 DEF Locked
      <4> QED
        BY Zenon, <1>1, <3>1, <3>2, <4>1
    <3>3. CASE d # c
      <4>1. run'[d] = run[d] /\ (run[d] # None => pc'[run[d]] = pc[run[d]])
        BY Zenon, <1>3, <1>5, <1>7, <3>3
      <4> QED
        BY Zenon, <3>1, <4>1
    <3> QED
      BY Zenon, <3>2, <3>3
  <2> QED
    BY Zenon, <2>1 DEF WaitInv
<1>12. ThreadInv'
  <2>1. ThreadOK(p)'
    BY Zenon, <1>4, <1>5 DEF ThreadOK
  <2> QED
    BY Zenon, <1>5, <2>1, MoveThread DEF CoreInv
<1>13. CpuInv'
  <2>1. CpuOK(c)'
    <3>1. noff'[c] = 0 /\ intena'[c] = 0 /\ intr'[c] = 1 /\ prev'[c] = None /\ run'[c] = p /\ pc'[p] = l
      BY Zenon, <1>1, <1>3, <1>5, <1>6
    <3>2. l \notin Locked \cup {"swtch", "scan", "sleep"}
      BY Zenon, <1>4 DEF Locked
    <3> QED
      BY Zenon, <3>1, <3>2, Slots DEF CpuOK
  <2>2. ASSUME NEW d \in Cpu \ {c} PROVE CpuOK(d)'
    <3>1. /\ CpuOK(d) /\ run'[d] = run[d] /\ intr'[d] = intr[d]
          /\ run[d] # None => pc'[run[d]] = pc[run[d]] /\ cont'[run[d]] = cont[run[d]]
      BY Zenon, <1>3, <1>5, <1>7 DEF CoreInv, CpuInv
    <3> QED
      BY Zenon, <1>6, <3>1 DEF CpuOK
  <2> QED
    BY Zenon, <2>1, <2>2 DEF CpuInv
<1>14. TypeOK'
  <2>1. pc' \in [Slot -> PC] /\ run' \in [Cpu -> Slot \cup {None}]
    BY Zenon, <1>1, <1>2, <1>4 DEF TypeOK, PC, Unlocked, Acquire
  <2>2. saved' \in [Slot -> 0 .. 1] /\ intr' \in [Cpu -> 0 .. 1]
    BY <1>1, <1>2, <1>4 DEF TypeOK
  <2>3. /\ cont' \in [Slot -> {"user", "sret", "wait", "reparent", "zombie"}]
        /\ state' \in [Slot -> {"UNUSED", "USED", "SLEEPING", "RUNNABLE", "RUNNING", "ZOMBIE"}]
    BY Zenon, <1>1, <1>2 DEF TypeOK
  <2> QED
    BY Zenon, <1>1, <1>2, <1>4, <2>1, <2>2, <2>3 DEF TypeOK, lockVars, loopVars
<1>15. ChildInv'
  <2>1. \A q \in Slot : state[q] = "USED" => state'[q] = "USED"
    BY Zenon, <1>1, <1>5
  <2> QED
    BY Zenon, <1>2, <1>6, <2>1, MoveChild DEF CoreInv
<1> QED
  BY Zenon, <1>8, <1>9, <1>10, <1>11, <1>12, <1>13, <1>14, <1>15 DEF CoreInv

LEMMA InitCore == Init => CoreInv
<1> SUFFICES ASSUME Init PROVE CoreInv
  BY Zenon
<1>1. TypeOK
  BY NPROCAssumption, Slots DEF Init, TypeOK, PC, Unlocked, Acquire, Locked
<1>2. RunInv /\ StackInv /\ HoldInv /\ WaitInv
  BY Zenon, CpuAssumption, Slots DEF Init, RunInv, StackInv, HoldInv, WaitInv
<1>3. ThreadInv /\ CpuInv /\ ChildInv
  BY Zenon DEF Init, ThreadInv, ThreadOK, CpuInv, CpuOK, ChildInv
<1> QED
  BY Zenon, <1>1, <1>2, <1>3 DEF CoreInv

LEMMA NextCore == CoreInv /\ [Next]_vars => CoreInv'
<1> SUFFICES ASSUME CoreInv, [Next]_vars PROVE CoreInv'
  BY Zenon
<1>1. ASSUME NEW p \in Slot, KernelStep(p) PROVE CoreInv'
  BY Zenon, <1>1, PushOffCore, ForkParentCore, EnterCore, LoopCore, WaitReturnCore, LockCore DEF KernelStep
<1>2. ASSUME NEW p \in Slot, Yield(p) \/ Sched(p) \/ Exit(p) \/ Wait(p) PROVE CoreInv'
  BY Zenon, <1>2, LockCore, SchedCore, EnterCore, SyscallCore
<1>3. ASSUME NEW p \in Slot, NEW q \in Slot, Fork(p, q) \/ Kill(p, q) PROVE CoreInv'
  BY Zenon, <1>3, SyscallCore
<1>4. ASSUME NEW c \in Cpu, SchedulerRelease(c) \/ \E p \in Slot : SleepReturns(c, p) \/ TrapReturns(c, p) PROVE CoreInv'
  BY Zenon, <1>4, SchedulerReleaseCore, SchedulerCore
<1>5. ASSUME UNCHANGED vars PROVE CoreInv'
  <2>1. UNCHANGED <<state, chan, killed, parent, plock, waitlock, run, prev, intr, noff, intena, saved, pc, cont, sepc,
                    idx, widx, wchan, child, havekids>>
    BY Zenon, <1>5 DEF vars, procVars, lockVars, cpuVars, intrVars, codeVars, loopVars
  <2>2. TypeOK'
    BY Zenon, <2>1 DEF CoreInv, TypeOK
  <2>3. RunInv' /\ StackInv' /\ HoldInv' /\ WaitInv'
    BY Zenon, <2>1 DEF CoreInv, RunInv, StackInv, HoldInv, WaitInv
  <2>4. ThreadInv' /\ CpuInv' /\ ChildInv'
    BY Zenon, <2>1 DEF CoreInv, ThreadInv, ThreadOK, CpuInv, CpuOK, ChildInv
  <2> QED
    BY Zenon, <2>2, <2>3, <2>4 DEF CoreInv
<1> QED
  BY Zenon, <1>1, <1>2, <1>3, <1>4, <1>5 DEF Next

LEMMA CoreAlways == Spec => []CoreInv
BY InitCore, NextCore, PTL DEF Spec

(* Every variable of the process table keeps its type.                     *)
THEOREM TypeCorrect == Spec => []TypeOK
<1>1. CoreInv => TypeOK
  BY Zenon DEF CoreInv
<1> QED
  BY <1>1, CoreAlways, PTL

(* A kernel stack has one CPU on it at most and its slot is not free: the  *)
(* lock that sched() hands to scheduler() keeps wait() and the other CPUs  *)
(* away until swtch() has left the stack.                                  *)
THEOREM StackAlwaysSafe == Spec => []StackSafe
<1>1. CoreInv => StackSafe
  <2> SUFFICES ASSUME CoreInv, NEW c \in Cpu, run[c] # None
               PROVE  state[run[c]] # "UNUSED" /\ \A d \in Cpu : run[d] = run[c] => d = c
    BY Zenon DEF StackSafe
  <2>1. state[run[c]] # "UNUSED"
    BY Zenon DEF CoreInv, StackInv, Switched
  <2>2. \A d \in Cpu : run[d] = run[c] => d = c
    BY Zenon DEF CoreInv, RunInv
  <2> QED
    BY Zenon, <2>1, <2>2
<1> QED
  BY <1>1, CoreAlways, PTL

(* The panics of sched() are never reached, for any number of CPUs.        *)
THEOREM SchedNeverPanics == Spec => []SchedLocks
<1>1. CoreInv => SchedLocks
  <2> SUFFICES ASSUME CoreInv, NEW c \in Cpu, NEW p \in Slot, run[c] = p, pc[p] = "swtch"
               PROVE  /\ plock[p] = c /\ waitlock # c /\ (\A q \in Slot \ {p} : plock[q] # c)
                      /\ state[p] # "RUNNING" /\ intr[c] = 0 /\ noff[c] = 1
    BY Zenon DEF SchedLocks
  <2>1. run[c] # None /\ prev[c] = None
    BY Zenon, Slots DEF CoreInv, RunInv
  <2>2. plock[p] = c /\ state[p] # "RUNNING"
    BY Zenon, <2>1 DEF CoreInv, StackInv, Switched
  <2>3. waitlock # c
    BY Zenon, <2>1 DEF CoreInv, WaitInv, Locked
  <2>4. \A q \in Slot \ {p} : plock[q] # c
    BY Zenon, <2>1, CpuAssumption, Slots DEF CoreInv, HoldInv
  <2>5. intr[c] = 0 /\ noff[c] = 1
    BY Zenon, <2>1 DEF CoreInv, CpuInv, CpuOK
  <2> QED
    BY Zenon, <2>2, <2>3, <2>4, <2>5
<1> QED
  BY <1>1, CoreAlways, PTL

(* push_off() and pop_off() stay matched, and intena belongs to the        *)
(* thread, for any number of CPUs that the threads move between.           *)
THEOREM InterruptsAlwaysMatched == Spec => []InterruptsMatched
<1>1. CoreInv => InterruptsMatched
  <2> SUFFICES ASSUME CoreInv PROVE InterruptsMatched
    BY Zenon
  <2>1. ASSUME NEW c \in Cpu, intr[c] = 1 PROVE noff[c] = 0 /\ waitlock # c /\ \A q \in Slot : plock[q] # c
    <3>1. noff[c] = 0 /\ CpuOK(c)
      BY <2>1 DEF CoreInv, CpuInv, CpuOK, TypeOK
    <3>2. waitlock # c
      BY <3>1 DEF CoreInv, WaitInv, CpuOK
    <3>3. ASSUME NEW q \in Slot, plock[q] = c PROVE FALSE
      <4>1. prev[c] = q \/ (run[c] = q /\ pc[q] = "swtch")
        BY Zenon, <3>3, CpuAssumption DEF CoreInv, HoldInv
      <4>2. run[c] # None \/ prev[c] = None
        BY <3>1 DEF CpuOK
      <4> QED
        BY <3>1, <4>1, <4>2, Slots DEF CoreInv, RunInv, CpuOK
    <3> QED
      BY Zenon, <3>1, <3>2, <3>3
  <2>2. ASSUME NEW c \in Cpu, NEW p \in Slot, run[c] = p, pc[p] \in {"user", "fork_parent", "fork_run", "wait"}, noff[c] = 0
        PROVE  intr[c] = 1
    BY Zenon, <2>2, Slots DEF CoreInv, CpuInv, CpuOK
  <2>3. \A p \in Slot : pc[p] = "resume" /\ cont[p] = "sret" => saved[p] = 0
    BY Zenon DEF CoreInv, ThreadInv, ThreadOK
  <2> QED
    BY Zenon, <2>1, <2>2, <2>3 DEF InterruptsMatched
<1> QED
  BY <1>1, CoreAlways, PTL

-----------------------------------------------------------------------------

(* The first process is neither dead nor in exit().                        *)
Dead == {"UNUSED", "USED", "ZOMBIE"}
Exiting == {"exit", "reparent", "wakeup", "zombie"}
InitInv ==
    /\ state[initproc] \notin Dead /\ parent[initproc] = None
    /\ pc[initproc] \notin Exiting /\ sepc[initproc] # "exit"

(* sepc is a place in the kernel only while the thread is in yield().      *)
SepcInv == \A p \in Slot : sepc[p] # "user" => cont[p] = "sret" /\ state[p] = "RUNNABLE"

(* fork() has a child until it has made it runnable, and it gives it a     *)
(* parent before that.                                                     *)
ForkAt(p, l) == pc[p] = l \/ sepc[p] = l
ForkInv ==
    \A p \in Slot : /\ ForkAt(p, "fork_parent") => child[p] # None
                    /\ ForkAt(p, "fork_run") => child[p] # None /\ parent[child[p]] # None

(* A loop variable is 1 unless its thread is in the loop.                  *)
IdxOK(p) ==
    /\ pc[p] \notin {"scan", "reparent", "wakeup"} => idx[p] = 1
    /\ pc[p] = "wakeup" /\ cont[p] = "zombie" => idx[p] = 1
    /\ pc[p] # "wakeup" => widx[p] = 1
IdxInv == \A p \in Slot : IdxOK(p)

(* reparent() has left no child of p behind it.                            *)
ExitInv ==
    \A p, q \in Slot : parent[q] = p =>
        /\ pc[p] = "reparent" \/ (pc[p] = "wakeup" /\ cont[p] = "reparent") => idx[p] <= q
        /\ ~(pc[p] = "wakeup" /\ cont[p] = "zombie") /\ pc[p] # "zombie"

FamilyInv == InitInv /\ SepcInv /\ ForkInv /\ IdxInv /\ ExitInv /\ ParentsLive

-----------------------------------------------------------------------------
(* The threads other than p stand still; only a thread that has not run    *)
(* yet may get another place to start from.                                *)
Only(p) ==
    \A q \in Slot \ {p} :
        /\ pc'[q] = pc[q] /\ sepc'[q] = sepc[q] /\ child'[q] = child[q]
        /\ idx'[q] = idx[q] /\ widx'[q] = widx[q] /\ wchan'[q] = wchan[q]
        /\ cont'[q] = cont[q] \/ (pc[q] = "resume" /\ sepc[q] = "user")

(* The steps of thread p, by the process whose fields they change.         *)
ThreadStep(p) ==
    \/ KernelStep(p) \/ Yield(p) \/ Sched(p) \/ Exit(p) \/ Wait(p)
    \/ \E q \in Slot : Fork(p, q) \/ Kill(p, q)
    \/ \E c \in Cpu : SleepReturns(c, p) \/ TrapReturns(c, p)

(* A free slot has no CPU on its stack.                                    *)
LEMMA UnusedRests ==
    ASSUME CoreInv, SepcInv, NEW n \in Slot, state[n] = "UNUSED"
    PROVE  pc[n] = "resume" /\ sepc[n] = "user"
<1>1. \A c \in Cpu : run[c] # n
  BY Zenon, Slots DEF CoreInv, StackInv, Switched
<1>2. pc[n] = "resume"
  BY Zenon, <1>1 DEF CoreInv, RunInv
<1>3. sepc[n] = "user"
  BY Zenon DEF SepcInv
<1> QED
  BY Zenon, <1>2, <1>3

LEMMA OnlyOne ==
    ASSUME CoreInv, SepcInv, NEW p \in Slot, ThreadStep(p)
    PROVE  Only(p)
<1> USE DEF Set, Go
<1>1. TypeOK
  BY Zenon DEF CoreInv
<1>2. ASSUME UNCHANGED <<cont, sepc>>, \E l : pc' = [pc EXCEPT ![p] = l] \/ pc' = pc,
             \E v : idx' = [idx EXCEPT ![p] = v] \/ idx' = idx, \E v : widx' = [widx EXCEPT ![p] = v] \/ widx' = widx,
             UNCHANGED wchan, \E v : child' = [child EXCEPT ![p] = v] \/ child' = child
      PROVE  Only(p)
  BY Zenon, <1>1, <1>2 DEF TypeOK, Only
<1>3. CASE PushOff(p) \/ Exit(p) \/ Wait(p) \/ Sched(p) \/ ExitLock(p) \/ WaitLock(p)
  <2>1. UNCHANGED <<cont, sepc, idx, widx, wchan, child>> /\ \E l : pc' = [pc EXCEPT ![p] = l] \/ pc' = pc
    BY Zenon, <1>3 DEF PushOff, Exit, Wait, Sched, ExitLock, WaitLock, codeVars, loopVars
  <2> QED
    BY Zenon, <1>2, <2>1
<1>4. CASE ForkParent(p) \/ ForkRun(p)
  <2>1. /\ UNCHANGED <<cont, sepc, idx, widx, wchan>> /\ \E l : pc' = [pc EXCEPT ![p] = l]
        /\ \E v : child' = [child EXCEPT ![p] = v] \/ child' = child
    BY Zenon, <1>4 DEF ForkParent, ForkRun, codeVars, loopVars
  <2> QED
    BY Zenon, <1>2, <2>1
<1>5. CASE Scan(p) \/ WaitSleeps(p) \/ Reap(p) \/ ReapFails(p) \/ WaitFails(p)
  <2>1. /\ UNCHANGED <<cont, sepc, widx, wchan, child>> /\ \E l : pc' = [pc EXCEPT ![p] = l] \/ pc' = pc
        /\ \E v : idx' = [idx EXCEPT ![p] = v]
    BY Zenon, <1>5 DEF Scan, WaitSleeps, Reap, ReapFails, WaitFails, WaitReturn, EndScan, codeVars
  <2> QED
    BY Zenon, <1>2, <2>1
<1>6. CASE Wakeup(p) \/ Zombie(p)
  <2>1. /\ UNCHANGED <<cont, sepc, idx, wchan, child>> /\ \E l : pc' = [pc EXCEPT ![p] = l] \/ pc' = pc
        /\ \E v : widx' = [widx EXCEPT ![p] = v] \/ widx' = widx
    BY Zenon, <1>6 DEF Wakeup, Zombie, codeVars, loopVars
  <2> QED
    BY Zenon, <1>2, <2>1
<1>7. ASSUME UNCHANGED <<child>>, \E v : cont' = [cont EXCEPT ![p] = v] \/ cont' = cont,
             \E l : pc' = [pc EXCEPT ![p] = l] \/ pc' = pc, \E v : sepc' = [sepc EXCEPT ![p] = v] \/ sepc' = sepc,
             \E v : idx' = [idx EXCEPT ![p] = v] \/ idx' = idx, \E v : widx' = [widx EXCEPT ![p] = v] \/ widx' = widx,
             \E v : wchan' = [wchan EXCEPT ![p] = v] \/ wchan' = wchan
      PROVE  Only(p)
  BY <1>1, <1>7 DEF TypeOK, Only
<1>8. CASE Reparent(p) \/ WakeParent(p) \/ WakeupDone(p)
  <2>1. /\ UNCHANGED <<sepc, child>> /\ (\E v : cont' = [cont EXCEPT ![p] = v] \/ cont' = cont)
        /\ (\E l : pc' = [pc EXCEPT ![p] = l] \/ pc' = pc) /\ (\E v : idx' = [idx EXCEPT ![p] = v] \/ idx' = idx)
        /\ (\E v : widx' = [widx EXCEPT ![p] = v] \/ widx' = widx)
        /\ \E v : wchan' = [wchan EXCEPT ![p] = v] \/ wchan' = wchan
    BY Zenon, <1>8 DEF Reparent, WakeParent, WakeupDone, CallWakeup
  <2> QED
    BY Zenon, <1>7, <2>1
<1>9. CASE Sleep(p) \/ Yield(p) \/ \E c \in Cpu : SleepReturns(c, p) \/ TrapReturns(c, p)
  <2>1. /\ UNCHANGED <<child, idx, widx, wchan>> /\ (\E v : cont' = [cont EXCEPT ![p] = v])
        /\ (\E l : pc' = [pc EXCEPT ![p] = l]) /\ (\E v : sepc' = [sepc EXCEPT ![p] = v] \/ sepc' = sepc)
    BY Zenon, <1>9 DEF Sleep, Yield, SleepReturns, TrapReturns, Scheduler, SwtchReturns, loopVars
  <2> QED
    BY Zenon, <1>7, <2>1
<1>10. ASSUME NEW n \in Slot, Fork(p, n) PROVE Only(p)
  <2>1. /\ pc' = [pc EXCEPT ![p] = "fork_parent", ![n] = "resume"] /\ cont' = [cont EXCEPT ![n] = "sret"]
        /\ child' = [child EXCEPT ![p] = n] /\ UNCHANGED <<sepc, idx, widx, wchan>> /\ state[n] = "UNUSED"
    BY Zenon, <1>10 DEF Fork, Allocproc, loopVars
  <2>2. pc[n] = "resume" /\ sepc[n] = "user"
    BY Zenon, <2>1, UnusedRests
  <2> QED
    BY Zenon, <1>1, <2>1, <2>2 DEF TypeOK, Only
<1>11. ASSUME NEW n \in Slot, Kill(p, n) PROVE Only(p)
  BY Zenon, <1>11 DEF Kill, codeVars, loopVars, Only
<1> QED
  BY Zenon, <1>3, <1>4, <1>5, <1>6, <1>8, <1>9, <1>10, <1>11 DEF ThreadStep, KernelStep

(* The table of processes is left alone, but for sleepers that become      *)
(* runnable and for a process that stays alive.                            *)
Quiet(p) ==
    /\ parent' = parent
    /\ \A q \in Slot \ {p} : state'[q] = state[q] \/ (state[q] = "SLEEPING" /\ state'[q] = "RUNNABLE")
    /\ state'[p] = state[p] \/ (state[p] \notin Dead /\ state'[p] \notin Dead)

LEMMA RunningAt ==
    ASSUME CoreInv, NEW p \in Slot, NEW l, At(p, l), l # "swtch"
    PROVE  state[p] = "RUNNING"
BY Zenon, Slots DEF CoreInv, StackInv, At

LEMMA TableStep ==
    ASSUME CoreInv, NEW p \in Slot, ThreadStep(p)
    PROVE  \/ Quiet(p) \/ ForkParent(p) \/ ForkRun(p) \/ Reparent(p) \/ Reap(p) \/ Zombie(p)
           \/ \E n \in Slot : Fork(p, n)
<1> USE DEF Set
<1>1. TypeOK
  BY Zenon DEF CoreInv
<1>2. CASE UNCHANGED <<state, parent>>
  BY Zenon, <1>2 DEF Quiet
<1>3. ASSUME parent' = parent, NEW s, state' = [state EXCEPT ![p] = s], state[p] \notin Dead, s \notin Dead
      PROVE  Quiet(p)
  BY Zenon, <1>1, <1>3 DEF Quiet, TypeOK
<1>4. CASE Sleep(p)
  <2>1. state[p] = "RUNNING"
    BY Zenon, RunningAt, <1>4 DEF Sleep
  <2> QED
    BY Zenon, <1>3, <1>4, <2>1 DEF Sleep, Dead
<1>5. CASE Yield(p)
  <2>1. PICK l \in PC : At(p, l) /\ intr[MyCpu(p)] = 1
    BY Zenon, <1>5 DEF Yield, TimerTrap
  <2>2. PICK c \in Cpu : run[c] = p /\ MyCpu(p) = c /\ pc[p] = l
    BY Zenon, <2>1, AtCpu DEF CoreInv
  <2>3. l # "swtch"
    BY <2>1, <2>2, Slots DEF CoreInv, CpuInv, CpuOK
  <2>4. state[p] = "RUNNING"
    BY Zenon, RunningAt, <2>1, <2>3
  <2> QED
    BY Zenon, <1>3, <1>5, <2>4 DEF Yield, Dead
<1>6. ASSUME NEW c \in Cpu, SleepReturns(c, p) \/ TrapReturns(c, p) PROVE Quiet(p)
  <2>1. state[p] = "RUNNABLE" /\ state' = [state EXCEPT ![p] = "RUNNING"] /\ parent' = parent
    BY Zenon, <1>6 DEF SleepReturns, TrapReturns, Scheduler
  <2> QED
    BY Zenon, <1>3, <2>1 DEF Dead
<1>8. ASSUME NEW q \in Slot, Kill(p, q) PROVE Quiet(p)
  <2>1. parent' = parent /\ state' = [state EXCEPT ![q] = IF @ = "SLEEPING" THEN "RUNNABLE" ELSE @] /\ At(p, "user")
    BY Zenon, <1>8 DEF Kill, Syscall
  <2>2. state[p] = "RUNNING"
    BY Zenon, RunningAt, <2>1
  <2> QED
    BY Zenon, <1>1, <2>1, <2>2 DEF Quiet, TypeOK
<1>9. CASE Wakeup(p)
  <2> DEFINE w == widx[p]
             e == w # p /\ chan[w] = wchan[p]
  <2>1. /\ parent' = parent /\ At(p, "wakeup") /\ w <= NPROC
        /\ state' = [state EXCEPT ![w] = IF w # p /\ @ = "SLEEPING" /\ chan[w] = wchan[p] THEN "RUNNABLE" ELSE @]
    BY Zenon, <1>9 DEF Wakeup
  <2>2. state[p] = "RUNNING" /\ w \in Slot
    BY RunningAt, <1>1, <2>1, NPROCAssumption DEF TypeOK, Slot
  <2>3. state' = [state EXCEPT ![w] = IF e /\ @ = "SLEEPING" THEN "RUNNABLE" ELSE @]
    BY Zenon, <2>1
  <2> QED
    BY Zenon, <1>1, <2>1, <2>2, <2>3 DEF Quiet, TypeOK
<1>10. CASE PushOff(p) \/ Sched(p) \/ Exit(p) \/ Wait(p) \/ ExitLock(p) \/ WakeParent(p) \/ WakeupDone(p) \/ WaitLock(p)
            \/ Scan(p) \/ ReapFails(p) \/ WaitFails(p) \/ WaitSleeps(p)
  BY Zenon, <1>2, <1>10 DEF PushOff, Sched, Exit, Wait, ExitLock, WakeParent, WakeupDone, WaitLock, Scan, ReapFails,
       WaitFails, WaitSleeps, procVars
<1> QED
  BY Zenon, <1>4, <1>5, <1>6, <1>8, <1>9, <1>10 DEF ThreadStep, KernelStep

(* The other changes of the table, with the process n they are about.      *)
Allocates(p, n) ==
    /\ state[n] = "UNUSED" /\ parent' = parent /\ state' = [state EXCEPT ![n] = "USED"]
Links(p, n) ==
    /\ pc[p] = "fork_parent" /\ child[p] = n /\ state[n] = "USED" /\ state[p] = "RUNNING"
    /\ state' = state /\ parent' = [parent EXCEPT ![n] = p]
Starts(p, n) ==
    /\ pc[p] = "fork_run" /\ state[n] = "USED" /\ parent[n] # None
    /\ parent' = parent /\ state' = [state EXCEPT ![n] = "RUNNABLE"]
HandsOver(p, n) ==
    /\ pc[p] = "reparent" /\ idx[p] = n /\ parent[n] = p
    /\ pc' = [pc EXCEPT ![p] = "wakeup"] /\ cont' = [cont EXCEPT ![p] = "reparent"]
    /\ wchan' = [wchan EXCEPT ![p] = initproc] /\ UNCHANGED widx
    /\ state' = state /\ parent' = [parent EXCEPT ![n] = initproc]
Dies(p) ==
    /\ pc[p] = "zombie" /\ state[p] = "RUNNING"
    /\ parent' = parent /\ state' = [state EXCEPT ![p] = "ZOMBIE"]
Reaps(p, n) ==
    /\ pc[p] = "scan" /\ state[n] = "ZOMBIE" /\ parent[n] = p
    /\ parent' = [parent EXCEPT ![n] = None] /\ state' = [state EXCEPT ![n] = "UNUSED"]

LEMMA TableCases ==
    ASSUME CoreInv, ForkInv, NEW p \in Slot, ThreadStep(p)
    PROVE  \/ Quiet(p) \/ Dies(p)
           \/ \E n \in Slot : Allocates(p, n) \/ Links(p, n) \/ Starts(p, n) \/ HandsOver(p, n) \/ Reaps(p, n)
<1> USE DEF Set, Go
<1>1. TypeOK
  BY Zenon DEF CoreInv
<1>2. ASSUME NEW n \in Slot, Fork(p, n) PROVE Allocates(p, n)
  BY Zenon, <1>2 DEF Fork, Allocproc, Allocates
<1>3. ASSUME child[p] # None PROVE child[p] \in Slot /\ state[child[p]] = "USED"
  BY Zenon, <1>1, <1>3 DEF TypeOK, CoreInv, ChildInv
<1>4. CASE ForkParent(p)
  <2>1. At(p, "fork_parent") /\ state' = state /\ parent' = [parent EXCEPT ![child[p]] = p]
    BY Zenon, <1>4 DEF ForkParent, AcquireAt
  <2>2. state[p] = "RUNNING" /\ pc[p] = "fork_parent"
    BY Zenon, RunningAt, <2>1 DEF At
  <2>3. child[p] # None
    BY Zenon, <2>2 DEF ForkInv, ForkAt
  <2> QED
    BY Zenon, <1>3, <2>1, <2>2, <2>3 DEF Links
<1>5. CASE ForkRun(p)
  <2>1. At(p, "fork_run") /\ parent' = parent /\ state' = [state EXCEPT ![child[p]] = "RUNNABLE"]
    BY Zenon, <1>5 DEF ForkRun, AcquireAt
  <2>2. child[p] # None /\ parent[child[p]] # None /\ pc[p] = "fork_run"
    BY Zenon, <2>1 DEF ForkInv, ForkAt, At
  <2> QED
    BY Zenon, <1>3, <2>1, <2>2 DEF Starts
<1>6. CASE Reparent(p)
  <2>1. idx[p] \in Slot
    BY <1>1, <1>6, NPROCAssumption DEF Reparent, TypeOK, Slot
  <2>2. CASE parent[idx[p]] = p
    BY Zenon, <1>6, <2>1, <2>2 DEF Reparent, CallWakeup, HandsOver, At
  <2>3. CASE parent[idx[p]] # p
    BY Zenon, <1>6, <2>3 DEF Reparent, Quiet
  <2> QED
    BY Zenon, <2>2, <2>3
<1>7. CASE Reap(p)
  <2>1. idx[p] \in Slot
    BY <1>1, <1>7, NPROCAssumption DEF Reap, FoundZombie, TypeOK, Slot
  <2> QED
    BY Zenon, <1>7, <2>1 DEF Reap, FoundZombie, Freeproc, Reaps, At
<1>8. CASE Zombie(p)
  <2>1. state[p] = "RUNNING"
    BY Zenon, RunningAt, <1>8 DEF Zombie
  <2> QED
    BY Zenon, <1>8, <2>1 DEF Zombie, Dies, At
<1> QED
  BY Zenon, <1>2, <1>4, <1>5, <1>6, <1>7, <1>8, TableStep

(* Nobody is left behind by exit(), reparent() or wait().                  *)
LEMMA ParentsStep ==
    ASSUME CoreInv, FamilyInv, NEW p \in Slot, ThreadStep(p)
    PROVE  ParentsLive' /\ state'[initproc] \notin Dead /\ parent'[initproc] = None
<1>1. TypeOK /\ ParentsLive /\ initproc \in Slot /\ state[initproc] \notin Dead /\ parent[initproc] = None
  BY Zenon, Slots DEF CoreInv, FamilyInv, InitInv
<1>2. \A q \in Slot : parent[q] \in Slot \cup {None}
  BY Zenon, <1>1 DEF TypeOK
<1>3. CASE Quiet(p)
  <2>1. \A q \in Slot : parent'[q] = parent[q] /\ (state'[q] = state[q] \/ (state[q] \notin Dead /\ state'[q] \notin Dead))
    BY Zenon, <1>3 DEF Quiet, Dead
  <2> QED
    BY Zenon, <1>1, <1>2, <2>1 DEF ParentsLive, Dead
<1>4. CASE Dies(p)
  <2>1. \A q \in Slot : parent'[q] = parent[q] /\ state'[q] = IF q = p THEN "ZOMBIE" ELSE state[q]
    BY Zenon, <1>1, <1>4 DEF Dies, TypeOK
  <2>2. \A q \in Slot : parent[q] # p
    BY Zenon, <1>4 DEF FamilyInv, ExitInv, Dies
  <2>3. p # initproc
    BY Zenon, <1>4 DEF FamilyInv, InitInv, Dies, Exiting
  <2>4. parent[p] # None
    BY Zenon, <1>1, <1>4, <2>3 DEF ParentsLive, Dies
  <2> QED
    BY Zenon, <1>1, <1>2, <2>1, <2>2, <2>3, <2>4 DEF ParentsLive, Dead
<1>5. ASSUME NEW n \in Slot, Allocates(p, n) PROVE ParentsLive' /\ state'[initproc] \notin Dead /\ parent'[initproc] = None
  <2>1. \A q \in Slot : parent'[q] = parent[q] /\ state'[q] = IF q = n THEN "USED" ELSE state[q]
    BY Zenon, <1>1, <1>5 DEF Allocates, TypeOK
  <2> QED
    BY Zenon, <1>1, <1>2, <1>5, <2>1 DEF ParentsLive, Dead, Allocates
<1>6. ASSUME NEW n \in Slot, Links(p, n) PROVE ParentsLive' /\ state'[initproc] \notin Dead /\ parent'[initproc] = None
  <2>1. \A q \in Slot : state'[q] = state[q] /\ parent'[q] = IF q = n THEN p ELSE parent[q]
    BY Zenon, <1>1, <1>6 DEF Links, TypeOK
  <2> QED
    BY Zenon, <1>1, <1>2, <1>6, <2>1, Slots DEF ParentsLive, Dead, Links
<1>7. ASSUME NEW n \in Slot, Starts(p, n) PROVE ParentsLive' /\ state'[initproc] \notin Dead /\ parent'[initproc] = None
  <2>1. \A q \in Slot : parent'[q] = parent[q] /\ state'[q] = IF q = n THEN "RUNNABLE" ELSE state[q]
    BY Zenon, <1>1, <1>7 DEF Starts, TypeOK
  <2> QED
    BY <1>1, <1>2, <1>7, <2>1 DEF ParentsLive, Dead, Starts
<1>8. ASSUME NEW n \in Slot, HandsOver(p, n) PROVE ParentsLive' /\ state'[initproc] \notin Dead /\ parent'[initproc] = None
  <2>1. \A q \in Slot : state'[q] = state[q] /\ parent'[q] = IF q = n THEN initproc ELSE parent[q]
    BY Zenon, <1>1, <1>8 DEF HandsOver, TypeOK
  <2> QED
    BY <1>1, <1>2, <1>8, <2>1, Slots DEF ParentsLive, Dead, HandsOver
<1>9. ASSUME NEW n \in Slot, Reaps(p, n) PROVE ParentsLive' /\ state'[initproc] \notin Dead /\ parent'[initproc] = None
  <2>1. \A q \in Slot : /\ parent'[q] = IF q = n THEN None ELSE parent[q]
                        /\ state'[q] = IF q = n THEN "UNUSED" ELSE state[q]
    BY Zenon, <1>1, <1>9 DEF Reaps, TypeOK
  <2> QED
    BY <1>1, <1>2, <1>9, <2>1, Slots DEF ParentsLive, Dead, Reaps
<1> QED
  BY Zenon, <1>3, <1>4, <1>5, <1>6, <1>7, <1>8, <1>9, TableCases DEF FamilyInv

-----------------------------------------------------------------------------
(* What the step of thread p does to p itself.                             *)
SepcOK(p) == sepc[p] # "user" => cont[p] = "sret" /\ state[p] = "RUNNABLE"
ForkPlaces == {"fork_parent", "fork_run"}

(* A place of fork() is entered by fork() alone, or again after yield().   *)
KeepsFork(p) ==
    \A l \in ForkPlaces : ForkAt(p, l)' => ForkAt(p, l) /\ child'[p] = child[p]

LocalOK(p) ==
    /\ SepcOK(p)' /\ IdxOK(p)'
    /\ p = initproc => pc'[p] \notin Exiting /\ sepc'[p] # "exit"
    /\ KeepsFork(p) \/ ForkParent(p) \/ \E n \in Slot : Fork(p, n)

LEMMA LocalMove ==
    ASSUME CoreInv, FamilyInv, NEW p \in Slot,
           \/ PushOff(p) \/ Exit(p) \/ Wait(p) \/ ExitLock(p) \/ WaitLock(p) \/ ForkParent(p) \/ ForkRun(p) \/ Zombie(p)
           \/ Sched(p) \/ \E n \in Slot : Fork(p, n) \/ Kill(p, n)
    PROVE  LocalOK(p)
<1> USE DEF Set, Go
<1>1. TypeOK /\ SepcOK(p) /\ IdxOK(p) /\ (p = initproc => pc[p] \notin Exiting /\ sepc[p] # "exit")
  BY Zenon DEF CoreInv, FamilyInv, SepcInv, SepcOK, IdxInv, InitInv
<1>2. ASSUME NEW n \in Slot, Fork(p, n) PROVE pc'[p] = "fork_parent" /\ pc[p] = "user"
  <2>1. At(p, "user") /\ state[n] = "UNUSED" /\ pc' = [pc EXCEPT ![p] = "fork_parent", ![n] = "resume"]
    BY Zenon, <1>2 DEF Fork, Syscall, Allocproc
  <2>2. n # p
    BY Zenon, RunningAt, <2>1
  <2> QED
    BY Zenon, <1>1, <2>1, <2>2 DEF TypeOK, At
<1>3. \/ pc'[p] = pc[p] /\ UNCHANGED child /\ pc[p] \notin {"reparent", "wakeup", "scan"}
      \/ /\ pc[p] \notin {"reparent", "wakeup", "scan"} /\ pc'[p] # "wakeup"
         /\ p = initproc => pc'[p] \notin Exiting
         /\ \/ pc'[p] \notin ForkPlaces /\ (UNCHANGED child \/ pc[p] # "swtch")
            \/ ForkParent(p) \/ \E n \in Slot : Fork(p, n)
  <2>1. CASE PushOff(p)
    BY Zenon, <2>1 DEF PushOff, At, Acquire
  <2>2. ASSUME NEW n \in Slot, Kill(p, n) PROVE pc'[p] = pc[p] /\ UNCHANGED child /\ pc[p] = "user"
    BY Zenon, <2>2 DEF Kill, Syscall, At
  <2>3. CASE Exit(p)
    BY Zenon, <1>1, <2>3 DEF Exit, At, TypeOK, ForkPlaces
  <2>4. CASE Wait(p) \/ WaitLock(p)
    BY Zenon, <1>1, <2>4 DEF Wait, Syscall, WaitLock, AcquireAt, At, TypeOK, ForkPlaces, Exiting
  <2>5. CASE ExitLock(p) \/ Zombie(p)
    BY Zenon, <1>1, <2>5 DEF ExitLock, Zombie, AcquireAt, At, TypeOK, ForkPlaces, Exiting
  <2>6. CASE ForkParent(p) \/ ForkRun(p)
    BY Zenon, <1>1, <2>6 DEF ForkParent, ForkRun, AcquireAt, At, TypeOK, ForkPlaces, Exiting
  <2>7. CASE Sched(p)
    BY Zenon, <1>1, <2>7 DEF Sched, At, TypeOK, ForkPlaces, Exiting
  <2>8. ASSUME NEW n \in Slot, Fork(p, n) PROVE pc'[p] # "wakeup" /\ pc'[p] \notin Exiting /\ pc[p] = "user"
    BY Zenon, <1>2, <2>8 DEF Exiting
  <2> QED
    BY Zenon, <2>1, <2>2, <2>3, <2>4, <2>5, <2>6, <2>7, <2>8
<1>4. UNCHANGED <<sepc, idx, widx>>
  BY Zenon DEF PushOff, Exit, Wait, ExitLock, WaitLock, ForkParent, ForkRun, Zombie, Sched, Fork, Kill, codeVars, loopVars
<1>5. (UNCHANGED cont /\ state'[p] = state[p]) \/ sepc[p] = "user"
  <2>1. CASE PushOff(p) \/ Exit(p) \/ Wait(p) \/ ExitLock(p) \/ WaitLock(p) \/ Sched(p)
    BY Zenon, <2>1 DEF PushOff, Exit, Wait, ExitLock, WaitLock, Sched, codeVars, procVars
  <2>2. CASE ~(PushOff(p) \/ Exit(p) \/ Wait(p) \/ ExitLock(p) \/ WaitLock(p) \/ Sched(p))
    <3>1. \E l : l # "swtch" /\ At(p, l)
      BY Zenon, <2>2 DEF ForkParent, ForkRun, Zombie, Fork, Kill, Syscall, AcquireAt
    <3>2. state[p] = "RUNNING"
      BY Zenon, <3>1, RunningAt
    <3> QED
      BY Zenon, <1>1, <3>2 DEF SepcOK
  <2> QED
    BY Zenon, <2>1, <2>2
<1>6. SepcOK(p)'
  BY Zenon, <1>4, <1>5, <1>1 DEF SepcOK
<1>7. IdxOK(p)'
  BY Zenon, <1>1, <1>3, <1>4 DEF IdxOK
<1>8. p = initproc => pc'[p] \notin Exiting /\ sepc'[p] # "exit"
  BY Zenon, <1>1, <1>3, <1>4
<1>9. KeepsFork(p) \/ ForkParent(p) \/ \E n \in Slot : Fork(p, n)
  <2>1. CASE UNCHANGED child /\ pc'[p] = pc[p]
    BY Zenon, <1>4, <2>1 DEF KeepsFork, ForkAt
  <2>2. CASE pc'[p] \notin ForkPlaces /\ UNCHANGED child
    BY Zenon, <1>4, <2>2 DEF KeepsFork, ForkAt
  <2>3. CASE ForkRun(p)
    <3>1. pc'[p] = "user" /\ At(p, "fork_run")
      BY Zenon, <1>1, <2>3 DEF ForkRun, AcquireAt, TypeOK
    <3>2. sepc[p] = "user"
      BY Zenon, <1>1, <3>1, RunningAt DEF SepcOK
    <3> QED
      BY Zenon, <1>4, <3>1, <3>2 DEF KeepsFork, ForkAt, ForkPlaces
  <2>4. CASE ~(ForkRun(p) \/ ForkParent(p) \/ \E n \in Slot : Fork(p, n))
    <3>1. UNCHANGED child
      BY Zenon, <2>4 DEF PushOff, Exit, Wait, ExitLock, WaitLock, Zombie, Sched, Kill
    <3> QED
      BY Zenon, <1>3, <2>1, <2>2, <2>4, <3>1
  <2> QED
    BY Zenon, <2>3, <2>4
<1> QED
  BY Zenon, <1>6, <1>7, <1>8, <1>9 DEF LocalOK

LEMMA LocalLoop ==
    ASSUME CoreInv, FamilyInv, NEW p \in Slot,
           \/ Scan(p) \/ WaitSleeps(p) \/ Reap(p) \/ ReapFails(p) \/ WaitFails(p)
           \/ Reparent(p) \/ WakeParent(p) \/ Wakeup(p) \/ WakeupDone(p)
    PROVE  LocalOK(p)
<1> USE DEF Set, Go
<1>1. TypeOK /\ SepcOK(p) /\ IdxOK(p) /\ ThreadOK(p) /\ (p = initproc => pc[p] \notin Exiting)
  BY Zenon DEF CoreInv, FamilyInv, SepcInv, SepcOK, IdxInv, InitInv, ThreadInv
<1>2. UNCHANGED <<sepc, child>>
  BY Zenon DEF Scan, WaitSleeps, Reap, ReapFails, WaitFails, WaitReturn, EndScan, Reparent, WakeParent, Wakeup, WakeupDone,
       codeVars
<1>3. pc[p] \in {"scan", "reparent", "wakeup"} /\ At(p, pc[p])
  BY Zenon DEF Scan, WaitSleeps, Reap, ReapFails, WaitFails, FoundZombie, Reparent, WakeParent, Wakeup, WakeupDone, At
<1>4. sepc[p] = "user"
  BY Zenon, <1>1, <1>3, RunningAt DEF SepcOK
<1>5. CASE Scan(p) \/ WaitSleeps(p) \/ Reap(p) \/ ReapFails(p) \/ WaitFails(p)
  <2>1. UNCHANGED widx /\ pc[p] = "scan" /\ (pc'[p] = "scan" \/ (pc'[p] \in {"sleep", "user"} /\ idx'[p] = 1))
    <3>1. CASE Scan(p)
      BY Zenon, <3>1 DEF Scan, At
    <3>2. CASE WaitSleeps(p)
      BY Zenon, <1>1, <3>2 DEF WaitSleeps, EndScan, At, TypeOK
    <3>3. CASE Reap(p) \/ ReapFails(p) \/ WaitFails(p)
      BY Zenon, <1>1, <3>3 DEF Reap, ReapFails, WaitFails, FoundZombie, WaitReturn, EndScan, At, TypeOK
    <3> QED
      BY Zenon, <1>5, <3>1, <3>2, <3>3
  <2> QED
    BY Zenon, <1>1, <1>2, <1>4, <2>1 DEF LocalOK, SepcOK, IdxOK, KeepsFork, ForkAt, ForkPlaces, Exiting
<1>6. CASE Reparent(p)
  <2>1. UNCHANGED widx /\ pc[p] = "reparent" /\ (pc'[p] = "reparent" \/ (pc'[p] = "wakeup" /\ cont'[p] = "reparent"))
    BY Zenon, <1>1, <1>6 DEF Reparent, CallWakeup, At, TypeOK
  <2> QED
    BY Zenon, <1>1, <1>2, <1>4, <2>1 DEF LocalOK, SepcOK, IdxOK, KeepsFork, ForkAt, ForkPlaces, Exiting
<1>7. CASE WakeParent(p)
  <2>1. UNCHANGED widx /\ pc[p] = "reparent" /\ pc'[p] = "wakeup" /\ idx'[p] = 1
    BY Zenon, <1>1, <1>7 DEF WakeParent, CallWakeup, At, TypeOK
  <2> QED
    BY Zenon, <1>1, <1>2, <1>4, <2>1 DEF LocalOK, SepcOK, IdxOK, KeepsFork, ForkAt, ForkPlaces, Exiting
<1>8. CASE Wakeup(p)
  <2>1. UNCHANGED <<pc, cont, idx>> /\ pc[p] = "wakeup"
    BY Zenon, <1>8 DEF Wakeup, At, codeVars
  <2> QED
    BY Zenon, <1>1, <1>2, <1>4, <2>1 DEF LocalOK, SepcOK, IdxOK, KeepsFork, ForkAt, ForkPlaces, Exiting
<1>9. CASE WakeupDone(p)
  <2>1. UNCHANGED idx /\ pc[p] = "wakeup" /\ pc'[p] = cont[p] /\ widx'[p] = 1
    BY Zenon, <1>1, <1>9 DEF WakeupDone, At, TypeOK
  <2>2. cont[p] \in {"reparent", "zombie"}
    BY Zenon, <1>1, <2>1 DEF ThreadOK
  <2> QED
    BY Zenon, <1>1, <1>2, <1>4, <2>1, <2>2 DEF LocalOK, SepcOK, IdxOK, KeepsFork, ForkAt, ForkPlaces, Exiting
<1> QED
  BY Zenon, <1>5, <1>6, <1>7, <1>8, <1>9

LEMMA LocalSwitch ==
    ASSUME CoreInv, FamilyInv, NEW p \in Slot,
           Sleep(p) \/ Yield(p) \/ \E c \in Cpu : SleepReturns(c, p) \/ TrapReturns(c, p)
    PROVE  LocalOK(p)
<1> USE DEF Set, Go
<1>1. TypeOK /\ SepcOK(p) /\ IdxOK(p) /\ (p = initproc => pc[p] \notin Exiting /\ sepc[p] # "exit")
  BY Zenon DEF CoreInv, FamilyInv, SepcInv, SepcOK, IdxInv, InitInv
<1>2. UNCHANGED <<child, idx, widx>>
  BY Zenon DEF Sleep, Yield, SleepReturns, TrapReturns, Scheduler, loopVars
<1>3. CASE Sleep(p)
  <2>1. UNCHANGED sepc /\ At(p, "sleep") /\ pc'[p] = "swtch"
    BY Zenon, <1>1, <1>3 DEF Sleep, TypeOK
  <2>2. sepc[p] = "user" /\ pc[p] = "sleep"
    BY Zenon, <1>1, <2>1, RunningAt DEF SepcOK, At
  <2> QED
    BY Zenon, <1>1, <1>2, <2>1, <2>2 DEF LocalOK, SepcOK, IdxOK, KeepsFork, ForkAt, ForkPlaces, Exiting
<1>4. CASE Yield(p)
  <2>1. /\ sepc'[p] = pc[p] /\ pc'[p] = "swtch" /\ cont'[p] = "sret" /\ state'[p] = "RUNNABLE"
        /\ TimerTrap(p)
    BY Zenon, <1>1, <1>4 DEF Yield, TypeOK
  <2>2. PICK c \in Cpu : run[c] = p /\ MyCpu(p) = c
    BY Zenon, <2>1, AtCpu DEF CoreInv, TimerTrap
  <2>3. noff[c] = 0
    <3>1. noff \in [Cpu -> 0 .. 1]
      BY Zenon, <1>1 DEF TypeOK
    <3>2. intr[c] = 1
      BY Zenon, <2>1, <2>2 DEF TimerTrap
    <3>3. noff[c] = 1 => intr[c] = 0
      BY Zenon DEF CoreInv, CpuInv, CpuOK
    <3> QED
      BY <3>1, <3>2, <3>3
  <2>4. pc[p] \notin Locked
    <3>1. run[c] # None
      BY Zenon, <2>2, Slots
    <3>2. pc[run[c]] \in Locked \cup {"swtch"} => noff[c] = 1
      BY Zenon, <3>1 DEF CoreInv, CpuInv, CpuOK
    <3>3. 0 # 1
      OBVIOUS
    <3> QED
      BY Zenon, <2>2, <2>3, <3>2, <3>3
  <2> QED
    BY Zenon, <1>1, <1>2, <2>1, <2>4 DEF LocalOK, SepcOK, IdxOK, KeepsFork, ForkAt, ForkPlaces, Exiting, Locked
<1>5. ASSUME NEW c \in Cpu, SleepReturns(c, p) \/ TrapReturns(c, p) PROVE LocalOK(p)
  <2>1. run[c] = None /\ state[p] = "RUNNABLE" /\ Free(p)
    BY Zenon, <1>5 DEF SleepReturns, TrapReturns, Scheduler
  <2>2. \A d \in Cpu : run[d] # p
    BY Zenon, <2>1, CpuAssumption, Slots DEF CoreInv, StackInv, Free
  <2>3. pc[p] = "resume"
    BY Zenon, <2>2 DEF CoreInv, RunInv
  <2>4. idx[p] = 1 /\ widx[p] = 1
    BY Zenon, <1>1, <2>3 DEF IdxOK
  <2>5. CASE SleepReturns(c, p)
    <3>1. cont[p] = "wait" /\ pc'[p] = "wait" /\ sepc' = sepc
      BY Zenon, <1>1, <2>5 DEF SleepReturns, Scheduler, SwtchReturns, TypeOK
    <3>2. sepc[p] = "user"
      BY Zenon, <1>1, <3>1 DEF SepcOK
    <3> QED
      BY Zenon, <1>1, <1>2, <2>4, <3>1, <3>2 DEF LocalOK, SepcOK, IdxOK, KeepsFork, ForkAt, ForkPlaces, Exiting
  <2>6. CASE TrapReturns(c, p)
    <3>1. pc'[p] = sepc[p] /\ sepc'[p] = "user" /\ sepc[p] \in Unlocked
      BY Zenon, <1>1, <2>6 DEF TrapReturns, TypeOK
    <3> QED
      BY Zenon, <1>1, <1>2, <2>4, <3>1 DEF LocalOK, SepcOK, IdxOK, KeepsFork, ForkAt, ForkPlaces, Exiting, Unlocked, Acquire
  <2> QED
    BY Zenon, <1>5, <2>5, <2>6
<1> QED
  BY Zenon, <1>3, <1>4, <1>5

LEMMA LocalStep ==
    ASSUME CoreInv, FamilyInv, NEW p \in Slot, ThreadStep(p)
    PROVE  LocalOK(p)
BY Zenon, LocalMove, LocalLoop, LocalSwitch DEF ThreadStep, KernelStep

-----------------------------------------------------------------------------
LEMMA SepcStep ==
    ASSUME CoreInv, FamilyInv, NEW p \in Slot, ThreadStep(p)
    PROVE  SepcInv'
<1>1. LocalOK(p) /\ Only(p) /\ TypeOK /\ SepcInv
  BY Zenon, LocalStep, OnlyOne DEF FamilyInv, CoreInv
<1>2. \A q \in Slot \ {p} : state[q] = "RUNNABLE" => state'[q] = "RUNNABLE"
  <2>1. CASE Quiet(p)
    BY Zenon, <2>1 DEF Quiet
  <2>2. CASE Dies(p)
    BY Zenon, <1>1, <2>2 DEF Dies, TypeOK
  <2>3. ASSUME NEW n \in Slot, Allocates(p, n) \/ Links(p, n) \/ Starts(p, n) \/ HandsOver(p, n) \/ Reaps(p, n)
        PROVE  \A q \in Slot \ {p} : state[q] = "RUNNABLE" => state'[q] = "RUNNABLE"
    BY Zenon, <1>1, <2>3 DEF TypeOK, Allocates, Links, Starts, HandsOver, Reaps
  <2> QED
    BY Zenon, <2>1, <2>2, <2>3, TableCases DEF FamilyInv
<1>3. ASSUME NEW q \in Slot \ {p}, sepc'[q] # "user" PROVE cont'[q] = "sret" /\ state'[q] = "RUNNABLE"
  BY Zenon, <1>1, <1>2, <1>3 DEF Only, SepcInv
<1> QED
  BY Zenon, <1>1, <1>3 DEF LocalOK, SepcOK, SepcInv

LEMMA ForkStep ==
    ASSUME CoreInv, FamilyInv, NEW p \in Slot, ThreadStep(p)
    PROVE  ForkInv'
<1>1. LocalOK(p) /\ Only(p) /\ TypeOK /\ ForkInv /\ ChildInv
  BY Zenon, LocalStep, OnlyOne DEF FamilyInv, CoreInv
<1>2. \A m \in Slot : state[m] = "USED" /\ parent[m] # None => parent'[m] # None
  <2>1. CASE Quiet(p) \/ Dies(p)
    BY Zenon, <2>1 DEF Quiet, Dies
  <2>2. ASSUME NEW n \in Slot, Allocates(p, n) \/ Links(p, n) \/ Starts(p, n) \/ HandsOver(p, n) \/ Reaps(p, n)
        PROVE  \A m \in Slot : state[m] = "USED" /\ parent[m] # None => parent'[m] # None
    BY <1>1, <2>2, Slots DEF TypeOK, Allocates, Links, Starts, HandsOver, Reaps
  <2> QED
    BY Zenon, <2>1, <2>2, TableCases DEF FamilyInv
<1>3. \A q \in Slot : child[q] # None => child[q] \in Slot /\ state[child[q]] = "USED"
  BY Zenon, <1>1 DEF TypeOK, ChildInv
<1>4. ASSUME NEW q \in Slot, \A l \in ForkPlaces : ForkAt(q, l)' => ForkAt(q, l) /\ child'[q] = child[q]
      PROVE  /\ ForkAt(q, "fork_parent")' => child'[q] # None
             /\ ForkAt(q, "fork_run")' => child'[q] # None /\ parent'[child'[q]] # None
  <2>1. "fork_parent" \in ForkPlaces /\ "fork_run" \in ForkPlaces
    BY Zenon DEF ForkPlaces
  <2> QED
    BY Zenon, <1>1, <1>2, <1>3, <1>4, <2>1 DEF ForkInv
<1>5. ASSUME NEW q \in Slot \ {p}
      PROVE  /\ ForkAt(q, "fork_parent")' => child'[q] # None
             /\ ForkAt(q, "fork_run")' => child'[q] # None /\ parent'[child'[q]] # None
  <2>1. \A l \in ForkPlaces : ForkAt(q, l)' => ForkAt(q, l) /\ child'[q] = child[q]
    BY Zenon, <1>1 DEF Only, ForkAt
  <2> QED
    BY Zenon, <1>4, <2>1
<1>6. /\ ForkAt(p, "fork_parent")' => child'[p] # None
      /\ ForkAt(p, "fork_run")' => child'[p] # None /\ parent'[child'[p]] # None
  <2>1. CASE KeepsFork(p)
    BY Zenon, <1>4, <2>1 DEF KeepsFork
  <2>2. CASE ForkParent(p)
    <3>1. /\ child' = child /\ child[p] # None /\ sepc' = sepc /\ parent' = [parent EXCEPT ![child[p]] = p]
          /\ pc'[p] = "fork_run" /\ At(p, "fork_parent")
      BY Zenon, <1>1, <2>2 DEF ForkParent, AcquireAt, At, codeVars, ForkInv, ForkAt, Set, Go, TypeOK
    <3> QED
      BY Zenon, <1>1, <1>3, <3>1, Slots DEF TypeOK
  <2>3. ASSUME NEW n \in Slot, Fork(p, n)
        PROVE  /\ ForkAt(p, "fork_parent")' => child'[p] # None
               /\ ForkAt(p, "fork_run")' => child'[p] # None /\ parent'[child'[p]] # None
    <3>1. /\ child'[p] = n /\ sepc' = sepc /\ At(p, "user") /\ state[n] = "UNUSED"
          /\ pc' = [pc EXCEPT ![p] = "fork_parent", ![n] = "resume"]
      BY Zenon, <1>1, <2>3 DEF Fork, Syscall, Allocproc, Set, TypeOK
    <3>2. state[p] = "RUNNING"
      BY Zenon, <3>1, RunningAt
    <3>3. sepc[p] = "user"
      BY Zenon, <3>2 DEF FamilyInv, SepcInv
    <3>4. pc'[p] = "fork_parent"
      BY Zenon, <1>1, <3>1, <3>2 DEF TypeOK
    <3> QED
      BY Zenon, <3>1, <3>3, <3>4, Slots DEF ForkAt
  <2> QED
    BY Zenon, <1>1, <2>1, <2>2, <2>3 DEF LocalOK
<1> QED
  BY Zenon, <1>5, <1>6 DEF ForkInv

(* Nobody becomes the child of a thread that is in exit().                 *)
LEMMA NoNewChildren ==
    ASSUME CoreInv, FamilyInv, NEW p \in Slot, ThreadStep(p), NEW q \in Slot, NEW r \in Slot,
           parent'[q] = r, r # initproc, r # p
    PROVE  parent[q] = r
<1>1. TypeOK
  BY Zenon DEF CoreInv
<1>2. CASE Quiet(p) \/ Dies(p)
  BY Zenon, <1>2 DEF Quiet, Dies
<1>3. ASSUME NEW n \in Slot, Allocates(p, n) \/ Links(p, n) \/ Starts(p, n) \/ HandsOver(p, n) \/ Reaps(p, n)
      PROVE  parent[q] = r
  BY Zenon, <1>1, <1>3, Slots DEF TypeOK, Allocates, Links, Starts, HandsOver, Reaps
<1> QED
  BY Zenon, <1>2, <1>3, TableCases DEF FamilyInv

(* A thread that is past reparent() has no children.                       *)
ExitOK(p) ==
    \A q \in Slot : parent[q] = p =>
        /\ pc[p] = "reparent" \/ (pc[p] = "wakeup" /\ cont[p] = "reparent") => idx[p] <= q
        /\ ~(pc[p] = "wakeup" /\ cont[p] = "zombie") /\ pc[p] # "zombie"

LEMMA ExitLocal ==
    ASSUME CoreInv, FamilyInv, NEW p \in Slot, ThreadStep(p)
    PROVE  ExitOK(p)'
<1> USE DEF Set, Go
<1>1. TypeOK /\ ExitOK(p) /\ IdxOK(p) /\ ThreadOK(p)
  BY Zenon DEF CoreInv, FamilyInv, ExitInv, ExitOK, IdxInv, ThreadInv
<1>2. pc[p] \in Exiting => p # initproc
  BY Zenon DEF FamilyInv, InitInv
<1>3. CASE pc'[p] \notin {"reparent", "wakeup", "zombie"}
  BY Zenon, <1>3 DEF ExitOK
<1>4. CASE ExitLock(p)
  <2>1. pc[p] = "exit" /\ pc'[p] = "reparent" /\ idx' = idx
    BY Zenon, <1>1, <1>4 DEF ExitLock, AcquireAt, At, loopVars, TypeOK
  <2>2. idx'[p] = 1
    BY Zenon, <1>1, <2>1 DEF IdxOK
  <2> QED
    BY <2>1, <2>2 DEF ExitOK, Slot
<1>5. CASE Reparent(p)
  <2>1. /\ pc[p] = "reparent" /\ idx[p] \in 1 .. NPROC /\ idx'[p] = idx[p] + 1
        /\ pc'[p] = "reparent" \/ (pc'[p] = "wakeup" /\ cont'[p] = "reparent")
    BY <1>1, <1>5, NPROCAssumption DEF Reparent, CallWakeup, At, TypeOK
  <2>2. p # initproc
    BY Zenon, <1>2, <2>1 DEF Exiting
  <2>3. \A q \in Slot : parent'[q] = p => parent[q] = p /\ q # idx[p]
    <3>1. (parent[idx[p]] # p /\ parent' = parent) \/ parent' = [parent EXCEPT ![idx[p]] = initproc]
      BY Zenon, <1>5 DEF Reparent
    <3> QED
      BY Zenon, <1>1, <2>1, <2>2, <3>1 DEF TypeOK, Slot
  <2>4. ASSUME NEW q \in Slot, parent'[q] = p PROVE idx[p] + 1 <= q
    BY <1>1, <2>1, <2>3, <2>4 DEF ExitOK, Slot
  <2> QED
    BY Zenon, <2>1, <2>4 DEF ExitOK
<1>6. CASE WakeParent(p)
  <2>1. pc[p] = "reparent" /\ idx[p] = NPROC + 1 /\ parent' = parent
    BY Zenon, <1>6 DEF WakeParent, At, procVars
  <2>2. \A q \in Slot : parent[q] # p
    BY <1>1, <2>1, NPROCAssumption DEF ExitOK, Slot
  <2> QED
    BY Zenon, <2>1, <2>2 DEF ExitOK
<1>7. CASE Wakeup(p)
  BY Zenon, <1>1, <1>7 DEF Wakeup, codeVars, ExitOK
<1>8. CASE WakeupDone(p)
  <2>1. pc[p] = "wakeup" /\ pc'[p] = cont[p] /\ parent' = parent /\ idx' = idx
    BY Zenon, <1>1, <1>8 DEF WakeupDone, At, procVars, TypeOK
  <2>2. cont[p] \in {"reparent", "zombie"}
    BY Zenon, <1>1, <2>1 DEF ThreadOK
  <2> QED
    BY Zenon, <1>1, <2>1, <2>2 DEF ExitOK
<1>9. CASE PushOff(p) \/ \E n \in Slot : Kill(p, n)
  BY Zenon, <1>3, <1>9 DEF PushOff, Kill, Syscall, Acquire, At
<1>10. CASE \/ Exit(p) \/ Wait(p) \/ WaitLock(p) \/ ForkParent(p) \/ ForkRun(p) \/ Zombie(p) \/ Sched(p)
            \/ WaitSleeps(p) \/ Reap(p) \/ ReapFails(p) \/ WaitFails(p) \/ Sleep(p) \/ Yield(p)
            \/ \E c \in Cpu : SleepReturns(c, p)
  <2>1. \E l \in {"exit", "wait", "scan", "fork_run", "user", "swtch", "resume", "sleep"} : pc' = [pc EXCEPT ![p] = l]
    BY Zenon, <1>10 DEF Exit, Wait, WaitLock, ForkParent, ForkRun, Zombie, Sched, WaitSleeps, Reap, ReapFails, WaitFails, WaitReturn,
         Sleep, Yield, SleepReturns
  <2> QED
    BY Zenon, <1>1, <1>3, <2>1 DEF TypeOK
<1>11. ASSUME NEW n \in Slot, Fork(p, n) PROVE ExitOK(p)'
  BY Zenon, <1>1, <1>3, <1>11 DEF Fork, TypeOK
<1>12. ASSUME NEW c \in Cpu, TrapReturns(c, p) PROVE ExitOK(p)'
  BY Zenon, <1>1, <1>3, <1>12 DEF TrapReturns, TypeOK, Unlocked, Acquire
<1>13. CASE Scan(p)
  BY Zenon, <1>3, <1>13 DEF Scan, At
<1> QED
  BY Zenon, <1>4, <1>5, <1>6, <1>7, <1>8, <1>9, <1>10, <1>11, <1>12, <1>13 DEF ThreadStep, KernelStep

LEMMA InitStep ==
    ASSUME CoreInv, FamilyInv, NEW p \in Slot, ThreadStep(p)
    PROVE  InitInv'
<1>1. Only(p) /\ LocalOK(p) /\ initproc \in Slot /\ InitInv
  BY Zenon, OnlyOne, LocalStep, Slots DEF FamilyInv
<1>2. pc'[initproc] \notin Exiting /\ sepc'[initproc] # "exit"
  <2>1. CASE p = initproc
    BY Zenon, <1>1, <2>1 DEF LocalOK
  <2>2. CASE p # initproc
    BY Zenon, <1>1, <2>2 DEF Only, InitInv
  <2> QED
    BY Zenon, <2>1, <2>2
<1> QED
  BY Zenon, <1>2, ParentsStep DEF InitInv

LEMMA ExitStep ==
    ASSUME CoreInv, FamilyInv, NEW p \in Slot, ThreadStep(p)
    PROVE  ExitInv'
<1>1. Only(p) /\ ExitInv /\ pc'[initproc] \notin Exiting
  BY Zenon, OnlyOne, InitStep DEF FamilyInv, InitInv
<1>2. ASSUME NEW r \in Slot \ {p} PROVE ExitOK(r)'
  <2>1. CASE pc'[r] \notin {"reparent", "wakeup", "zombie"}
    BY Zenon, <2>1 DEF ExitOK
  <2>2. CASE pc'[r] \in {"reparent", "wakeup", "zombie"}
    <3>1. pc'[r] = pc[r] /\ cont'[r] = cont[r] /\ idx'[r] = idx[r]
      BY Zenon, <1>1, <2>2 DEF Only
    <3>2. r # initproc
      BY Zenon, <1>1, <2>2 DEF Exiting
    <3>3. \A q \in Slot : parent'[q] = r => parent[q] = r
      BY Zenon, <3>2, NoNewChildren
    <3> QED
      BY Zenon, <1>1, <3>1, <3>3 DEF ExitOK, ExitInv
  <2> QED
    BY Zenon, <2>1, <2>2
<1> QED
  BY Zenon, <1>2, ExitLocal DEF ExitOK, ExitInv

LEMMA FamilyStep ==
    ASSUME CoreInv, FamilyInv, [Next]_vars
    PROVE  FamilyInv'
<1>1. ASSUME NEW p \in Slot, ThreadStep(p) PROVE FamilyInv'
  <2>1. IdxInv'
    <3>1. Only(p) /\ LocalOK(p) /\ IdxInv
      BY Zenon, <1>1, OnlyOne, LocalStep DEF FamilyInv
    <3>2. ASSUME NEW q \in Slot \ {p} PROVE IdxOK(q)'
      BY Zenon, <3>1 DEF Only, IdxInv, IdxOK
    <3> QED
      BY Zenon, <3>1, <3>2 DEF IdxInv, LocalOK
  <2> QED
    BY Zenon, <1>1, <2>1, InitStep, SepcStep, ForkStep, ExitStep, ParentsStep DEF FamilyInv
<1>2. CASE UNCHANGED <<procVars, pc, codeVars, loopVars, child>>
  BY Zenon, <1>2 DEF procVars, codeVars, loopVars, FamilyInv, InitInv, SepcInv, ForkInv, ForkAt, IdxInv, IdxOK, ExitInv,
       ParentsLive
<1>3. ASSUME NEW c \in Cpu, SchedulerRelease(c) PROVE FamilyInv'
  BY Zenon, <1>2, <1>3 DEF SchedulerRelease
<1>4. CASE UNCHANGED vars
  BY Zenon, <1>2, <1>4 DEF vars
<1> QED
  BY Zenon, <1>1, <1>3, <1>4 DEF Next, ThreadStep

-----------------------------------------------------------------------------
(* A process sleeps on itself, in wait().                                  *)
SleepInv == \A p \in Slot : state[p] = "SLEEPING" => chan[p] = p

(* Thread r is in wakeup(p) and has not come to the slot of p.             *)
Waking(r, p) == pc[r] = "wakeup" /\ wchan[r] = p /\ widx[r] <= p

(* A sleeper with a dead child is about to be woken; wait() has not missed *)
(* a dead child in the slots it has seen; and a process that dies while    *)
(* its parent sleeps is on its way to wake it.                             *)
WakeInv ==
    \A p, q \in Slot : parent[q] = p /\ state[q] = "ZOMBIE" /\ state[p] = "SLEEPING" => \E r \in Slot : Waking(r, p)
ScanInv ==
    \A p, q \in Slot : parent[q] = p /\ state[q] = "ZOMBIE" => pc[p] # "sleep" /\ (pc[p] = "scan" => idx[p] <= q)
DyingInv ==
    \A p, q \in Slot : parent[q] = p /\ state[p] = "SLEEPING" =>
        pc[q] # "zombie" /\ (pc[q] = "wakeup" /\ cont[q] = "zombie" => Waking(q, p))
WakeupInv == SleepInv /\ WakeInv /\ ScanInv /\ DyingInv

(* wait_lock is held by one thread.                                        *)
LEMMA OneLocked ==
    ASSUME CoreInv, NEW p \in Slot, NEW q \in Slot, pc[p] \in Locked, pc[q] \in Locked
    PROVE  p = q
<1>1. PICK c \in Cpu : run[c] = p
  BY Zenon DEF CoreInv, RunInv, Locked
<1>2. PICK d \in Cpu : run[d] = q
  BY Zenon DEF CoreInv, RunInv, Locked
<1>3. waitlock = c /\ waitlock = d
  BY Zenon, <1>1, <1>2, Slots DEF CoreInv, WaitInv
<1> QED
  BY Zenon, <1>1, <1>2, <1>3

(* How thread p gets to the places that matter for a wakeup.               *)
LEMMA Places ==
    ASSUME CoreInv, NEW p \in Slot, ThreadStep(p)
    PROVE  /\ pc[p] = "wakeup" => Wakeup(p) \/ WakeupDone(p)
           /\ pc'[p] \in {"scan", "sleep"} => Scan(p) \/ WaitSleeps(p) \/ WaitLock(p)
           /\ pc'[p] = "zombie" => WakeupDone(p)
           /\ pc'[p] = "wakeup" => Reparent(p) \/ WakeParent(p) \/ Wakeup(p)
<1> USE DEF Set, Go
<1>1. TypeOK /\ ThreadOK(p)
  BY Zenon DEF CoreInv, ThreadInv
<1> DEFINE Off == pc'[p] \notin {"scan", "sleep", "zombie", "wakeup"}
<1>2. ASSUME NEW l, pc' = [pc EXCEPT ![p] = l] PROVE pc'[p] = l
  BY Zenon, <1>1, <1>2 DEF TypeOK
<1>3. CASE PushOff(p) \/ (\E n \in Slot : Kill(p, n))
  <2>1. pc[p] # "wakeup" /\ pc' = pc /\ pc[p] \in {"user"} \cup Acquire
    BY Zenon, <1>3 DEF PushOff, Kill, Syscall, At, Acquire
  <2> QED
    BY Zenon, <2>1 DEF Acquire
<1>4. CASE \/ Exit(p) \/ Wait(p) \/ ForkParent(p) \/ ForkRun(p) \/ ExitLock(p) \/ Zombie(p) \/ Sched(p) \/ Sleep(p)
           \/ Reap(p) \/ ReapFails(p) \/ WaitFails(p)
  <2>1. /\ pc[p] # "wakeup"
        /\ \E l \in {"exit", "wait", "fork_run", "user", "reparent", "swtch", "resume"} : pc' = [pc EXCEPT ![p] = l]
    BY Zenon, <1>4 DEF Exit, Wait, Syscall, ForkParent, ForkRun, ExitLock, AcquireAt, Zombie, Sched, Sleep, Reap, ReapFails,
         WaitFails, FoundZombie, WaitReturn, At
  <2> QED
    BY Zenon, <1>2, <2>1
<1>5. CASE Yield(p)
  <2>1. PICK l \in PC : At(p, l) /\ intr[MyCpu(p)] = 1
    BY Zenon, <1>5 DEF Yield, TimerTrap
  <2>2. PICK c \in Cpu : run[c] = p /\ MyCpu(p) = c
    BY Zenon, <2>1, AtCpu DEF CoreInv
  <2>3. pc[p] # "wakeup"
    <3>1. run[c] # None /\ 1 # 0
      BY <2>2, Slots
    <3>2. pc[run[c]] = "wakeup" => noff[c] = 1
      BY Zenon, <3>1 DEF CoreInv, CpuInv, CpuOK, Locked
    <3>3. noff[c] = 1 => intr[c] = 0
      BY Zenon DEF CoreInv, CpuInv, CpuOK
    <3> QED
      BY Zenon, <2>1, <2>2, <3>1, <3>2, <3>3
  <2>4. pc'[p] = "swtch"
    BY Zenon, <1>2, <1>5 DEF Yield
  <2> QED
    BY Zenon, <2>3, <2>4
<1>6. ASSUME NEW c \in Cpu, SleepReturns(c, p) \/ TrapReturns(c, p) PROVE Off /\ pc[p] # "wakeup"
  <2>1. state[p] = "RUNNABLE" /\ (pc' = [pc EXCEPT ![p] = "wait"] \/ pc' = [pc EXCEPT ![p] = sepc[p]])
    BY Zenon, <1>6 DEF SleepReturns, TrapReturns, Scheduler
  <2>2. pc'[p] \in Unlocked
    BY Zenon, <1>1, <2>1 DEF TypeOK, Unlocked, Acquire
  <2>3. pc[p] # "wakeup"
    <3>1. SUFFICES ASSUME pc[p] = "wakeup" PROVE FALSE
      BY Zenon
    <3>2. PICK d \in Cpu : run[d] = p
      BY Zenon, <3>1 DEF CoreInv, RunInv
    <3> QED
      BY Zenon, <2>1, <3>1, <3>2, Slots DEF CoreInv, StackInv
  <2> QED
    BY Zenon, <2>2, <2>3 DEF Unlocked, Acquire
<1>7. ASSUME NEW n \in Slot, Fork(p, n) PROVE Off /\ pc[p] # "wakeup"
  <2>1. pc' = [pc EXCEPT ![p] = "fork_parent", ![n] = "resume"] /\ pc[p] = "user"
    BY Zenon, <1>7 DEF Fork, Syscall, At
  <2> QED
    BY Zenon, <1>1, <2>1 DEF TypeOK
<1>8. CASE Scan(p) \/ WaitSleeps(p) \/ WaitLock(p)
  <2>1. pc[p] \in {"scan", "wait"} /\ \E l \in {"scan", "sleep"} : pc' = [pc EXCEPT ![p] = l]
    BY <1>1, <1>8 DEF Scan, WaitSleeps, WaitLock, AcquireAt, At, TypeOK
  <2> QED
    BY Zenon, <1>2, <1>8, <2>1
<1>9. CASE Reparent(p) \/ WakeParent(p)
  <2>1. pc[p] = "reparent" /\ \E l \in {"reparent", "wakeup"} : pc' = [pc EXCEPT ![p] = l]
    BY <1>1, <1>9 DEF Reparent, WakeParent, CallWakeup, At, TypeOK
  <2> QED
    BY Zenon, <1>2, <1>9, <2>1
<1>10. CASE Wakeup(p)
  BY Zenon, <1>10 DEF Wakeup, At
<1>11. CASE WakeupDone(p)
  <2>1. pc'[p] = cont[p] /\ pc[p] = "wakeup"
    BY Zenon, <1>2, <1>11 DEF WakeupDone, At
  <2> QED
    BY Zenon, <1>1, <1>11, <2>1 DEF ThreadOK
<1> QED
  BY Zenon, <1>3, <1>4, <1>5, <1>6, <1>7, <1>8, <1>9, <1>10, <1>11 DEF ThreadStep, KernelStep

(* Who becomes a dead child, and who falls asleep.                         *)
LEMMA ZombieStep ==
    ASSUME CoreInv, FamilyInv, NEW t \in Slot, ThreadStep(t), NEW p \in Slot, NEW q \in Slot,
           parent'[q] = p, state'[q] = "ZOMBIE"
    PROVE  \/ parent[q] = p /\ state[q] = "ZOMBIE"
           \/ Dies(t) /\ q = t /\ parent[q] = p
           \/ HandsOver(t, q) /\ p = initproc
<1>1. TypeOK
  BY Zenon DEF CoreInv
<1>2. CASE Quiet(t)
  BY Zenon, <1>2 DEF Quiet, Dead
<1>3. CASE Dies(t)
  BY Zenon, <1>1, <1>3 DEF Dies, TypeOK
<1>4. ASSUME NEW n \in Slot, Allocates(t, n) \/ Links(t, n) \/ Starts(t, n) \/ Reaps(t, n)
      PROVE  parent[q] = p /\ state[q] = "ZOMBIE"
  BY Zenon, <1>1, <1>4 DEF TypeOK, Allocates, Links, Starts, Reaps
<1>5. ASSUME NEW n \in Slot, HandsOver(t, n)
      PROVE  (parent[q] = p /\ state[q] = "ZOMBIE") \/ (HandsOver(t, q) /\ p = initproc)
  <2>1. state' = state /\ \A m \in Slot : parent'[m] = IF m = n THEN initproc ELSE parent[m]
    BY Zenon, <1>1, <1>5 DEF TypeOK, HandsOver
  <2>2. CASE q = n
    BY Zenon, <1>5, <2>1, <2>2
  <2>3. CASE q # n
    BY Zenon, <2>1, <2>3
  <2> QED
    BY Zenon, <2>2, <2>3
<1> QED
  BY Zenon, <1>2, <1>3, <1>4, <1>5, TableCases DEF FamilyInv

LEMMA SleeperStep ==
    ASSUME CoreInv, NEW t \in Slot, ThreadStep(t), NEW p \in Slot, state'[p] = "SLEEPING"
    PROVE  (state[p] = "SLEEPING" /\ chan'[p] = chan[p]) \/ (p = t /\ Sleep(t))
<1> USE DEF Set
<1>1. TypeOK
  BY Zenon DEF CoreInv
<1>2. CASE Sleep(t)
  BY Zenon, <1>1, <1>2 DEF Sleep, TypeOK
<1>3. CASE UNCHANGED <<state, chan>>
  BY Zenon, <1>3
<1>4. ASSUME NEW n, NEW v, v # "SLEEPING", state' = [state EXCEPT ![n] = v], chan' = chan \/ \E x : chan' = [chan EXCEPT ![n] = x]
      PROVE  state[p] = "SLEEPING" /\ chan'[p] = chan[p]
  BY Zenon, <1>1, <1>4 DEF TypeOK
<1>5. CASE ForkRun(t) \/ Zombie(t) \/ Yield(t) \/ Reap(t) \/ \E n \in Slot : Fork(t, n)
  <2>1. \E n : \E v \in {"RUNNABLE", "ZOMBIE", "UNUSED", "USED"} :
            state' = [state EXCEPT ![n] = v] /\ (chan' = chan \/ \E x : chan' = [chan EXCEPT ![n] = x])
    BY Zenon, <1>5 DEF ForkRun, Zombie, Yield, Reap, Freeproc, Fork, Allocproc
  <2> QED
    BY Zenon, <1>4, <2>1
<1>6. ASSUME NEW c \in Cpu, SleepReturns(c, t) \/ TrapReturns(c, t) PROVE state[p] = "SLEEPING" /\ chan'[p] = chan[p]
  <2>1. state' = [state EXCEPT ![t] = "RUNNING"] /\ (chan' = chan \/ \E x : chan' = [chan EXCEPT ![t] = x])
    BY Zenon, <1>6 DEF SleepReturns, TrapReturns, Scheduler
  <2> QED
    BY Zenon, <1>1, <2>1 DEF TypeOK
<1>7. ASSUME NEW n \in Slot, Kill(t, n) PROVE state[p] = "SLEEPING" /\ chan'[p] = chan[p]
  BY Zenon, <1>1, <1>7 DEF Kill, TypeOK
<1>8. CASE Wakeup(t)
  <2> DEFINE e == widx[t] # t /\ chan[widx[t]] = wchan[t]
  <2>1. chan' = chan /\ state' = [state EXCEPT ![widx[t]] = IF e /\ @ = "SLEEPING" THEN "RUNNABLE" ELSE @]
    BY Zenon, <1>8 DEF Wakeup
  <2> QED
    BY Zenon, <1>1, <2>1 DEF TypeOK
<1>9. CASE PushOff(t) \/ Sched(t) \/ Exit(t) \/ Wait(t) \/ ExitLock(t) \/ WakeParent(t) \/ WakeupDone(t) \/ WaitLock(t)
            \/ Scan(t) \/ ReapFails(t) \/ WaitFails(t) \/ WaitSleeps(t) \/ ForkParent(t) \/ Reparent(t)
  BY Zenon, <1>3, <1>9 DEF PushOff, Sched, Exit, Wait, ExitLock, WakeParent, WakeupDone, WaitLock, Scan, ReapFails,
       WaitFails, WaitSleeps, ForkParent, Reparent, procVars
<1> QED
  BY Zenon, <1>2, <1>5, <1>6, <1>7, <1>8, <1>9 DEF ThreadStep, KernelStep

(* wakeup(p) is not over while p sleeps.                                   *)
LEMMA WakingStep ==
    ASSUME CoreInv, FamilyInv, SleepInv, NEW t \in Slot, ThreadStep(t), NEW r \in Slot, NEW p \in Slot,
           Waking(r, p), state[p] = "SLEEPING", state'[p] = "SLEEPING"
    PROVE  Waking(r, p)'
<1> USE DEF Set, Go
<1>1. TypeOK /\ Only(t)
  BY Zenon, OnlyOne DEF CoreInv, FamilyInv
<1>2. CASE r # t
  BY Zenon, <1>1, <1>2 DEF Only, Waking
<1>3. CASE r = t /\ Wakeup(t)
  <2>1. At(t, "wakeup") /\ pc' = pc /\ wchan' = wchan /\ widx'[t] = widx[t] + 1
    BY Zenon, <1>1, <1>3 DEF Wakeup, TypeOK
  <2>2. p # t
    BY Zenon, <2>1, RunningAt
  <2>3. chan[p] = p
    BY Zenon DEF SleepInv
  <2>4. widx[t] # p
    <3>1. SUFFICES ASSUME widx[t] = p PROVE FALSE
      BY Zenon
    <3>2. state' = [state EXCEPT ![p] = "RUNNABLE"]
      BY Zenon, <1>3, <2>2, <2>3, <3>1 DEF Wakeup, Waking
    <3> QED
      BY Zenon, <1>1, <3>2 DEF TypeOK
  <2> QED
    BY <1>1, <1>3, <2>1, <2>4, NPROCAssumption DEF Waking, TypeOK, Slot
<1>4. CASE r = t /\ WakeupDone(t)
  BY <1>4, NPROCAssumption DEF WakeupDone, Waking, Slot
<1> QED
  BY Zenon, <1>2, <1>3, <1>4, Places DEF Waking

LEMMA WakeStep ==
    ASSUME CoreInv, FamilyInv, WakeupInv, NEW t \in Slot, ThreadStep(t)
    PROVE  WakeInv'
<1>1. SUFFICES ASSUME NEW p \in Slot, NEW q \in Slot, parent'[q] = p, state'[q] = "ZOMBIE", state'[p] = "SLEEPING"
               PROVE  \E r \in Slot : Waking(r, p)'
  BY Zenon DEF WakeInv
<1>2. TypeOK /\ SleepInv /\ WakeInv /\ ScanInv /\ DyingInv /\ initproc \in Slot
  BY Zenon, Slots DEF CoreInv, WakeupInv
<1>3. CASE HandsOver(t, q) /\ p = initproc
  <2>1. pc[t] = "reparent" /\ pc'[t] = "wakeup" /\ wchan'[t] = initproc /\ widx' = widx
    BY Zenon, <1>2, <1>3 DEF HandsOver, TypeOK
  <2>2. IdxOK(t)
    BY Zenon DEF FamilyInv, IdxInv
  <2>3. widx'[t] = 1
    BY Zenon, <2>1, <2>2 DEF IdxOK
  <2>4. Waking(t, p)'
    BY <1>2, <1>3, <2>1, <2>3 DEF Waking, Slot
  <2> QED
    BY Zenon, <2>4
<1>4. CASE Dies(t) /\ q = t /\ parent[q] = p
  <2>1. state[p] = "SLEEPING"
    BY Zenon, <1>1, <1>2, <1>4 DEF Dies, TypeOK
  <2> QED
    BY Zenon, <1>2, <1>4, <2>1 DEF DyingInv, Dies
<1>5. CASE parent[q] = p /\ state[q] = "ZOMBIE"
  <2>1. CASE p = t /\ Sleep(t)
    BY Zenon, <1>2, <1>5, <2>1 DEF ScanInv, Sleep, At
  <2>2. CASE state[p] = "SLEEPING"
    <3>1. PICK r \in Slot : Waking(r, p)
      BY Zenon, <1>2, <1>5, <2>2 DEF WakeInv
    <3> QED
      BY Zenon, <1>1, <1>2, <2>2, <3>1, WakingStep
  <2> QED
    BY Zenon, <1>1, <2>1, <2>2, SleeperStep
<1>6. \/ parent[q] = p /\ state[q] = "ZOMBIE"
      \/ Dies(t) /\ q = t /\ parent[q] = p
      \/ HandsOver(t, q) /\ p = initproc
  BY Zenon, <1>1, ZombieStep
<1> QED
  BY Zenon, <1>3, <1>4, <1>5, <1>6

LEMMA ScanStep ==
    ASSUME CoreInv, FamilyInv, WakeupInv, NEW t \in Slot, ThreadStep(t)
    PROVE  ScanInv'
<1> USE DEF Set, Go
<1>1. SUFFICES ASSUME NEW p \in Slot, NEW q \in Slot, parent'[q] = p, state'[q] = "ZOMBIE", pc'[p] \in {"scan", "sleep"}
               PROVE  pc'[p] = "scan" /\ idx'[p] <= q
  BY Zenon DEF ScanInv
<1>2. TypeOK /\ ScanInv /\ Only(t) /\ IdxOK(t)
  BY Zenon, OnlyOne DEF CoreInv, WakeupInv, FamilyInv, IdxInv
<1>3. CASE p # t
  <2>1. pc[p] = pc'[p] /\ idx'[p] = idx[p]
    BY Zenon, <1>2, <1>3 DEF Only
  <2>2. ~Dies(t) /\ ~HandsOver(t, q)
    BY Zenon, <1>1, <1>3, <2>1, OneLocked DEF Dies, HandsOver, Locked
  <2> QED
    BY <1>1, <1>2, <2>1, <2>2, ZombieStep DEF ScanInv
<1>4. CASE p = t
  <2>1. Scan(t) \/ WaitSleeps(t) \/ WaitLock(t)
    BY Zenon, <1>1, <1>4, Places
  <2>2. parent' = parent /\ state' = state
    BY Zenon, <2>1 DEF Scan, WaitSleeps, WaitLock, procVars
  <2>3. CASE WaitLock(t)
    <3>1. pc[t] = "wait" /\ pc'[t] = "scan" /\ idx' = idx
      BY Zenon, <1>2, <2>3 DEF WaitLock, AcquireAt, At, loopVars, TypeOK
    <3>2. idx'[t] = 1
      BY Zenon, <1>2, <3>1 DEF IdxOK
    <3> QED
      BY <1>4, <3>1, <3>2 DEF Slot
  <2>4. CASE Scan(t) \/ WaitSleeps(t)
    <3>1. pc[t] = "scan" /\ idx[t] <= q
      BY Zenon, <1>1, <1>2, <1>4, <2>2, <2>4 DEF Scan, WaitSleeps, At, ScanInv
    <3>2. ~WaitSleeps(t)
      BY <3>1, NPROCAssumption DEF WaitSleeps, Slot
    <3>3. pc' = pc /\ idx'[t] = idx[t] + 1 /\ idx[t] # q
      BY Zenon, <1>1, <1>2, <1>4, <2>2, <2>4, <3>2 DEF Scan, TypeOK
    <3> QED
      BY <1>2, <1>4, <3>1, <3>3, NPROCAssumption DEF TypeOK, Slot
  <2> QED
    BY Zenon, <2>1, <2>3, <2>4
<1> QED
  BY Zenon, <1>3, <1>4

LEMMA DyingStep ==
    ASSUME CoreInv, FamilyInv, WakeupInv, NEW t \in Slot, ThreadStep(t)
    PROVE  DyingInv'
<1> USE DEF Set, Go
<1>1. SUFFICES ASSUME NEW p \in Slot, NEW q \in Slot, parent'[q] = p, state'[p] = "SLEEPING",
                      pc'[q] = "zombie" \/ (pc'[q] = "wakeup" /\ cont'[q] = "zombie")
               PROVE  pc'[q] # "zombie" /\ Waking(q, p)'
  BY Zenon DEF DyingInv
<1>2. TypeOK /\ SleepInv /\ DyingInv /\ Only(t) /\ IdxOK(t) /\ ThreadOK(t)
  BY Zenon, OnlyOne DEF CoreInv, WakeupInv, FamilyInv, IdxInv, ThreadInv
<1>3. q # t => pc'[q] = pc[q] /\ cont'[q] = cont[q]
  BY Zenon, <1>1, <1>2 DEF Only
<1>4. ASSUME pc[t] \in Locked PROVE q = t
  BY Zenon, <1>1, <1>3, <1>4, OneLocked DEF Locked
<1>5. ~(p = t /\ Sleep(t))
  <2>1. SUFFICES ASSUME Sleep(t) PROVE FALSE
    BY Zenon
  <2>2. pc[t] = "sleep" /\ pc'[t] = "swtch"
    BY Zenon, <1>2, <2>1 DEF Sleep, At, TypeOK
  <2> QED
    BY Zenon, <1>1, <1>4, <2>2 DEF Locked
<1>6. state[p] = "SLEEPING"
  BY Zenon, <1>1, <1>5, SleeperStep
<1>7. parent[q] = p
  <2>1. CASE Quiet(t) \/ Dies(t)
    BY Zenon, <1>1, <2>1 DEF Quiet, Dies
  <2>2. ASSUME NEW n \in Slot, Allocates(t, n) \/ Starts(t, n) \/ Reaps(t, n) PROVE parent[q] = p
    BY Zenon, <1>1, <1>2, <2>2, Slots DEF TypeOK, Allocates, Starts, Reaps
  <2>3. ASSUME NEW n \in Slot, Links(t, n) PROVE parent[q] = p
    BY Zenon, <1>1, <1>2, <1>6, <2>3 DEF TypeOK, Links
  <2>4. ASSUME NEW n \in Slot, HandsOver(t, n) PROVE FALSE
    BY Zenon, <1>1, <1>2, <1>4, <2>4 DEF TypeOK, HandsOver, Locked
  <2> QED
    BY Zenon, <2>1, <2>2, <2>3, <2>4, TableCases DEF FamilyInv
<1>8. pc[q] # "zombie" /\ (pc[q] = "wakeup" /\ cont[q] = "zombie" => Waking(q, p)')
  BY Zenon, <1>1, <1>2, <1>6, <1>7, WakingStep DEF DyingInv
<1>9. CASE q # t
  BY Zenon, <1>1, <1>3, <1>8, <1>9
<1>10. CASE q = t /\ WakeupDone(t)
  <2>1. pc[t] = "wakeup" /\ pc'[t] = cont[t] /\ widx[t] = NPROC + 1
    BY Zenon, <1>2, <1>10 DEF WakeupDone, At, TypeOK
  <2>2. cont[t] = "zombie"
    BY Zenon, <1>1, <1>2, <1>10, <2>1 DEF ThreadOK
  <2>3. Waking(t, p)
    BY Zenon, <1>2, <1>6, <1>7, <1>10, <2>1, <2>2 DEF DyingInv
  <2> QED
    BY <2>1, <2>3, NPROCAssumption DEF Waking, Slot
<1>11. CASE q = t /\ WakeParent(t)
  <2>1. pc[t] = "reparent" /\ pc'[t] = "wakeup" /\ wchan'[t] = parent[t] /\ widx' = widx
    BY Zenon, <1>2, <1>11 DEF WakeParent, CallWakeup, At, TypeOK
  <2>2. widx'[t] = 1
    BY Zenon, <1>2, <2>1 DEF IdxOK
  <2> QED
    BY <1>7, <1>11, <2>1, <2>2 DEF Waking, Slot
<1>12. CASE q = t /\ Wakeup(t)
  <2>1. pc' = pc /\ cont' = cont /\ pc[t] = "wakeup"
    BY Zenon, <1>12 DEF Wakeup, codeVars, At
  <2> QED
    BY Zenon, <1>1, <1>8, <1>12, <2>1
<1>13. CASE q = t /\ Reparent(t)
  <2>1. pc'[t] = "reparent" \/ (pc'[t] = "wakeup" /\ cont'[t] = "reparent")
    <3>1. /\ pc[t] = "reparent"
          /\ pc' = pc \/ (pc' = [pc EXCEPT ![t] = "wakeup"] /\ cont' = [cont EXCEPT ![t] = "reparent"])
      BY Zenon, <1>13 DEF Reparent, CallWakeup, At
    <3> QED
      BY Zenon, <1>2, <3>1 DEF TypeOK
  <2> QED
    BY Zenon, <1>1, <1>13, <2>1
<1> QED
  BY Zenon, <1>1, <1>9, <1>10, <1>11, <1>12, <1>13, Places

LEMMA WakeupStep ==
    ASSUME CoreInv, FamilyInv, WakeupInv, [Next]_vars
    PROVE  WakeupInv'
<1>1. ASSUME NEW t \in Slot, ThreadStep(t) PROVE WakeupInv'
  <2>1. SleepInv'
    <3>1. ASSUME NEW p \in Slot, state'[p] = "SLEEPING" PROVE chan'[p] = p
      <4>1. CASE state[p] = "SLEEPING" /\ chan'[p] = chan[p]
        BY Zenon, <4>1 DEF WakeupInv, SleepInv
      <4>2. CASE p = t /\ Sleep(t)
        BY Zenon, <4>2 DEF Sleep, Set, CoreInv, TypeOK
      <4> QED
        BY Zenon, <1>1, <3>1, <4>1, <4>2, SleeperStep
    <3> QED
      BY Zenon, <3>1 DEF SleepInv
  <2> QED
    BY Zenon, <1>1, <2>1, WakeStep, ScanStep, DyingStep DEF WakeupInv
<1>2. CASE UNCHANGED <<procVars, pc, codeVars, loopVars>>
  <2>1. SleepInv' /\ ScanInv'
    BY Zenon, <1>2 DEF procVars, codeVars, loopVars, WakeupInv, SleepInv, ScanInv
  <2>2. \A r, p \in Slot : Waking(r, p)' <=> Waking(r, p)
    BY Zenon, <1>2 DEF loopVars, Waking
  <2>3. WakeInv'
    BY Zenon, <1>2, <2>2 DEF procVars, WakeupInv, WakeInv
  <2>4. DyingInv'
    BY Zenon, <1>2, <2>2 DEF procVars, codeVars, WakeupInv, DyingInv
  <2> QED
    BY Zenon, <2>1, <2>3, <2>4 DEF WakeupInv
<1>3. ASSUME NEW c \in Cpu, SchedulerRelease(c) PROVE WakeupInv'
  BY Zenon, <1>2, <1>3 DEF SchedulerRelease
<1>4. CASE UNCHANGED vars
  BY Zenon, <1>2, <1>4 DEF vars
<1> QED
  BY Zenon, <1>1, <1>3, <1>4 DEF Next, ThreadStep

LEMMA InitFamily ==
    ASSUME Init
    PROVE  FamilyInv /\ WakeupInv
<1>1. \A p \in Slot : /\ parent[p] = None /\ pc[p] = "resume" /\ sepc[p] = "user" /\ idx[p] = 1 /\ widx[p] = 1
                     /\ state[p] = IF p = initproc THEN "RUNNABLE" ELSE "UNUSED"
  BY Zenon DEF Init
<1>2. InitInv /\ SepcInv /\ ForkInv
  BY Zenon, <1>1, Slots DEF InitInv, Dead, Exiting, SepcInv, ForkInv, ForkAt
<1>3. IdxInv /\ ExitInv
  BY Zenon, <1>1, Slots DEF IdxInv, IdxOK, ExitInv
<1>4. ParentsLive
  BY Zenon, <1>1, Slots DEF ParentsLive
<1>5. WakeupInv
  BY Zenon, <1>1, Slots DEF WakeupInv, SleepInv, WakeInv, ScanInv, DyingInv
<1> QED
  BY Zenon, <1>2, <1>3, <1>4, <1>5 DEF FamilyInv

LEMMA FamilyAlways == Spec => [](CoreInv /\ FamilyInv /\ WakeupInv)
<1>1. Init => CoreInv /\ FamilyInv /\ WakeupInv
  BY Zenon, InitCore, InitFamily
<1>2. CoreInv /\ FamilyInv /\ WakeupInv /\ [Next]_vars => (CoreInv /\ FamilyInv /\ WakeupInv)'
  BY Zenon, NextCore, FamilyStep, WakeupStep
<1> QED
  BY <1>1, <1>2, PTL DEF Spec

(* exit() and wait() leave no process without a live parent: reparent()    *)
(* hands every child over before its parent dies, and a process that       *)
(* fork() has made runnable has a parent.                                  *)
THEOREM NoOrphans == Spec => []ParentsLive
<1>1. FamilyInv => ParentsLive
  BY Zenon DEF FamilyInv
<1> QED
  BY <1>1, FamilyAlways, PTL

(* A sleeper with a zombie child is always about to be woken by a thread   *)
(* that is still in wakeup() and holds wait_lock.                          *)
LEMMA SleeperWoken ==
    ASSUME CoreInv, WakeupInv
    PROVE  NoLostWakeup
<1>1. SUFFICES ASSUME NEW p \in Slot, NEW q \in Slot, parent[q] = p, state[q] = "ZOMBIE", waitlock = NoCpu,
                      state[p] = "SLEEPING"
               PROVE  FALSE
  BY Zenon DEF NoLostWakeup
<1>2. PICK r \in Slot : pc[r] = "wakeup"
  BY Zenon, <1>1 DEF WakeupInv, WakeInv, Waking
<1>3. PICK c \in Cpu : run[c] = r
  BY Zenon, <1>2 DEF CoreInv, RunInv
<1>4. waitlock = c
  BY Zenon, <1>2, <1>3, Slots DEF CoreInv, WaitInv, Locked
<1> QED
  BY Zenon, <1>1, <1>4, CpuAssumption

(* No wakeup is lost between exit() and wait(), for any number of          *)
(* processes and CPUs: sleep() takes p->lock before it gives up wait_lock, *)
(* so exit() cannot run wakeup() in between.                               *)
THEOREM WakeupNeverLost == Spec => []NoLostWakeup
<1>1. CoreInv /\ WakeupInv => NoLostWakeup
  BY Zenon, SleeperWoken
<1> QED
  BY <1>1, FamilyAlways, PTL

(* The mark of kill() is gone from a free slot.                            *)
KilledInv == \A q \in Slot : state[q] = "UNUSED" => killed[q] = 0

LEMMA KilledStep ==
    ASSUME CoreInv, KilledInv, 0 \notin KillPids, [Next]_vars
    PROVE  KilledInv'
<1> USE DEF Set
<1>1. TypeOK
  BY Zenon DEF CoreInv
<1>2. ASSUME NEW p \in Slot, ThreadStep(p) PROVE KilledInv'
  <2>1. CASE Reap(p)
    <3>1. state' = [state EXCEPT ![idx[p]] = "UNUSED"] /\ killed' = [killed EXCEPT ![idx[p]] = 0]
      BY Zenon, <2>1 DEF Reap, Freeproc
    <3> QED
      BY Zenon, <1>1, <3>1 DEF KilledInv, TypeOK
  <2>2. ASSUME NEW n \in Slot, Kill(p, n) PROVE KilledInv'
    <3>1. /\ state' = [state EXCEPT ![n] = IF @ = "SLEEPING" THEN "RUNNABLE" ELSE @]
          /\ killed' = [killed EXCEPT ![n] = 1] /\ state[n] # "UNUSED"
      BY Zenon, <2>2 DEF Kill
    <3> QED
      BY Zenon, <1>1, <3>1 DEF KilledInv, TypeOK
  <2>3. CASE ~Reap(p) /\ ~\E n \in Slot : Kill(p, n)
    <3>1. killed' = killed
      BY Zenon, <1>2, <2>3 DEF ThreadStep, KernelStep, PushOff, ForkParent, ForkRun, ExitLock, Reparent, WakeParent, Wakeup,
           WakeupDone, Zombie, WaitLock, Scan, ReapFails, WaitFails, WaitSleeps, Sleep, Yield, Sched, Exit, Wait, Fork,
           SleepReturns, TrapReturns, Scheduler, procVars
    <3>2. \A q \in Slot : state'[q] = "UNUSED" => state[q] = "UNUSED"
      <4>1. CASE Quiet(p)
        BY Zenon, <4>1 DEF Quiet, Dead
      <4>2. CASE ForkParent(p) \/ ForkRun(p) \/ Reparent(p) \/ Zombie(p) \/ \E n \in Slot : Fork(p, n)
        <5>1. \E n : \E v \in {"USED", "RUNNABLE", "ZOMBIE"} : state' = [state EXCEPT ![n] = v] \/ state' = state
          BY Zenon, <4>2 DEF ForkParent, ForkRun, Reparent, Zombie, Fork, Allocproc
        <5> QED
          BY Zenon, <1>1, <5>1 DEF TypeOK
      <4> QED
        BY Zenon, <1>2, <2>3, <4>1, <4>2, TableStep
    <3> QED
      BY Zenon, <3>1, <3>2 DEF KilledInv
  <2> QED
    BY Zenon, <2>1, <2>2, <2>3
<1>3. CASE UNCHANGED procVars
  BY Zenon, <1>3 DEF procVars, KilledInv
<1>4. ASSUME NEW c \in Cpu, SchedulerRelease(c) PROVE KilledInv'
  BY Zenon, <1>3, <1>4 DEF SchedulerRelease
<1>5. CASE UNCHANGED vars
  BY Zenon, <1>3, <1>5 DEF vars
<1> QED
  BY Zenon, <1>2, <1>4, <1>5 DEF Next, ThreadStep

(* kill() reaches the process with the given pid and no other: as long as  *)
(* no program calls kill(0), which matches the free slots, a process does  *)
(* not come to life already killed.                                        *)
THEOREM NotBornKilled ==
    ASSUME 0 \notin KillPids
    PROVE  Spec => BornAlive
<1>1. Init => KilledInv
  BY Zenon DEF Init, KilledInv
<1>2. CoreInv /\ KilledInv /\ [Next]_vars => KilledInv'
  BY Zenon, KilledStep
<1>3. ASSUME CoreInv, KilledInv, [Next]_vars
      PROVE  [\A q \in Slot : state[q] = "UNUSED" /\ state'[q] = "USED" => killed'[q] = 0]_vars
  <2>1. ASSUME NEW q \in Slot, state[q] = "UNUSED" PROVE killed'[q] = 0
    <3>1. TypeOK /\ killed[q] = 0
      BY Zenon, <1>3, <2>1 DEF CoreInv, KilledInv
    <3>2. \/ killed' = killed
          \/ \E n \in Slot : killed' = [killed EXCEPT ![n] = 1] /\ state[n] # "UNUSED"
          \/ \E n : killed' = [killed EXCEPT ![n] = 0]
      BY ZenonT(30), <1>3 DEF Next, KernelStep, PushOff, ForkParent, ForkRun, ExitLock, Reparent, WakeParent, Wakeup,
           WakeupDone, Zombie, WaitLock, Scan, Reap, Freeproc, ReapFails, WaitFails, WaitSleeps, Sleep, Yield, Sched, Exit,
           Wait, Fork, Kill, SchedulerRelease, SleepReturns, TrapReturns, Scheduler, procVars, vars, Set
    <3> QED
      BY Zenon, <2>1, <3>1, <3>2 DEF TypeOK
  <2> QED
    BY Zenon, <2>1
<1> QED
  BY <1>1, <1>2, <1>3, CoreAlways, PTL DEF Spec, BornAlive
=============================================================================
