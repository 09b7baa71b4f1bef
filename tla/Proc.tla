-------------------------------- MODULE Proc --------------------------------
(***************************************************************************)
(* Process life cycle of kernel/proc.c: fork, exit, wait, kill, sleep,     *)
(* wakeup, yield and the per-CPU scheduler, at the granularity of the      *)
(* spin locks p->lock and wait_lock.  A critical section is one step; the  *)
(* loops over the process table take one step per slot, as each slot has   *)
(* its own lock.  p->lock is handed over in swtch(): the thread that calls *)
(* sched() takes it and the scheduler of that CPU releases it.  Whether a  *)
(* timer interrupt may preempt a thread is up to the nesting of push_off() *)
(* and pop_off() in kernel/spinlock.c and to trap entry and return.        *)
(*                                                                         *)
(* Allocation failures of fork() undo themselves under the new slot's lock *)
(* and leave no trace here.                                                *)
(***************************************************************************)
EXTENDS Integers, FiniteSets

CONSTANTS
    NPROC, Cpu, NoCpu,
    KillPids       \* what user programs pass to kill(): slots (for the pid of
                   \* the process in the slot), or 0
ASSUME NPROCAssumption == NPROC \in Nat \ {0}
ASSUME CpuAssumption == NoCpu \notin Cpu

Slot == 1 .. NPROC
None == 0
initproc == 1

(* Nobody kills init: exit() would then panic("init exiting").             *)
ASSUME KillAssumption == KillPids \subseteq (Slot \ {initproc}) \cup {0}

VARIABLES
    state, chan, killed, parent,  \* of each slot (chan: a slot, or None)
    plock, waitlock,              \* the CPU that holds the lock, or NoCpu
    run,                          \* whose kernel stack a CPU is on, or None
    prev,                         \* the process whose lock the scheduler must release
    intr, noff, intena,           \* interrupt enable, push_off() depth and what it found, by CPU
                                  \* (intena is 0 while noff is, since push_off() then sets it)
    saved,                        \* the local variable intena of sched()
    pc, cont,                     \* where the slot's thread is; where swtch() returns to
    sepc,                         \* where the trap that called yield() came from
    idx, widx, wchan,             \* loop over the table; loop of wakeup(), its argument
    child, havekids               \* locals of fork() and of wait()
                                  \* (locals are reset when their loop is left)

procVars == <<state, chan, killed, parent>>
lockVars == <<plock, waitlock>>
cpuVars == <<run, prev>>
intrVars == <<intr, noff, intena, saved>>
codeVars == <<cont, sepc>>
loopVars == <<idx, widx, wchan>>
vars == <<procVars, lockVars, cpuVars, intrVars, pc, codeVars, loopVars, child, havekids>>

(* The places with no lock held; all but the first are calls of acquire(). *)
Acquire == {"fork_parent", "fork_run", "exit", "wait"}
Unlocked == {"user"} \cup Acquire
Locked == {"reparent", "wakeup", "zombie", "scan", "sleep"}
PC == Unlocked \cup Locked \cup {"swtch", "resume"}

TypeOK ==
    /\ state \in [Slot -> {"UNUSED", "USED", "SLEEPING", "RUNNABLE", "RUNNING", "ZOMBIE"}]
    /\ chan \in [Slot -> Slot \cup {None}]
    /\ killed \in [Slot -> 0 .. 1]
    /\ parent \in [Slot -> Slot \cup {None}]
    /\ plock \in [Slot -> Cpu \cup {NoCpu}] /\ waitlock \in Cpu \cup {NoCpu}
    /\ run \in [Cpu -> Slot \cup {None}] /\ prev \in [Cpu -> Slot \cup {None}]
    /\ intr \in [Cpu -> 0 .. 1] /\ noff \in [Cpu -> 0 .. 1] /\ intena \in [Cpu -> 0 .. 1]
    /\ saved \in [Slot -> 0 .. 1]
    /\ pc \in [Slot -> PC] /\ cont \in [Slot -> {"user", "sret", "wait", "reparent", "zombie"}]
    /\ sepc \in [Slot -> Unlocked]
    /\ idx \in [Slot -> 1 .. NPROC + 1] /\ widx \in [Slot -> 1 .. NPROC + 1]
    /\ wchan \in [Slot -> Slot \cup {None}]
    /\ child \in [Slot -> Slot \cup {None}] /\ havekids \in [Slot -> 0 .. 1]

(* After userinit(): the first process is runnable, the CPUs are in        *)
(* scheduler().                                                            *)
Init ==
    /\ state = [p \in Slot |-> IF p = initproc THEN "RUNNABLE" ELSE "UNUSED"]
    /\ chan = [p \in Slot |-> None]
    /\ killed = [p \in Slot |-> 0]
    /\ parent = [p \in Slot |-> None]
    /\ plock = [p \in Slot |-> NoCpu] /\ waitlock = NoCpu
    /\ run = [c \in Cpu |-> None] /\ prev = [c \in Cpu |-> None]
    /\ intr = [c \in Cpu |-> 1] /\ noff = [c \in Cpu |-> 0] /\ intena = [c \in Cpu |-> 0]
    /\ saved = [p \in Slot |-> 0]
    /\ pc = [p \in Slot |-> "resume"] /\ sepc = [p \in Slot |-> "user"]
    /\ cont = [p \in Slot |-> IF p = initproc THEN "sret" ELSE "user"]
    /\ idx = [p \in Slot |-> 1] /\ widx = [p \in Slot |-> 1]
    /\ wchan = [p \in Slot |-> None]
    /\ child = [p \in Slot |-> None] /\ havekids = [p \in Slot |-> 0]

Free(q) == plock[q] = NoCpu
Go(p, l) == pc' = [pc EXCEPT ![p] = l]
Set(f, q, v) == [f EXCEPT ![q] = v]

(* Thread p is at l and a CPU runs it.                                     *)
At(p, l) == pc[p] = l /\ \E c \in Cpu : run[c] = p
MyCpu(p) == CHOOSE c \in Cpu : run[c] = p

(* push_off(); old says whether it finds interrupts on.                    *)
Push(c, old) ==
    /\ intena' = IF noff[c] = 0 THEN Set(intena, c, old) ELSE intena
    /\ intr' = Set(intr, c, 0)
    /\ noff' = Set(noff, c, noff[c] + 1)

(* pop_off(); on is the interrupted thread's intena.                       *)
Pop(c, on) ==
    /\ intr' = IF noff[c] = 1 /\ on = 1 THEN Set(intr, c, 1) ELSE intr
    /\ intena' = IF noff[c] = 1 THEN Set(intena, c, 0) ELSE intena
    /\ noff' = Set(noff, c, noff[c] - 1)

(* acquire() calls push_off(), then spins until the lock is free.          *)
PushOff(p) ==
    /\ \E l \in Acquire : At(p, l)
    /\ noff[MyCpu(p)] = 0
    /\ Push(MyCpu(p), intr[MyCpu(p)])
    /\ UNCHANGED <<saved, procVars, lockVars, cpuVars, pc, codeVars, loopVars, child, havekids>>

AcquireAt(p, l) == At(p, l) /\ noff[MyCpu(p)] = 1

(* release() of the last spin lock.                                        *)
Release(p) == Pop(MyCpu(p), intena[MyCpu(p)]) /\ UNCHANGED saved

-----------------------------------------------------------------------------
(* usertrap() lets a killed process only exit.                             *)
Syscall(p) == At(p, "user") /\ killed[p] = 0

(* allocproc(); the lock of the slot is held until fork() releases it.     *)
Allocproc(n) ==
    /\ state[n] = "UNUSED" /\ Free(n)
    /\ state' = Set(state, n, "USED")

(* fork(), with allocproc(), up to release(&np->lock).                     *)
Fork(p, n) ==
    /\ Syscall(p)
    /\ Allocproc(n)
    /\ pc' = [pc EXCEPT ![p] = "fork_parent", ![n] = "resume"]
    /\ cont' = Set(cont, n, "sret")
    /\ saved' = Set(saved, n, 0)
    /\ child' = Set(child, p, n)
    /\ UNCHANGED <<intr, noff, intena, sepc, chan, killed, parent, lockVars, cpuVars, loopVars, havekids>>

ForkParent(p) ==
    /\ AcquireAt(p, "fork_parent")
    /\ waitlock = NoCpu
    /\ parent' = Set(parent, child[p], p)
    /\ Release(p)
    /\ Go(p, "fork_run")
    /\ UNCHANGED <<state, chan, killed, lockVars, cpuVars, codeVars, loopVars, child, havekids>>

ForkRun(p) ==
    /\ AcquireAt(p, "fork_run")
    /\ Free(child[p])
    /\ state' = Set(state, child[p], "RUNNABLE")
    /\ child' = Set(child, p, None)
    /\ Release(p)
    /\ Go(p, "user")
    /\ UNCHANGED <<chan, killed, parent, lockVars, cpuVars, codeVars, loopVars, havekids>>

(* Kill the process in slot q; the pid of a free slot is 0.                *)
Kill(p, q) ==
    /\ Syscall(p)
    /\ \/ state[q] # "UNUSED" /\ q \in KillPids
       \/ /\ 0 \in KillPids
          /\ state[q] = "UNUSED" /\ \A r \in 1 .. q - 1 : state[r] # "UNUSED"
    /\ Free(q)
    /\ killed' = Set(killed, q, 1)
    /\ state' = [state EXCEPT ![q] = IF @ = "SLEEPING" THEN "RUNNABLE" ELSE @]
    /\ UNCHANGED <<intrVars, chan, parent, lockVars, cpuVars, pc, codeVars, loopVars, child, havekids>>

-----------------------------------------------------------------------------
(* exit().  The open files and the current directory are given up first,   *)
(* without any of these locks.  usertrap() also calls it for a process     *)
(* that was killed, with interrupts still off from the trap.  The program  *)
(* of init never calls it.                                                 *)
Exit(p) ==
    /\ At(p, "user") /\ p # initproc
    /\ \/ UNCHANGED intr
       \/ killed[p] = 1 /\ intr' = Set(intr, MyCpu(p), 0)
    /\ Go(p, "exit")
    /\ UNCHANGED <<noff, intena, saved, procVars, lockVars, cpuVars, codeVars, loopVars, child, havekids>>

ExitLock(p) ==
    /\ AcquireAt(p, "exit")
    /\ waitlock = NoCpu
    /\ waitlock' = MyCpu(p)
    /\ Go(p, "reparent")
    /\ UNCHANGED <<intrVars, procVars, plock, cpuVars, codeVars, loopVars, child, havekids>>

(* Enter wakeup(ch); the thread goes on at l afterwards.                   *)
CallWakeup(p, ch, l) ==
    /\ wchan' = Set(wchan, p, ch)
    /\ cont' = Set(cont, p, l)
    /\ Go(p, "wakeup")

(* Mutant: only the children that are dead already are handed over.        *)
ReparentZombies(p) ==
    /\ At(p, "reparent") /\ idx[p] <= NPROC
    /\ idx' = Set(idx, p, idx[p] + 1)
    /\ \/ /\ parent[idx[p]] = p /\ state[idx[p]] = "ZOMBIE"
          /\ parent' = Set(parent, idx[p], initproc)
          /\ CallWakeup(p, initproc, "reparent")
       \/ /\ ~(parent[idx[p]] = p /\ state[idx[p]] = "ZOMBIE")
          /\ UNCHANGED <<parent, wchan, cont, pc>>
    /\ UNCHANGED <<intrVars, sepc, state, chan, killed, lockVars, cpuVars, widx, child, havekids>>

(* reparent(): one slot of the table.                                      *)
Reparent(p) ==
    /\ At(p, "reparent") /\ idx[p] <= NPROC
    /\ idx' = Set(idx, p, idx[p] + 1)
    /\ \/ /\ parent[idx[p]] = p
          /\ parent' = Set(parent, idx[p], initproc)
          /\ CallWakeup(p, initproc, "reparent")
       \/ /\ parent[idx[p]] # p
          /\ UNCHANGED <<parent, wchan, cont, pc>>
    /\ UNCHANGED <<intrVars, sepc, state, chan, killed, lockVars, cpuVars, widx, child, havekids>>

WakeParent(p) ==
    /\ At(p, "reparent") /\ idx[p] = NPROC + 1
    /\ idx' = Set(idx, p, 1)
    /\ CallWakeup(p, parent[p], "zombie")
    /\ UNCHANGED <<intrVars, sepc, procVars, lockVars, cpuVars, widx, child, havekids>>

(* wakeup(): one slot of the table.                                        *)
Wakeup(p) ==
    /\ At(p, "wakeup") /\ widx[p] <= NPROC
    /\ widx[p] # p => Free(widx[p])
    /\ widx' = Set(widx, p, widx[p] + 1)
    /\ state' = [state EXCEPT ![widx[p]] =
                   IF widx[p] # p /\ @ = "SLEEPING" /\ chan[widx[p]] = wchan[p]
                   THEN "RUNNABLE" ELSE @]
    /\ UNCHANGED <<intrVars, chan, killed, parent, lockVars, cpuVars, pc, codeVars, idx, wchan, child, havekids>>

WakeupDone(p) ==
    /\ At(p, "wakeup") /\ widx[p] = NPROC + 1
    /\ Go(p, cont[p])
    /\ cont' = Set(cont, p, "user")
    /\ wchan' = Set(wchan, p, None)
    /\ widx' = Set(widx, p, 1)
    /\ UNCHANGED <<intrVars, sepc, procVars, lockVars, cpuVars, idx, child, havekids>>

Zombie(p) ==
    /\ At(p, "zombie") /\ Free(p)
    /\ plock' = Set(plock, p, MyCpu(p))
    /\ state' = Set(state, p, "ZOMBIE")
    /\ waitlock' = NoCpu
    /\ Go(p, "swtch")
    /\ UNCHANGED <<intrVars, chan, killed, parent, cpuVars, codeVars, loopVars, child, havekids>>

-----------------------------------------------------------------------------
(* wait().                                                                 *)
Wait(p) ==
    /\ Syscall(p)
    /\ Go(p, "wait")
    /\ UNCHANGED <<intrVars, procVars, lockVars, cpuVars, codeVars, loopVars, child, havekids>>

WaitLock(p) ==
    /\ AcquireAt(p, "wait")
    /\ waitlock = NoCpu
    /\ waitlock' = MyCpu(p)
    /\ Go(p, "scan")
    /\ UNCHANGED <<intrVars, procVars, plock, cpuVars, codeVars, loopVars, child, havekids>>

EndScan(p) ==
    /\ idx' = Set(idx, p, 1)
    /\ havekids' = Set(havekids, p, 0)
    /\ UNCHANGED <<widx, wchan, child>>

WaitReturn(p) ==
    /\ waitlock' = NoCpu
    /\ EndScan(p)
    /\ Release(p)
    /\ Go(p, "user")
    /\ UNCHANGED <<plock, cpuVars, codeVars>>

(* A slot that is not a zombie child.                                      *)
Scan(p) ==
    /\ At(p, "scan") /\ idx[p] <= NPROC
    /\ parent[idx[p]] = p => Free(idx[p]) /\ state[idx[p]] # "ZOMBIE"
    /\ idx' = Set(idx, p, idx[p] + 1)
    /\ havekids' = [havekids EXCEPT ![p] = IF parent[idx[p]] = p THEN 1 ELSE @]
    /\ UNCHANGED <<intrVars, procVars, lockVars, cpuVars, pc, codeVars, widx, wchan, child>>

(* Mutant: pp->lock is not taken.                                          *)
FoundZombieUnlocked(p) ==
    /\ At(p, "scan") /\ idx[p] <= NPROC
    /\ parent[idx[p]] = p /\ state[idx[p]] = "ZOMBIE"

FoundZombie(p) ==
    /\ At(p, "scan") /\ idx[p] <= NPROC
    /\ parent[idx[p]] = p /\ Free(idx[p]) /\ state[idx[p]] = "ZOMBIE"

(* Mutant: freeproc() does not clear p->killed.                            *)
FreeprocKeepsKilled(q) ==
    /\ parent' = Set(parent, q, None)
    /\ chan' = Set(chan, q, None)
    /\ state' = Set(state, q, "UNUSED")
    /\ UNCHANGED killed

Freeproc(q) ==
    /\ parent' = Set(parent, q, None)
    /\ chan' = Set(chan, q, None)
    /\ killed' = Set(killed, q, 0)
    /\ state' = Set(state, q, "UNUSED")

(* A zombie child.                                                         *)
Reap(p) ==
    /\ FoundZombie(p)
    /\ Freeproc(idx[p])
    /\ WaitReturn(p)

(* A zombie child, but copyout() of its status fails; init passes wait()   *)
(* no address to copy it to.                                               *)
ReapFails(p) ==
    /\ FoundZombie(p) /\ p # initproc
    /\ WaitReturn(p)
    /\ UNCHANGED procVars

(* Mutant: the scan ends before the last slot.                             *)
WaitFailsEarly(p) ==
    /\ At(p, "scan") /\ idx[p] >= NPROC
    /\ Free(p)
    /\ havekids[p] = 0 \/ killed[p] = 1
    /\ WaitReturn(p)
    /\ UNCHANGED procVars

(* No children, or killed().                                               *)
WaitFails(p) ==
    /\ At(p, "scan") /\ idx[p] = NPROC + 1
    /\ Free(p)
    /\ havekids[p] = 0 \/ killed[p] = 1
    /\ WaitReturn(p)
    /\ UNCHANGED procVars

(* Mutant: sleep() releases wait_lock before it takes p->lock.             *)
WaitSleepsUnlocked(p) ==
    /\ At(p, "scan") /\ idx[p] = NPROC + 1
    /\ Free(p)
    /\ havekids[p] = 1 /\ killed[p] = 0
    /\ EndScan(p)
    /\ waitlock' = NoCpu
    /\ Go(p, "sleep")
    /\ UNCHANGED <<intrVars, procVars, plock, cpuVars, codeVars>>

WaitSleeps(p) ==
    /\ At(p, "scan") /\ idx[p] = NPROC + 1
    /\ Free(p)
    /\ havekids[p] = 1 /\ killed[p] = 0
    /\ EndScan(p)
    /\ Go(p, "sleep")
    /\ UNCHANGED <<intrVars, procVars, lockVars, cpuVars, codeVars>>

(* Mutant: sleep() does not release wait_lock.                             *)
SleepHolding(p) ==
    /\ At(p, "sleep") /\ Free(p)
    /\ plock' = Set(plock, p, MyCpu(p))
    /\ chan' = Set(chan, p, p)
    /\ state' = Set(state, p, "SLEEPING")
    /\ cont' = Set(cont, p, "wait")
    /\ Go(p, "swtch")
    /\ UNCHANGED <<intrVars, sepc, killed, parent, waitlock, cpuVars, loopVars, child, havekids>>

(* sleep(p, &wait_lock); it takes the lock again when it is woken.         *)
Sleep(p) ==
    /\ At(p, "sleep") /\ Free(p)
    /\ plock' = Set(plock, p, MyCpu(p))
    /\ waitlock' = NoCpu
    /\ chan' = Set(chan, p, p)
    /\ state' = Set(state, p, "SLEEPING")
    /\ cont' = Set(cont, p, "wait")
    /\ Go(p, "swtch")
    /\ UNCHANGED <<intrVars, sepc, killed, parent, cpuVars, loopVars, child, havekids>>

-----------------------------------------------------------------------------
(* A timer interrupt, in user mode or at a place in the kernel.            *)
TimerTrap(p) == (\E l \in PC : At(p, l)) /\ intr[MyCpu(p)] = 1

(* The yield() of the trap handler; the trap has turned interrupts off     *)
(* before push_off() looks.                                                *)
Yield(p) ==
    /\ TimerTrap(p)
    /\ Free(p)
    /\ Push(MyCpu(p), 0)
    /\ plock' = Set(plock, p, MyCpu(p))
    /\ state' = Set(state, p, "RUNNABLE")
    /\ sepc' = Set(sepc, p, pc[p])
    /\ cont' = Set(cont, p, "sret")
    /\ Go(p, "swtch")
    /\ UNCHANGED <<saved, chan, killed, parent, waitlock, cpuVars, loopVars, child, havekids>>

(* sched(): the CPU leaves the kernel stack of p with p->lock held.        *)
Sched(p) ==
    /\ At(p, "swtch")
    /\ saved' = Set(saved, p, intena[MyCpu(p)])
    /\ run' = Set(run, MyCpu(p), None)
    /\ prev' = Set(prev, MyCpu(p), p)
    /\ Go(p, "resume")
    /\ UNCHANGED <<intr, noff, intena, procVars, lockVars, codeVars, loopVars, child, havekids>>

(* scheduler(): after swtch() has returned.                                *)
SchedulerRelease(c) ==
    /\ prev[c] # None
    /\ plock' = Set(plock, prev[c], NoCpu)
    /\ prev' = Set(prev, c, None)
    /\ Pop(c, intena[c])
    /\ UNCHANGED <<saved, procVars, waitlock, run, pc, codeVars, loopVars, child, havekids>>

(* swtch() returns in sched(), or enters forkret(); p goes on at l.        *)
SwtchReturns(p, l) ==
    /\ cont[p] = l
    /\ saved' = Set(saved, p, 0)
    /\ cont' = Set(cont, p, "user")

(* scheduler() chooses a runnable process, up to the release of p->lock by *)
(* the thread it switches to.                                              *)
Scheduler(c, p, l) ==
    /\ run[c] = None /\ prev[c] = None
    /\ state[p] = "RUNNABLE" /\ Free(p)
    /\ state' = Set(state, p, "RUNNING")
    /\ run' = Set(run, c, p)
    /\ SwtchReturns(p, l)
    /\ UNCHANGED <<noff, intena, killed, parent, lockVars, prev, loopVars, child, havekids>>

(* Mutant: sched() does not restore intena, so that pop_off() does what    *)
(* push_off() found in scheduler(): after intr_on() or later in a round.   *)
SleepReturnsForgets(c, p) ==
    /\ Scheduler(c, p, "wait")
    /\ \E old \in {intr[c], 1} : intr' = Set(intr, c, old)
    /\ chan' = Set(chan, p, None)
    /\ Go(p, "wait")
    /\ UNCHANGED sepc

(* The end of sched() and of sleep(), up to acquire(lk).                   *)
SleepReturns(c, p) ==
    /\ Scheduler(c, p, "wait")
    /\ intr' = Set(intr, c, saved[p])
    /\ chan' = Set(chan, p, None)
    /\ Go(p, "wait")
    /\ UNCHANGED sepc

(* The end of sched() and of yield(), or forkret(), and the return from    *)
(* the trap, which turns interrupts on.                                    *)
TrapReturns(c, p) ==
    /\ Scheduler(c, p, "sret")
    /\ intr' = Set(intr, c, 1)
    /\ Go(p, sepc[p])
    /\ sepc' = Set(sepc, p, "user")
    /\ UNCHANGED chan

KernelStep(p) ==
    \/ PushOff(p) \/ ForkParent(p) \/ ForkRun(p)
    \/ ExitLock(p) \/ Reparent(p) \/ WakeParent(p) \/ Wakeup(p) \/ WakeupDone(p) \/ Zombie(p)
    \/ WaitLock(p) \/ Scan(p) \/ Reap(p) \/ ReapFails(p) \/ WaitFails(p) \/ WaitSleeps(p) \/ Sleep(p)

Next ==
    \/ \E p \in Slot : KernelStep(p) \/ Yield(p) \/ Sched(p) \/ Exit(p) \/ Wait(p)
    \/ \E p, q \in Slot : Fork(p, q) \/ Kill(p, q)
    \/ \E c \in Cpu : SchedulerRelease(c) \/ \E p \in Slot : SleepReturns(c, p) \/ TrapReturns(c, p)

Spec == Init /\ [][Next]_vars

-----------------------------------------------------------------------------
(* A kernel stack has one CPU on it at most, and its slot is not free: a   *)
(* zombie is neither reaped by wait() nor a sleeper run by another CPU     *)
(* before swtch() has left the stack.                                      *)
StackSafe ==
    \A c \in Cpu : run[c] # None =>
        /\ state[run[c]] # "UNUSED"
        /\ \A d \in Cpu : run[d] = run[c] => d = c

(* No lost wakeup between exit() and wait(): whenever wait_lock is free,   *)
(* a process with a zombie child is not asleep, whether the child died     *)
(* under it or was handed over to it as init.                              *)
NoLostWakeup ==
    \A p, q \in Slot :
        parent[q] = p /\ state[q] = "ZOMBIE" /\ waitlock = NoCpu => state[p] # "SLEEPING"

(* exit() leaves no process behind that nobody can wait for: the parent of *)
(* a process is neither dead nor a free slot, and only init and a process  *)
(* that fork() has not finished have none.                                 *)
ParentsLive ==
    /\ \A q \in Slot : parent[q] # None => state[parent[q]] \notin {"ZOMBIE", "UNUSED"}
    /\ \A q \in Slot \ {initproc} : state[q] \notin {"USED", "UNUSED"} => parent[q] # None

(* The panics of sched() and of acquire() are never reached: a thread that *)
(* switches away has interrupts off, holds its own p->lock and no other    *)
(* spin lock, and its CPU's noff says so.                                  *)
SchedLocks ==
    \A c \in Cpu : \A p \in Slot : run[c] = p /\ pc[p] = "swtch" =>
        /\ plock[p] = c /\ waitlock # c
        /\ \A q \in Slot \ {p} : plock[q] # c
        /\ state[p] # "RUNNING"
        /\ intr[c] = 0 /\ noff[c] = 1

(* push_off() and pop_off() stay matched although threads change CPU       *)
(* between them, and intena is the thread's, not the CPU's: interrupts are *)
(* never on while the CPU holds a spin lock or spins for one; a system     *)
(* call has them back on after every critical section, whichever CPU it is *)
(* on then; and the end of yield() does not turn them on inside the trap   *)
(* handler.                                                                *)
InterruptsMatched ==
    /\ \A c \in Cpu : intr[c] = 1 => noff[c] = 0 /\ waitlock # c /\ \A q \in Slot : plock[q] # c
    /\ \A c \in Cpu : \A p \in Slot :
        run[c] = p /\ pc[p] \in {"user", "fork_parent", "fork_run", "wait"} /\ noff[c] = 0 => intr[c] = 1
    /\ \A p \in Slot : pc[p] = "resume" /\ cont[p] = "sret" => saved[p] = 0

(* "Kill the process with the given pid": a process does not come to life  *)
(* already killed.                                                         *)
BornAlive ==
    [][\A q \in Slot : state[q] = "UNUSED" /\ state'[q] = "USED" => killed'[q] = 0]_vars

-----------------------------------------------------------------------------
(* Fairness.  A CPU executes the kernel code it is in, timer interrupts    *)
(* do not preempt it at one place forever, and spin locks are granted in   *)
(* the end (their critical sections are finite); scheduler() goes round    *)
(* the whole table; the timer interrupts every process; init calls wait()  *)
(* in a loop.                                                              *)
Fairness ==
    /\ \A p \in Slot : SF_vars(KernelStep(p)) /\ WF_vars(Sched(p))
    /\ \A p \in Slot : WF_vars(Yield(p) /\ pc[p] = "user")
    /\ \A p \in Slot : SF_vars(\E c \in Cpu : SleepReturns(c, p) \/ TrapReturns(c, p))
    /\ \A c \in Cpu : WF_vars(SchedulerRelease(c))
    /\ SF_vars(Wait(initproc))

LiveSpec == Spec /\ Fairness

(* Init never stops reaping while it has zombie children, its own or the   *)
(* ones exit() handed over to it.  (Not each of them: wait() scans the     *)
(* table from the start, so a zombie in a high slot waits for as long as   *)
(* lower ones keep dying.)                                                 *)
InitHasZombie == \E q \in Slot : parent[q] = initproc /\ state[q] = "ZOMBIE"
InitReaps == []<>InitHasZombie => []<><<Reap(initproc)>>_vars
=============================================================================
