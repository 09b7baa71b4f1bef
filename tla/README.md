# A TLA+ verification of zeptOS

zeptOS is an xv6-derived RISC-V kernel in C (`src/kernel`) with a small user
land (`src/user`), an image builder (`src/tools`) and a vendored copy of the
OpenSBI firmware (`src/firmware`).  This directory holds TLA+ models of the
kernel and of the multi-hart parts of the firmware, translated from their
source, the TLC configurations that check them on small instances, and TLAPS
proofs about them.  `PROJECT.json` maps every definition to the lines it models.

## 1. The system: parts, state, hard behaviours

| part | source | state | operations | what is hard |
|---|---|---|---|---|
| write-ahead log | `log.c` | in-memory header, `outstanding`, `committing`; on-disk header and data blocks | `begin_op`, `log_write`, `end_op`, `commit`, recovery | a crash between any two disk writes; commit against new operations; space reservation; pins |
| buffer cache | `bio.c` | `NBUF` buffers in LRU order, `refcnt`, `valid` | `bget`, `bread`, `bwrite`, `brelse`, `bpin`, `bunpin` | one buffer per block; recycling against waiters of the sleep lock; running out of buffers |
| sleep locks | `sleeplock.c` | `locked`, `pid` | `acquiresleep`, `releasesleep` | sleep/wakeup races |
| disk driver | `virtio_disk.c` | descriptors, rings, in-flight table | `virtio_disk_rw`, `virtio_disk_intr` | descriptor exhaustion, interrupts racing requests, 16-bit ring indices |
| processes | `proc.c` | process table, parent links, per-CPU state | `fork`, `exit`, `wait`, `kill`, `sleep`, `wakeup`, `scheduler`, `yield` | lost wakeups, reaping a process still on its stack, orphans |
| spin locks | `spinlock.c` | owner, `noff`, `intena` | `acquire`, `release`, `push_off`, `pop_off` | interrupts against lock holders |
| inodes | `fs.c` | inode table, on-disk inodes, bitmap | `iget`, `ilock`, `iput`, `ialloc`, `itrunc`, `bmap`, ... | the last `iput` against a new `iget`; reuse of inode numbers |
| directories and paths | `fs.c`, `sysfile.c` | directory entries, link counts | `dirlink`, `namex`, `create`, `sys_link`, `sys_unlink` | lock order, link counts under partial failure |
| files and pipes | `file.c`, `pipe.c` | file table, ring buffer | `filealloc`, `fileclose`, `pipewrite`, `piperead` | sleepers against closers, reference counts |
| console and UART | `console.c`, `uart.c` | input line ring, output ring | `consoleintr`, `consoleread`, `uartputc`, `uartintr` | interrupt against reader, ring indices that wrap |
| memory | `kalloc.c`, `vm.c`, `exec.c` | free list, page tables | `kalloc`, `kfree`, `uvmalloc`, `uvmcopy`, `exec` | partial failure of multi-page operations |
| traps | `trap.c`, `syscall.c`, `plic.c` | ticks | `usertrap`, `kerneltrap`, `devintr` | preemption at any instruction |
| firmware: hart states | `sbi_hsm.c`, `sbi_init.c` | state, start ticket and scratch area of each hart | start, stop, suspend, resume, warm boot | competing starts; an interrupt between the test of the state and `wfi` |
| firmware: interrupts and fences | `sbi_ipi.c`, `sbi_tlb.c`, `sbi_fifo.c` | pending events, FIFO of fences, `tlb_sync` | `sbi_ipi_send_many`, `sbi_ipi_process`, `sbi_tlb_request` | full FIFOs in a cycle, merged ranges, answers that overtake the count, events taken while others are set |
| boot | `main.c`, `start.c`, `dtb.c`, `sbi.c` | `started` flag | `kmain`, `kmain_secondary`, `dtbparse` | ordering between harts |

## 2. Modules and how they correspond to the code

Each component has a module that translates its C functions, an abstract module
for what it promises where that can be stated on its own, an `MC` module
with symmetry sets for TLC, and a module of proofs. A step
of a model is what the code does between two points at which another thread, CPU,
interrupt or the device can observe or change its state: a critical section, one
round of a loop whose rounds take locks of their own, one disk write. `pc` holds
the place of each thread in its function. The rest of a handler (wakeups,
counters, the release of the lock) is in the same step.

### Log (`log.c`), AtomicDisk, LogProofs

State: the home blocks, the header and the data blocks on disk; the cached copy,
the pins and the sleep lock of each home block; `log.lh`, `log.outstanding` and
`log.committing`. Actions: `BeginOp`, `Bread`, `LogWrite` (with absorption and
all its panics), `Brelse`, `EndOp`/`EndCommit` (the two critical sections of
`end_op`), `Commit`, `WriteLog`, `WriteHead`, `InstallTrans`, `Erase` (one step
per block write), `ReadHead` and `RecoverErase` (recovery), `Recycle` (another
`bget` takes an unreferenced buffer) and `Crash`, which keeps only the disk.
The contents of a block are abstract values.

`AtomicDisk` is the promise of the comment at the top of `log.c`: reads and
writes act on a view; in one step, and only while no operation is active, all
that has been written becomes durable; a crash takes the view back to what is
durable. The refinement maps `durable` to the home blocks overlaid with the
committed transaction of the header and `view` to what `bread` returns.

### BufferCache (`bio.c`, `sleeplock.c`), LockedBlocks, BufferCacheProofs

State: `NBUF` buffers with block number, `valid`, `refcnt`, contents, sleep lock,
and the LRU list as a sequence. Actions: hit and miss of `bget` (the reference
is taken under `bcache.lock`, the sleep lock later), `Acquiresleep`, `Bread`,
the caller's `Modify`, `Bwrite`, `Releasesleep` and the rest of `Brelse` with
the move to the front of the list, `Bpin`, `Bunpin`, and `BgetPanic` when no
buffer is left; the thread that panics keeps `bcache.lock`, so that only what needs
no `bcache.lock` goes on. A member of `Proc` is a reference that a thread may
have: a thread that holds two buffers is two members. A changed buffer may be
given back neither written nor logged, which `writei` does when
`either_copyin` fails. `LockedBlocks` is a set of lockable blocks: a thread that
locked a block reads what was last put in it, and the change is lost only
while nobody holds the block and the log has not pinned it.

### VirtioDisk (`virtio_disk.c`), SyncDisk, VirtioDiskProofs

State: free descriptors and their links, `info`, the two rings with their
wrapping indices, `used_idx`, `vdisk_lock`, the pending interrupt, and the
device's own position and requests. Driver actions: `Fill` and `AllocFails`
(`alloc3_desc` with the frees and wakeups of a failure), `Submit`, `SleepAgain`,
`Finish`, the interrupt handler in three parts, and `Kill`, which makes a sleeper
runnable. The device is external: it takes requests in order and completes them
in any order. `SyncDisk` is a disk on which a call is pending until its
transfer happens, once, and then returns.

### Proc (`proc.c`, `spinlock.c`, the traps of `trap.c`), ProcProofs

State: the process table with `state`, `chan`, `killed`, `parent` and `p->lock`;
`wait_lock`; which process's kernel stack each CPU is on; which process lock a
CPU's scheduler still has to release after `swtch`; the interrupt enable, `noff`
and `intena` of each CPU and the `intena` that `sched` keeps on its stack. Every
`acquire` of a thread that holds no lock is a step of its own that calls
`push_off` first (`PushOff`) and then waits for the lock. `Yield` is possible
wherever the CPU has interrupts on, so that the nesting of `push_off` and
`pop_off`, and not the model, keeps the timer out of critical sections. A CPU in
`scheduler` that picks a process goes on, in one step, to where `swtch` takes it:
the end of `sleep` (`SleepReturns`), or the end of `yield` or `forkret` and the
return from the trap (`TrapReturns`).
Actions follow `fork` (allocproc, the link to the parent under `wait_lock`,
`RUNNABLE` under `p->lock`), `exit`, `reparent`, `wait` with its scan one slot at
a time, `freeproc`, `sleep`, `wakeup` one slot at a time, `kill`, `yield`, `sched`
and `scheduler`. Slot 1 is `initproc` and only forks or waits, like
`user/init.c`; nobody kills it (`KillAssumption`), which would end in
`panic("init exiting")`.

### Pipe (`pipe.c`, the reference counts of `file.c`), ByteQueue, PipeProofs

State: the ring, `nread`, `nwrite`, `readopen`, `writeopen`, `pi->lock`, whether
the page has been freed, which process holds which end. Actions follow
`pipewrite` and `piperead` byte by byte with every early return, `fileclose` and
`pipeclose`, `fork` (which duplicates the ends) and `kill`. The members of `Proc`
are processes and not slots of the process table: a slot is used again with
`killed` cleared, a process that was killed stays killed. `ByteQueue` is a
bounded first-in first-out queue with two ends that can be closed.

### FileSystem (`fs.c`, the system calls of `sysfile.c`), FileSystemProofs

State: type and link count of each inode on disk, directories as functions from
names to inode numbers, the inode table with `ref`, the loaded copy and the
owner of the sleep lock, and for each process its call, the inode pointers it
holds, its current directory and one open file. Actions: `Call` (any of `open`,
`O_CREATE`, `mkdir`, `link`, `unlink`, `chdir`), `Walk` (one round of `namex`),
`Open`, `Chdir`, `Link`/`Link2`/`UndoLink`, `Ialloc`/`Create`/`Created`/`Exists`
(`create`), `Unlink`/`Unlink1`/`Unlink2`, `Bad` (the error exits that put an inode
while the directory is locked: of `create`, of `sys_unlink`, and of `sys_link`
when `dirlink` finds the name), `Close`, and
`Iput`/`IputFree`/`IputDrop`, the two critical sections of `iput` and the freeing
in between. Each wait for a sleep lock starts a new step. Left out: the data
of files, device nodes, ".", the path "/" alone, and a full inode table.

### SbiHsm (`sbi_hsm.c`, `sbi_init.c`), SbiTlb (`sbi_ipi.c`, `sbi_tlb.c`, `sbi_fifo.c`), SbiSyncProofs, SbiFenceProofs

`SbiHsm` has the state, the start ticket and the start parameters of each hart
and its software interrupt line. Actions follow `sbi_hsm_hart_start` (ticket,
parameters, compare-and-swap, interrupt), `sbi_hsm_hart_stop` and
`sbi_hsm_exit`, the warm boot path, `sbi_hsm_hart_wait`,
`sbi_hsm_hart_start_finish`, and both kinds of `sbi_hsm_hart_suspend`. A step is
one access to memory that harts share.

`SbiTlb` extends it: the pending events, the FIFO of fences and `tlb_sync` of each
hart. `TlbRequest` and `SendSmode` start `sbi_ipi_send_many`; a hart then goes
through its targets (`SendSelf`, `InplaceUpdate` with the range check, `Enqueue`,
`CountTarget`, `SetType`, `RawSend`) and waits in `SyncDone`. `IpiTrap`,
`IpiExit` and `IpiProcess` are the receiving side, `Dequeue` and `Acknowledge` the
execution of a fence, also from within the loops of a hart that is sending.
Addresses are page numbers modulo a power of two. What the model takes for
granted: memory is sequentially consistent; the mask of interruptible harts is
read at once; no hart is both a target of a start and a hart that suspends
itself (`CallAssumption`); a hart stops when nobody is sending to it
(`Quiesced`). Section 6 says what happens otherwise.

### How the parts fit together

`Log` uses the buffer cache through what `LockedBlocks` promises (one copy of
each block, exclusive while locked, never recycled while pinned or
referenced) and a disk whose block writes are atomic and in program order, which
is what `SyncDisk` promises of the driver. `BufferCache` and `VirtioDisk` use
`sleep` and `wakeup` as atomic with respect to the caller's lock, which is what
`Proc` shows of their code (`NoLostWakeup`). `FileSystem` runs inside
transactions: its disk is the view of `AtomicDisk`. `SbiTlb` is composed of
`SbiHsm` and the interrupts: a hart that is started, stopped or suspended is a
target or not. The kernel is above the firmware: a hart in `"smode"` runs the
code of the other modules.

## 3. The runs

| run | instance | what it shows |
|---|---|---|
| `log` | 2 threads, 2 blocks, 2 contents, `MAXOPBLOCKS` 1, a log of `LOGSIZE` data blocks | `RefinesAtomicDisk`, `QuiescentDurable`, `PinBalance` with a crash at every step, also during recovery; `SpaceReserved`; `BeginOpReturns` |
| `log_mkfs_size` | 3 threads, 3 blocks, `MAXOPBLOCKS` 1, operations of that size | a violation of `NoPanic` (section 6) |
| `cache` | 2 references, 4 blocks, 3 buffers, at most 2 pins | `RefinesLockedBlocks`, `RefCounts`, `SleepersWoken`; `PanicsOnlyWhenFull`, with the panic reached |
| `virtio` | 3 threads, 8 descriptors (as in the code: two transfers at a time), indices modulo 16 | `RefinesSyncDisk`, `DescriptorsOwned`, `NoLostCompletion`, `NoLostDescriptors` |
| `proc` | 3 slots, 2 CPUs, one process may be killed | `StackSafe`, `NoLostWakeup`, `ParentsLive`, `SchedLocks`, `InterruptsMatched`, `BornAlive`; `InitReaps`: init keeps reaping |
| `proc_kill_zero` | the same with `kill(0)` | a violation of `BornAlive` (section 6) |
| `pipe` | 2 processes, one of which may be killed, 2 bytes, a ring of 2, counters modulo 4, transfers of up to 3 | `RefinesByteQueue`, `NoUseAfterFree`, `SleepersHaveReason`, `ReadersSeeEOF`, `WritersSeeEPIPE` |
| `pipe_killed_writer` | 2 processes that may be killed | a violation of `ReadersSleepOnEmpty` (section 6) |
| `fs` | 2 processes, 3 inodes, the names `a` and `/a/b` | `NoPanic`, `PutNeverBlocks`, `NoWaitCycle`, `RefCounts`, `LinksCovered` for any number of calls |
| `fs_parent` | the same with `a` and `../a` | a violation of `NoPanic` (section 6) |
| `sbi` | 3 harts, FIFOs of 1 entry, 8 pages, 3 calls out of fences that overlap, contain one another, are too long, are for everything (`start = size = 0`) or are never merged, notices, competing starts, stop and both suspends | `FenceDone`, `SyncBalance`, `EventsDelivered`, `StartsWhereAsked`, `Settles` |
| `sbi_zero` | the same harts and fences, 2 calls | a violation of `EveryFenceDone` (section 6) |

`cache`, `virtio`, `pipe`, `fs` and `sbi` also check the `TypeOK` of their module;
those of `Log` and `Proc` are theorems (section 5) and no run spends time on
them. Every property of a passing run has a mutant: the definition with a plausible mistake
(a missing wakeup, `if` for `while`, a dropped guard), under which TLC finds the
property violated.

Why the bounds are enough for the cases that matter:

* Log: two blocks in a transaction give every prefix of the copying loops; a
  second thread joins the group commit or waits for it. Crashes and fairness are
  in one run, so it is smaller than a run of one of them could be; the safety
  properties are proved for every size (section 5).
* Buffer cache: more blocks than buffers, so that buffers are recycled while
  threads wait for them; with a reference and two pins all three buffers are in
  use and the next miss panics. The proportions are those of `param.h`: the log
  may pin all buffers but one.
* Disk: three threads want nine of eight descriptors; both indices wrap.
* Processes: three slots are init, a parent and its child, which becomes an
  orphan when the parent exits, and a slot just freed is forked into again;
  two CPUs give every overlap of a process that leaves its stack with one that
  reaps it. Safety and liveness are in one run; the safety properties are proved
  for every number of slots and CPUs (section 5).
* Pipe: transfers larger than the ring block half-way; the counters wrap after
  two fillings.
* File system: `a` is the file, the directory or the missing name of one call and
  the directory on the way of another; below it a directory can be non-empty, a
  current directory can be removed, and the two free inodes run out. `..` is
  not used in `fs`, because the code is wrong there (`fs_parent`).
* Firmware: with three harts a target has two senders whose ranges are merged,
  and with FIFOs of one entry each of two harts finds the other's full; three
  calls are two that race and one that follows either.

`cache`, the `sbi` runs and the pipe runs do not check for deadlock: a panic in
`bget` stops the kernel, processes may all have closed the pipe, and the kernels
may stop calling the firmware.

## 4. Fairness

* `log`: a thread that is runnable in `commit`, in recovery, or woken in
  `begin_op` takes its next step (the scheduler is round-robin and the disk
  answers); `end_op` has strong fairness since an operation uses finitely many
  buffers, during each of which it is not at `end_op`. `BeginOpReturns` assumes
  that new operations stop arriving: the code does not queue sleepers, so a
  stream of new operations could overtake one for ever.
* `proc`: each thread's steps in the kernel and each CPU's scheduler are
  fair; steps that need a spin lock have strong fairness, since `acquire` on
  a lock that is released again and again succeeds in the end (the atomic swap
  of the hardware is not starved). User code is under no obligation, but the
  timer interrupts it (`Yield` of a process that is at user level).
* `sbi`: a hart in the firmware goes on (weak fairness of its steps; it is in
  M-mode with interrupts off and nothing takes the hart away), an interrupt that
  is pending ends `wfi` and is taken in S-mode. A `wfi` without an interrupt may
  end or not. Kernels need not call anything, and make finitely many calls: with
  fewer FIFO entries than senders one sender could otherwise lose the race for
  the entry for ever (the generic platform has an entry per hart).
* `pipe`: strong fairness of the steps of `pipewrite` and `piperead` for the
  same reason, weak fairness of `pipeclose`.

## 5. Proofs

TLAPS proves the following for every value of the constants that the named
`ASSUME`s of the modules admit: any set of threads, processes or harts (a finite
one where the code counts them), any number of buffers, descriptors, slots, CPUs
or FIFO entries, any width of a counter that its ring divides. None of the
properties is inductive. Each module states the invariant that is, which was
checked by TLC on small instances before it was proved, has one lemma for
each conjunct or each action, and derives the theorems from it. A theorem that
repeats a property of a run shows for all sizes what the run shows for one.

| module | theorems |
|---|---|
| `LogProofs` | `TypeCorrect`, `PinsBalance` (`PinBalance`), `DurableWhenQuiet` (`QuiescentDurable`), `Reserved` (`SpaceReserved`), `NeverPanics` (`NoPanic`), `Refinement` (`RefinesAtomicDisk`) |
| `BufferCacheProofs` | `TypeCorrect`, `ReferencesCounted` (`RefCounts`), `SleepLocksWake` (`SleepersWoken`), `PanicOnlyFull` (`PanicsOnlyWhenFull`), `Refinement` (`RefinesLockedBlocks`) |
| `VirtioDiskProofs` | `TypeCorrect`, `DescriptorsSafe` (`DescriptorsOwned`), `CompletionsSeen` (`NoLostCompletion`), `DescriptorsSeen` (`NoLostDescriptors`), `Refinement` (`RefinesSyncDisk`) |
| `ProcProofs` | `TypeCorrect`, `StackAlwaysSafe` (`StackSafe`), `SchedNeverPanics` (`SchedLocks`), `InterruptsAlwaysMatched` (`InterruptsMatched`), `NoOrphans` (`ParentsLive`), `WakeupNeverLost` (`NoLostWakeup`), `NotBornKilled` (`BornAlive`) |
| `PipeProofs` | `TypeCorrect`, `NeverUsedAfterFree` (`NoUseAfterFree`), `NoSleepWithoutReason` (`SleepersHaveReason`), `RingIsQueue` (`RefinesByteQueue`) |
| `FileSystemProofs` | `InvariantKept`, `ReferencesCounted` (`RefCounts`), `LastPutNeverBlocks` (`PutNeverBlocks`), `NoThreadsWaitInACycle` (`NoWaitCycle`) |
| `SbiSyncProofs` | `StartParameters` (`StartsWhereAsked`), `SyncBalanced` (`SyncBalance`) |
| `SbiFenceProofs` | `NothingStranded` (`EventsDelivered`), `FencesExecuted` (`FenceDone`), `TypeCorrect` |

### The log

`IInv` adds what the code relies on without saying so: `outstanding` is the
number of operations in progress (`CountInv`); the thread in `commit` is alone
with the log although it holds no lock (`SoleCommitter`), as is recovery
(`RecoveryAlone`); the header on disk is non-empty only while a transaction is
installed or recovered, no block occurs twice in it (`HeaderInv`), and the log
and the home blocks hold what was copied so far (`CopyInv`); outside of the
transaction the cache agrees with the disk and inside of it the only copy is
cached and pinned (`CacheInv`, `PinBalance`). A crash preserves `IInv` because
`HeaderInv` and `CopyInv` speak of the disk alone once every thread is gone.
`StepSimulates` shows that each step maps to a step or a stutter of `AtomicDisk`;
`WriteHead` is the only one that changes what is durable.

`Owed` is the set of pairs of an operation and a block it may still add;
`SpaceReserved` says that the log and what is owed fit in `LOGSIZE` with two
surplus reservations to spare, which `begin_op` tests for the worst case and every
`log_write` preserves; `WroteInv` ties the blocks an operation has logged to
the header. `Reserved` proves it without any assumption. `NeverPanics` assumes
`Roomy`: the log on disk has the `LOGSIZE` blocks that mkfs gives it, header
included, and an operation logs fewer than `MAXOPBLOCKS` distinct blocks. The
second is needed because one block of the reservation is the header's (section
6), and because `log_write` looks for room before it looks whether the block is
in the log already: a full log is fatal even to a write that would be absorbed.

### The buffer cache

`CacheInv` says that a block is in one buffer (`UniqueInv`), that a pinned block
is in one and no more than `MaxPins` are (`PinInv`, `PinBound`), which threads
have a buffer and which hold its lock (`ThreadInv`, `LockInv`), that the LRU list
has every buffer (`LruInv`), that a valid buffer nobody holds or has pinned
agrees with the disk (`CleanInv`), and contains `RefCounts` and `SleepersWoken`.
`bget` misses only when no buffer has the block and takes one of count zero, so
`RefCounts`, a cardinality, keeps waiting threads and pins from losing theirs.
`PanicOnlyFull` counts: a panic found a reference to every buffer, so there is an
injection from the buffers into the threads and the pins, and since nothing that
takes `bcache.lock` happens after it, it stays. For the refinement,
the content of a block is the valid buffer's, or the disk's without one, so
that a miss, a recycled buffer and a `bwrite` are stutters.

### The disk driver

`DiskInv` says which threads have a chain and how far its request is
(`ThreadInv`), that the chains are disjoint and partition what is not free
(`ChainInv`), and that a descriptor in the avail ring, at the device or in the
used ring is the head of the chain of a thread that waits for it, in one of
these places only and with the right status (`RingInv`). The rings are reasoned
about through the distance of their indices modulo `IDX`: a small theory of
remainders shows that the entries between reader and writer are at different
places. That a ring never overflows is a count: the entries are different
descriptors, and the second descriptor of a chain is never among them
(`RingBound`). From that the handler finds a buffer for each completion, and
the device's transfer is the one step at which `SyncDisk` moves.

### Processes

`CoreInv` relates the CPUs, the stacks, the locks and the interrupt state: a CPU
is on one stack, the process that a scheduler has just left is still locked by
that CPU (`RunInv`, `StackInv`, `HoldInv`), `wait_lock` is held exactly at the
places of the code that need it (`WaitInv`), and `noff`, `intena` and the enable
bit are those that the place of the running thread implies (`CpuInv`), which is
why no timer interrupt comes in a critical section. `FamilyInv` adds what
`reparent` has done so far: no child with a slot below its index is left
(`ExitInv`), the child that `fork` is filling has no parent yet or a live one
(`ForkInv`), and init never exits. `WakeupInv` is the argument that no wakeup of
`wait` is lost: a zombie whose parent sleeps has a `wakeup` under way that has
not passed the parent (`WakeInv`), and a parent that scans has not passed a
zombie (`ScanInv`). `NotBornKilled` assumes that nobody calls `kill(0)`
(section 6).

### Pipes

`PipeInv`: who holds the lock (`LockInv`), who may still have an end and who is on
the way to close it (`EndInv`), why each sleeper sleeps (`SleepInv`), and that
the counters are at most `PIPESIZE` apart modulo `UINT` (`CountInv`). The proof of
`SleepersHaveReason` failed at first, for a good reason: an earlier model let
`fork` reuse a process that had been killed and cleared the mark, so that after
the bytes of a killed writer the exception "unless somebody was killed" could
disappear while the reader was still asleep. TLC finds that with three
processes; with the two of the run it cannot happen. The model now keeps
processes apart from slots. `RingIsQueue` maps the ring to the sequence of bytes
from `nread` to `nwrite` and shows that a write appends to it and a read takes
its head, across every wrap-around.

### The file system

`Inv` has three parts. `Base` says which of the pointers `ip`, `dp`, `old` and which
inodes to put a process has at each place of its call and what it knows of its
arguments there (`ControlInv`), and contains `RefCounts`, a sum of cardinalities:
a step of a process changes `ref` by what that process gains and drops
(`Accounts`), whatever the others do. `Table` says that an inode is locked exactly
by the process whose place implies it (`LockInv`), that a valid copy is what is on
disk (`CopyInv`), and that while `iput` frees an inode nobody has it as the parent
directory or the old file of a call (`WindowInv`): only a walk can still find its
number. `Tree` says that the parent of a call is a directory (`DirInv`), that
what `create` and `sys_unlink` read in the locked parent still holds (`NameInv`),
and that the entries other than ".." have no cycle, together with the one that
`create` is about to make (`Acyclic`): every set of inodes has a member without an
entry for another member.

`LastPutNeverBlocks` follows from the count: whoever has the inode locked has a
pointer to it, and `iput` has the only one. `NoThreadsWaitInACycle` is the
argument for the lock order that the code nowhere states: a process that waits
with a directory locked waits for an entry of it or for the inode it has just
made there, so a cycle of waits would be a cycle of entries. It does not
assume that path names have no "..", since `namex` has no lock when it goes up. The
cardinalities come from the library's theorems on finite sets (`Counting`), which
is why `Thread` has to be finite. `StepBase` and `StepSafe` have one step for each
action, and their helper facts inside of them, to keep the context of every
obligation small.

### The firmware

`TicketInv` says that one hart at a time is between the ticket and the
compare-and-swap of a target, and that the parameters of a target that is
`START_PENDING` are those of the call that made it so. `SyncInv` counts, with
FIFOs as sequences: a hart is named at most once at each target, in the FIFO or
among those the target still has to tell (`DistinctInv`), and a hart that is down
is named nowhere (`DownInv`), so that `tlb_sync` is a cardinality. `FenceInv`
adds that every target of a fence that has not executed it is still to be told
or has an entry that covers it, also after `tlb_range_check` has merged entries.
`FencesExecuted` assumes nothing about what the other harts ask for: it is about
requests that are `Plain`, a range that does not wrap around and is not the
`start = size = 0` for everything, whatever they are merged with (section 6 says
what happens to those that are not). `TypeCorrect`: with
`QueueInv` (a FIFO is within its bound; an entry, merged or not, has a type and an
asid that were asked for and a range that fits the word) the bounds of `tlb_sync`
follow from `SyncBalance`.

### Only model-checked

* The liveness properties `BeginOpReturns`, `InitReaps`, `ReadersSeeEOF`,
  `WritersSeeEPIPE` and `Settles`: the prover does not reason about fairness.
* `TypeOK`, `NoPanic` and `LinksCovered` of `FileSystem`. All three need that a
  link count covers the directory entries, which is a second count, over
  entries, and holds only without ".." in path names (section 6). In the proofs
  a link count is any integer.

## 6. Where the code disagrees with what it says

* `log_mkfs_size`: mkfs makes a log of `LOGSIZE` blocks including the header, so
  it holds one data block less than `begin_op` reserves and `param.h` documents;
  operations that write `MAXOPBLOCKS` blocks each can reach
  `panic("too big a transaction")`.
* `proc_kill_zero`: `kill(0)` finds an unused slot, whose pid is 0, and sets
  its `killed` flag; `allocproc` does not clear it, so the next process born in
  that slot is dead on arrival.
* `pipe_killed_writer`: a writer that put bytes into the pipe and is then
  killed returns without `wakeup(&pi->nread)`; a reader stays asleep in front of
  a pipe that is not empty.
* `fs_parent`: a removed directory keeps its `..` entry, but not the link that
  the entry stood for. When the parent is removed as well and freed, a process
  whose current directory is the child reaches `panic("ilock: no type")` by
  looking up `..`.
* `sbi_zero`: `start = size = 0` asks for a flush of everything, but
  `tlb_range_check` takes it for an empty range at 0. Queued at a target together
  with another hart's range that starts at 0, it is dropped or replaced by that
  range, and its call returns although the target has not executed it. The same
  comparison of `start + size` fails for a range that wraps around.

With the sizes of `param.h`, `bget` can run out of buffers: `NBUF` is `LOGSIZE`, 30,
the log can have 29 of them pinned until its group commits, and each of up to 64
processes may be between `bget` and `brelse`, those in `fileread` without the
`begin_op` that would limit their number. `panic("bget: no buffers")`
is thus reachable by load alone. `param.h` promises no more than a size, so this
is not a finding; the model has the panic, and what holds is that it comes only
then (`PanicsOnlyWhenFull`).

`writei` gives a buffer back without logging it when `either_copyin` fails, after
it may have copied a part of the data (`copyin` goes page by page): the cache
then has contents that the disk never gets, until the buffer is recycled.
`BufferCache` has that step; `Log` does not, as every change of its operations is
logged.

The model of the file system also shows that `iput` may leave an inode without
links allocated: it frees the inode, lets go of `itable.lock`, and does `ref--`
later; if the number is allocated, and its last link is gone again, in between, then
neither of the two `iput`s frees it. And what `create` makes in a directory
that was removed after `nameiparent` is lost together with that directory. No
property of the passing run says otherwise.

The firmware is right only for kernels that keep to what its code takes for
granted, and the assumptions of the proofs name it:

* start and suspend both write the start parameters of a hart before they look
  at its state, so a hart that others start and that suspends itself may resume
  at the wrong place (`CallAssumption`, which excludes it at all times and is
  stronger than needed: only calls that overlap do harm);
* a hart that stops while another one still has it in its mask never answers,
  and an interrupt that comes between the two writes of `sbi_ipi_init` is lost
  (`Quiesced`);
* with fewer FIFO entries than senders, one sender may find the FIFO full for
  ever while others keep calling;
* the interrupt of a sender that is late can keep a stopped hart in its loop
  around `wfi`, which costs time only.

The deadlock that the comment at `sbi_tlb.c:356` is afraid of ("Both hart may busy
loop leading to a deadlock") does not happen: a hart that finds a FIFO full works
on its own in the meantime, and `Settles` holds with FIFOs of one entry.

## 7. What is not modelled

* The data blocks of files (`balloc`, `bmap`, `itrunc`, `readi`, `writei`) and the
  offsets of shared files: block allocation is sequential under the lock of the
  inode and of the bitmap's buffer.
* A power failure below `FileSystem`: the transactions make each call atomic, so
  what a crash leaves is the state between two calls; an open file without
  links at that moment is never freed.
* Console and UART: one ring and one lock each, with the sleep and wakeup
  pattern of the pipe.
* Memory (`kalloc.c`, `vm.c`) and `exec`: error paths that are sequential and local
  to one call. Failures of `kalloc` in `fork` undo themselves under the lock of
  the new slot.
* The hand-over between harts at boot, and the RAM disk.
* Formatting and string functions, the register saving of the assembly files,
  mkfs apart from the size of the log, the user programs apart from the loop of
  `init`.
* Firmware: the cold boot, drivers and platform code, the console, timer, reset
  and PMU extensions, the halt event, platforms with an HSM device of their own.
  `StartIpi` is only reached when the interrupt can be sent, since the harts of the
  model have a device for it; the roll-back of a start after a failed one is left
  out. `HartSuspend` checks the state and changes it in one step: only the hart
  itself leaves `STARTED`.
* Errors that the disk reports: the driver panics on a status byte that is not 0,
  and the device of the model always succeeds.
