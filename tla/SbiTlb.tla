------------------------------- MODULE SbiTlb -------------------------------
(***************************************************************************)
(* Inter-processor interrupts and remote fences of the firmware,           *)
(* firmware/lib/sbi/sbi_ipi.c, sbi_tlb.c and sbi_fifo.c, on top of SbiHsm: *)
(* a hart queues a fence at each target, counts the queued ones in its own *)
(* tlb_sync and waits until the targets have counted them back.  A range   *)
(* may be merged into one that is already queued.  A critical section of   *)
(* the FIFO's lock, an atomic operation and a device write are each one    *)
(* step; a hart takes the M-mode trap only in S-mode.                      *)
(***************************************************************************)
EXTENDS SbiHsm, Sequences

CONSTANTS
    Entries,                    \* sbi_platform_tlb_fifo_num_entries()
    MaxWord, FlushLimit,        \* -1UL and tlb_range_flush_limit, in pages
    Fence,                      \* fences asked for: type, asid, start and size
    Fences, Notices, Starts, Suspends, Stops,  \* the calls that kernels make, as tuples
    MaxCalls                    \* bound: calls in a behaviour
ASSUME TlbAssumption ==
    /\ Entries \in Nat \ {0} /\ MaxWord \in Nat \ {0} /\ FlushLimit \in 0 .. MaxWord
    /\ Fence \subseteq [kind : STRING, asid : Nat, start : 0 .. MaxWord, size : 0 .. MaxWord]
    /\ Fences \subseteq Hart \X (SUBSET Hart) \X Fence /\ Notices \subseteq Hart \X (SUBSET Hart)
    /\ Starts \subseteq Hart \X Hart \X Addr /\ Stops \subseteq Hart
    /\ Suspends \subseteq Hart \X {"retentive", "nonretentive"} \X Addr
    /\ MaxCalls \in Nat

VARIABLES
    ipi_type, ssip,     \* pending events and the S-mode software interrupt of each hart
    fifo, tlb_sync,     \* FIFO of fences and count of outstanding ones
    mask, event, req,   \* target_mask, event and data of the call in progress
    cur, ret,           \* harts to tell that an entry was executed, and where to return to
    need,               \* history: targets that have not yet executed the request
    calls               \* number of calls so far

hsmData == <<hstate, ticket, next, arg, asked>>
tlbVars == <<ipi_type, ssip, fifo, tlb_sync, mask, event, req, cur, ret, need>>
vars == <<hsmVars, tlbVars, calls>>

FLUSH_ALL == MaxWord
Entry == [kind : {f.kind : f \in Fence}, asid : {f.asid : f \in Fence},
          start : 0 .. MaxWord, size : 0 .. MaxWord, smask : SUBSET Hart]
NoEntry == [kind |-> "none", asid |-> 0, start |-> 0, size |-> 0, smask |-> {}]

Init ==
    /\ HsmInit
    /\ ipi_type = [h \in Hart |-> {}] /\ ssip = [h \in Hart |-> 0]
    /\ fifo = [h \in Hart |-> <<>>] /\ tlb_sync = [h \in Hart |-> 0]
    /\ mask = [h \in Hart |-> {}] /\ event = [h \in Hart |-> "none"]
    /\ req = [h \in Hart |-> NoEntry] /\ cur = mask
    /\ ret = [h \in Hart |-> "smode"] /\ need = mask
    /\ calls = 0

(* The pages that executing an entry fences (the local handlers).          *)
Pages(e) ==
    IF (e.start = 0 /\ e.size = 0) \/ e.size = FLUSH_ALL \/ e.kind = "FENCE_I" THEN 0 .. MaxWord
    ELSE {(e.start + i) % (MaxWord + 1) : i \in 0 .. e.size - 1}

(* Executing e does what r asks for; an SFENCE_VMA is for every asid.      *)
Covers(e, r) ==
    /\ e.kind = r.kind /\ (r.kind = "SFENCE_VMA" \/ e.asid = r.asid)
    /\ Pages(r) \subseteq Pages(e)

(* History: hart h has executed e.                                         *)
Fenced(h, e) ==
    need' = [g \in Hart |-> IF Covers(e, req[g]) THEN need[g] \ {h} ELSE need[g]]

-----------------------------------------------------------------------------
End(e) == (e.start + e.size) % (MaxWord + 1)

(* tlb_range_check()                                                       *)
RangeCheck(c, n) ==
    IF n.start <= c.start /\ End(n) > End(c) THEN "UPDATED"
    ELSE IF n.start >= c.start /\ End(n) <= End(c) THEN "SKIP"
    ELSE "UNCHANGED"

(* tlb_update_cb(): two SFENCE_VMA may be merged, and two SFENCE_VMA_ASID  *)
(* of one asid; FENCE_I and the hypervisor's fences never are.             *)
UpdateCb(c, n) ==
    IF n.kind = c.kind /\ (n.kind = "SFENCE_VMA" \/ (n.kind = "SFENCE_VMA_ASID" /\ n.asid = c.asid))
    THEN RangeCheck(c, n)
    ELSE "UNCHANGED"

(* Mutant: the entry keeps its own range.                                  *)
MergedKeeps(c, n) == [c EXCEPT !.smask = @ \cup n.smask]

(* The entry after SBI_FIFO_UPDATED or SBI_FIFO_SKIP.                      *)
Merged(c, n) ==
    LET range == IF UpdateCb(c, n) = "UPDATED" THEN n ELSE c IN
    [kind |-> c.kind, asid |-> c.asid, start |-> range.start, size |-> range.size,
     smask |-> c.smask \cup n.smask]

Mergeable(q, n) == {i \in DOMAIN q : UpdateCb(q[i], n) # "UNCHANGED"}

-----------------------------------------------------------------------------
(* sbi_hsm_hart_interruptible_mask()                                       *)
Interruptible == {h \in Hart : hstate[h] \in {"STARTED", "SUSPENDED", "RESUME_PENDING"}}

(* sbi_ipi_send_many() up to the first target.  If a hart of the mask is   *)
(* not interruptible it returns SBI_EINVAL and has changed nothing.        *)
SendMany(h, T, ev, e) ==
    /\ At(h, "smode")
    /\ T # {} /\ T \subseteq Interruptible
    /\ mask' = Set(mask, h, T) /\ event' = Set(event, h, ev) /\ req' = Set(req, h, e)
    /\ need' = Set(need, h, IF ev = "TLB" THEN T ELSE {})
    /\ Go(h, "send")
    /\ UNCHANGED <<hsmData, msip, callee, ipi_type, ssip, fifo, tlb_sync, cur, ret>>

(* sbi_tlb_request(): a range that is too long becomes a full flush.       *)
TlbRequest(h, T, f) ==
    LET all == f.size > FlushLimit IN
    SendMany(h, T, "TLB", [kind |-> f.kind, asid |-> f.asid, start |-> IF all THEN 0 ELSE f.start,
                           size |-> IF all THEN FLUSH_ALL ELSE f.size, smask |-> {h}])

(* sbi_ipi_send_smode()                                                    *)
SendSmode(h, T) == SendMany(h, T, "SMODE", NoEntry)

(* sbi_ipi_send() to the hart itself.  The loop takes the targets by index *)
(* and again those to be retried; here they may be taken in any order.     *)
SendSelf(h) ==
    /\ At(h, "send") /\ h \in mask[h]
    /\ mask' = Set(mask, h, mask[h] \ {h})
    /\ IF event[h] = "TLB" THEN Fenced(h, req[h]) /\ UNCHANGED ssip
                           ELSE ssip' = Set(ssip, h, 1) /\ UNCHANGED need
    /\ UNCHANGED <<hsmVars, ipi_type, fifo, tlb_sync, event, req, cur, ret>>

(* sbi_ipi_send() to another hart: tlb_update() first tries to merge.      *)
InplaceUpdate(h) ==
    /\ At(h, "send")
    /\ \E t \in mask[h] \ {h} :
          /\ callee' = Set(callee, h, t)
          /\ LET m == Mergeable(fifo[t], req[h]) IN
             IF event[h] # "TLB" THEN Go(h, "set_type") /\ UNCHANGED fifo
             ELSE IF m = {} THEN Go(h, "enqueue") /\ UNCHANGED fifo
             ELSE /\ \E i \in m : /\ \A j \in m : i <= j
                                  /\ fifo' = [fifo EXCEPT ![t][i] = Merged(@, req[h])]
                  /\ Go(h, "count")
    /\ UNCHANGED <<hsmData, msip, ipi_type, ssip, tlb_sync, mask, event, req, cur, ret, need>>

(* Mutant: the FIFO's limit is off by one.                                 *)
EnqueueForce(h) ==
    /\ At(h, "enqueue")
    /\ LET t == callee[h] IN
       IF Len(fifo[t]) <= Entries
       THEN fifo' = Set(fifo, t, Append(fifo[t], req[h])) /\ Go(h, "count") /\ UNCHANGED callee
       ELSE Go(h, "full") /\ callee' = Set(callee, h, NoHart) /\ UNCHANGED fifo
    /\ UNCHANGED <<hsmData, msip, ipi_type, ssip, tlb_sync, mask, event, req, cur, ret, need>>

(* sbi_fifo_enqueue(); with a full FIFO the target is tried again.         *)
Enqueue(h) ==
    /\ At(h, "enqueue")
    /\ LET t == callee[h] IN
       IF Len(fifo[t]) < Entries
       THEN fifo' = Set(fifo, t, Append(fifo[t], req[h])) /\ Go(h, "count") /\ UNCHANGED callee
       ELSE Go(h, "full") /\ callee' = Set(callee, h, NoHart) /\ UNCHANGED fifo
    /\ UNCHANGED <<hsmData, msip, ipi_type, ssip, tlb_sync, mask, event, req, cur, ret, need>>

(* Mutant: the target is counted only if no hart waits for it already.     *)
CountTargetOnce(h) ==
    /\ At(h, "count")
    /\ tlb_sync' = Set(tlb_sync, h, IF tlb_sync[h] > 0 THEN tlb_sync[h] ELSE tlb_sync[h] + 1)
    /\ Go(h, "set_type")
    /\ UNCHANGED <<hsmData, msip, callee, ipi_type, ssip, fifo, mask, event, req, cur, ret, need>>

(* atomic_add_return(tlb_sync, 1)                                          *)
CountTarget(h) ==
    /\ At(h, "count")
    /\ tlb_sync' = Set(tlb_sync, h, tlb_sync[h] + 1)
    /\ Go(h, "set_type")
    /\ UNCHANGED <<hsmData, msip, callee, ipi_type, ssip, fifo, mask, event, req, cur, ret, need>>

(* Mutant: the events of other senders are overwritten.                    *)
SetTypeAssign(h) ==
    /\ At(h, "set_type")
    /\ LET t == callee[h] IN
       /\ ipi_type' = Set(ipi_type, t, {event[h]})
       /\ IF ipi_type[t] = {} THEN Go(h, "raise") /\ UNCHANGED <<callee, mask>>
          ELSE /\ Go(h, "send") /\ callee' = Set(callee, h, NoHart)
               /\ mask' = Set(mask, h, mask[h] \ {t})
    /\ UNCHANGED <<hsmData, msip, ssip, fifo, tlb_sync, event, req, cur, ret, need>>

(* __atomic_fetch_or(); only the first event raises the interrupt.         *)
SetType(h) ==
    /\ At(h, "set_type")
    /\ LET t == callee[h] IN
       /\ ipi_type' = Set(ipi_type, t, ipi_type[t] \cup {event[h]})
       /\ IF ipi_type[t] = {} THEN Go(h, "raise") /\ UNCHANGED <<callee, mask>>
          ELSE /\ Go(h, "send") /\ callee' = Set(callee, h, NoHart)
               /\ mask' = Set(mask, h, mask[h] \ {t})
    /\ UNCHANGED <<hsmData, msip, ssip, fifo, tlb_sync, event, req, cur, ret, need>>

(* sbi_ipi_raw_send()                                                      *)
RawSend(h) ==
    /\ At(h, "raise")
    /\ msip' = Set(msip, callee[h], 1)
    /\ mask' = Set(mask, h, mask[h] \ {callee[h]})
    /\ callee' = Set(callee, h, NoHart)
    /\ Go(h, "send")
    /\ UNCHANGED <<hsmData, ipi_type, ssip, fifo, tlb_sync, event, req, cur, ret, need>>

(* tlb_sync(), or nothing for the S-mode event, and return to the kernel.  *)
SyncDone(h) ==
    /\ At(h, "send") /\ mask[h] = {}
    /\ event[h] = "TLB" => tlb_sync[h] <= 0
    /\ event' = Set(event, h, "none") /\ req' = Set(req, h, NoEntry)
    /\ Go(h, "smode")
    /\ UNCHANGED <<hsmData, msip, callee, ipi_type, ssip, fifo, tlb_sync, mask, cur, ret, need>>

-----------------------------------------------------------------------------
(* Where a hart returns to once its FIFO needs no more attention.          *)
Back(h) == IF hstate[h] = "STOP_PENDING" THEN "hsm_exit" ELSE "smode"

(* Mutant: tlb_sync() does not serve the hart's own FIFO.                  *)
DequeueNotInSync(h) ==
    /\ \/ At(h, "full") /\ ret' = Set(ret, h, "send")
       \/ At(h, "tlb_process") /\ ret' = Set(ret, h, "tlb_process")
    /\ fifo[h] # <<>>
    /\ Fenced(h, Head(fifo[h]))
    /\ cur' = Set(cur, h, Head(fifo[h]).smask)
    /\ fifo' = Set(fifo, h, Tail(fifo[h]))
    /\ Go(h, "ack")
    /\ UNCHANGED <<hsmData, msip, callee, ipi_type, ssip, tlb_sync, mask, event, req>>

(* tlb_process_once(), called with a full target FIFO, in tlb_sync() and   *)
(* in tlb_process(): the entry is taken and executed, which only hart h    *)
(* sees, ...                                                               *)
Dequeue(h) ==
    /\ \/ At(h, "full") /\ ret' = Set(ret, h, "send")
       \/ At(h, "send") /\ mask[h] = {} /\ event[h] = "TLB" /\ tlb_sync[h] > 0
          /\ ret' = Set(ret, h, "send")
       \/ At(h, "tlb_process") /\ ret' = Set(ret, h, "tlb_process")
    /\ fifo[h] # <<>>
    /\ Fenced(h, Head(fifo[h]))
    /\ cur' = Set(cur, h, Head(fifo[h]).smask)
    /\ fifo' = Set(fifo, h, Tail(fifo[h]))
    /\ Go(h, "ack")
    /\ UNCHANGED <<hsmData, msip, callee, ipi_type, ssip, tlb_sync, mask, event, req>>

DequeueEmpty(h) ==
    /\ fifo[h] = <<>>
    /\ \/ At(h, "full") /\ Go(h, "send")
       \/ At(h, "tlb_process") /\ Go(h, Back(h))
    /\ UNCHANGED <<hsmData, msip, callee, tlbVars>>

(* ... and counted back at every hart that asked for it.                   *)
Acknowledge(h) ==
    /\ At(h, "ack")
    /\ \E g \in cur[h] :
          /\ tlb_sync' = Set(tlb_sync, g, tlb_sync[g] - 1)
          /\ cur' = Set(cur, h, cur[h] \ {g})
          /\ IF cur[h] = {g} THEN Go(h, ret[h]) /\ ret' = Set(ret, h, "smode")
                             ELSE UNCHANGED <<pc, ret>>
    /\ UNCHANGED <<hsmData, msip, callee, ipi_type, ssip, fifo, mask, event, req, need>>

-----------------------------------------------------------------------------
(* The M-mode software interrupt (sbi_trap_nonaia_irq()), and              *)
(* sbi_ipi_exit() of a stopping hart: sbi_ipi_process() clears the line    *)
(* before it takes the pending events.                                     *)
IpiTrap(h) ==
    /\ At(h, "smode") /\ msip[h] = 1
    /\ msip' = Set(msip, h, 0)
    /\ Go(h, "ipi_xchg")
    /\ UNCHANGED <<hsmData, callee, tlbVars>>

IpiExit(h) ==
    /\ At(h, "ipi_exit")
    /\ msip' = Set(msip, h, 0)
    /\ Go(h, "ipi_xchg")
    /\ UNCHANGED <<hsmData, callee, tlbVars>>

IpiProcess(h) ==
    /\ At(h, "ipi_xchg")
    /\ ipi_type' = Set(ipi_type, h, {})
    /\ ssip' = IF "SMODE" \in ipi_type[h] THEN Set(ssip, h, 1) ELSE ssip
    /\ Go(h, IF "TLB" \in ipi_type[h] THEN "tlb_process" ELSE Back(h))
    /\ UNCHANGED <<hsmData, msip, callee, fifo, tlb_sync, mask, event, req, cur, ret, need>>

(* The kernel's own handler clears the S-mode interrupt.                   *)
ClearSmode(h) ==
    /\ At(h, "smode") /\ ssip[h] = 1
    /\ ssip' = Set(ssip, h, 0)
    /\ UNCHANGED <<hsmVars, ipi_type, fifo, tlb_sync, mask, event, req, cur, ret, need>>

(* sbi_ipi_init() and sbi_tlb_init() of a hart that has been started: no   *)
(* other hart writes anything of it but the interrupt line.                *)
IpiTlbInit(h) ==
    /\ At(h, "ipi_init")
    /\ ipi_type' = Set(ipi_type, h, {}) /\ msip' = Set(msip, h, 0)
    /\ tlb_sync' = Set(tlb_sync, h, 0) /\ fifo' = Set(fifo, h, <<>>)
    /\ Go(h, "start_finish")
    /\ UNCHANGED <<hsmData, callee, ssip, mask, event, req, cur, ret, need>>

-----------------------------------------------------------------------------
(* A kernel stops a hart only when no other hart is sending to it: the     *)
(* code takes the mask of interruptible harts once and a hart that stops   *)
(* afterwards never answers.                                               *)
Quiesced(h) == fifo[h] = <<>> /\ \A g \in Hart : h \notin mask[g]

(* A kernel call.  No hart is both a target of a start and a hart that     *)
(* suspends itself: both calls write its scratch area, and the start does  *)
(* so before it knows the state.                                           *)
ASSUME CallAssumption == \A s \in Starts, u \in Suspends : s[2] # u[1]

Call ==
    /\ calls < MaxCalls
    /\ calls' = calls + 1
    /\ \/ \E c \in Fences : TlbRequest(c[1], c[2], c[3])
       \/ \E c \in Notices : SendSmode(c[1], c[2])
       \/ /\ \/ \E c \in Starts : HartStart(c[1], c[2], c[3])
             \/ \E c \in Suspends : HartSuspend(c[1], c[2], c[3])
             \/ \E h \in Stops : Quiesced(h) /\ HartStop(h)
          /\ UNCHANGED tlbVars

IpiStep(h) ==
    \/ SendSelf(h) \/ InplaceUpdate(h) \/ Enqueue(h) \/ CountTarget(h) \/ SetType(h) \/ RawSend(h)
    \/ SyncDone(h) \/ Dequeue(h) \/ DequeueEmpty(h) \/ Acknowledge(h)
    \/ IpiExit(h) \/ IpiProcess(h) \/ IpiTlbInit(h)

(* The firmware's own steps on hart h.                                     *)
Firmware(h) == IpiStep(h) \/ (HsmStep(h) /\ UNCHANGED tlbVars)

Next ==
    \/ Call
    \/ UNCHANGED calls /\ \E h \in Hart : Firmware(h) \/ IpiTrap(h) \/ ClearSmode(h)

Spec == Init /\ [][Next]_vars

(* A hart executes the firmware, an interrupt that is pending is taken and *)
(* ends a wfi(); the kernel need not call anything.                        *)
Awake(h) == pc[h] \in {"wfi", "retentive", "nonretentive"} => msip[h] = 1
Fairness ==
    \A h \in Hart : /\ WF_vars(Awake(h) /\ Firmware(h) /\ UNCHANGED calls)
                    /\ WF_vars(IpiTrap(h) /\ UNCHANGED calls)
LiveSpec == Spec /\ Fairness

-----------------------------------------------------------------------------
TlbPC == {"send", "enqueue", "full", "count", "set_type", "raise", "ack",
          "tlb_process", "ipi_xchg"}

(* Every variable has its type and no FIFO overflows.                      *)
TypeOK ==
    /\ hstate \in [Hart -> {"STARTED", "STOPPED", "START_PENDING", "STOP_PENDING", "SUSPENDED",
                            "RESUME_PENDING"}]
    /\ ticket \in [Hart -> 0 .. 1] /\ msip \in [Hart -> 0 .. 1] /\ ssip \in [Hart -> 0 .. 1]
    /\ next \in [Hart -> Addr] /\ arg \in [Hart -> Addr] /\ asked \in [Hart -> Addr]
    /\ pc \in [Hart -> HsmPC \cup TlbPC] /\ callee \in [Hart -> Hart \cup {NoHart}]
    /\ ipi_type \in [Hart -> SUBSET {"SMODE", "TLB"}] /\ event \in [Hart -> {"none", "SMODE", "TLB"}]
    /\ \A h \in Hart : Len(fifo[h]) <= Entries /\ \A i \in DOMAIN fifo[h] : fifo[h][i] \in Entry
    /\ tlb_sync \in [Hart -> -1 .. Cardinality(Hart)]
    /\ mask \in [Hart -> SUBSET Hart] /\ need \in [Hart -> SUBSET Hart]
    /\ req \in [Hart -> Entry \cup {NoEntry}] /\ cur \in [Hart -> SUBSET Hart]
    /\ ret \in [Hart -> {"smode", "send", "tlb_process"}]

(* sbi_tlb_request() of hart h is about to return.                         *)
Returning(h) == pc[h] = "send" /\ mask[h] = {} /\ event[h] = "TLB" /\ tlb_sync[h] <= 0

(* tlb_range_check() compares the ends of two ranges, start + size: it is  *)
(* right about ranges that do not wrap around and are not the flush-all    *)
(* request start = size = 0, which it takes for an empty range.            *)
Plain(e) ==
    e.kind \in {"SFENCE_VMA", "SFENCE_VMA_ASID"} =>
        e.start + e.size <= MaxWord /\ ~(e.start = 0 /\ e.size = 0)

(* A remote fence has been executed when the call returns: every target    *)
(* has, since the call began, fenced at least the range asked for, whether *)
(* the request was queued, merged into another hart's or dropped in favour *)
(* of one, and whatever ranges the other harts ask for.                    *)
FenceDone == \A h \in Hart : Returning(h) /\ Plain(req[h]) => need[h] = {}

(* What tlb_update_cb()'s comment says of every request: it is skipped     *)
(* only if its range lies within the entry's, and an entry is replaced     *)
(* only if it lies within the request's; so each of them is executed.      *)
EveryFenceDone == \A h \in Hart : Returning(h) => need[h] = {}

(* tlb_sync counts the targets at which an entry, queued or being          *)
(* executed, names the hart, but for the one that it has queued and not    *)
(* yet counted: it may be -1 if that one is executed first.                *)
Named(t) == cur[t] \cup UNION {fifo[t][i].smask : i \in DOMAIN fifo[t]}
Owed(h) == {t \in Hart : h \in Named(t)}
SyncBalance ==
    \A h \in Hart :
        Cardinality(Owed(h)) = tlb_sync[h] + (IF pc[h] = "count" THEN 1 ELSE 0)

(* No event is stranded: a hart with a pending event has its interrupt     *)
(* raised, is about to take the event, or has a sender about to raise the  *)
(* interrupt; a hart with a queued fence has the event pending, is         *)
(* emptying its FIFO, or has its sender on the way to set the event.       *)
Draining(h) == pc[h] = "tlb_process" \/ ret[h] = "tlb_process"
EventsDelivered ==
    \A h \in Hart :
        /\ ipi_type[h] # {} => \/ msip[h] = 1 \/ pc[h] = "ipi_xchg"
                               \/ \E g \in Hart : pc[g] = "raise" /\ callee[g] = h
        /\ fifo[h] # <<>> => \/ "TLB" \in ipi_type[h] \/ Draining(h)
                             \/ \E g \in Hart : /\ pc[g] \in {"count", "set_type"}
                                                /\ callee[g] = h /\ event[g] = "TLB"

(* Nobody waits for ever: once the kernels make no new calls every call    *)
(* returns, although harts may be sending to one another with full FIFOs,  *)
(* every hart that was started runs, its interrupt not lost between the    *)
(* test of the state and wfi(), and every event has been delivered.        *)
Settled ==
    \A h \in Hart :
        /\ pc[h] \in {"smode", "wait", "wfi", "retentive", "nonretentive"}
        /\ hstate[h] # "START_PENDING"
        /\ ipi_type[h] = {} /\ fifo[h] = <<>>
Settles == <>[]Settled
=============================================================================
