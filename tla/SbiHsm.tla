------------------------------- MODULE SbiHsm -------------------------------
(***************************************************************************)
(* Hart state management of the firmware, firmware/lib/sbi/sbi_hsm.c, with *)
(* the warm boot path of sbi_init.c: harts start, stop and suspend one     *)
(* another and themselves by compare-and-swap on the state, a start        *)
(* ticket, the scratch area of the target and an inter-processor           *)
(* interrupt.  The platform has no HSM device of its own (QEMU's virt      *)
(* machine), so a stopped hart waits in sbi_hsm_hart_wait().  A step is    *)
(* one access to memory that harts share.                                  *)
(***************************************************************************)
EXTENDS Integers, FiniteSets

CONSTANTS
    Hart, NoHart,
    Booted,       \* harts that run the kernel already: the cold boot hart at least
    Addr,         \* start and resume addresses, each with its argument and mode
    BootAddr      \* what the cold boot leaves in every scratch area
ASSUME HartAssumption ==
    IsFiniteSet(Hart) /\ Booted \subseteq Hart /\ NoHart \notin Hart /\ BootAddr \in Addr

VARIABLES
    hstate, ticket,     \* sbi_hsm_data.state and .start_ticket of each hart
    next,               \* scratch->next_addr, next_arg1 and next_mode
    msip,               \* the hart's software interrupt line
    pc,                 \* where each hart is; "smode" is outside of the firmware
    callee, arg,        \* target and address of the hart's call
    asked               \* history: what the call that made a hart START_PENDING asked for

hsmVars == <<hstate, ticket, next, msip, pc, callee, arg, asked>>

HsmPC == {"smode", "start_args", "start_cas", "start_ipi", "start_err", "ipi_exit", "hsm_exit",
          "warmboot", "wait", "wfi", "ipi_init", "start_finish", "start_read",
          "retentive", "nonretentive", "resume"}

(* After the cold boot: some harts run the kernel and the others wait in   *)
(* sbi_hsm_hart_wait().                                                    *)
HsmInit ==
    \E up \in SUBSET Hart :
        /\ Booted \subseteq up
        /\ hstate = [h \in Hart |-> IF h \in up THEN "STARTED" ELSE "STOPPED"]
        /\ pc = [h \in Hart |-> IF h \in up THEN "smode" ELSE "wfi"]
        /\ next = [h \in Hart |-> BootAddr] /\ arg = next /\ asked = next
        /\ ticket = [h \in Hart |-> 0] /\ msip = [h \in Hart |-> 0]
        /\ callee = [h \in Hart |-> NoHart]

At(h, l) == pc[h] = l
Go(h, l) == pc' = [pc EXCEPT ![h] = l]
Set(f, h, v) == [f EXCEPT ![h] = v]

(* __sbi_hsm_hart_change_state(); sbi_hart_hang() if it fails.             *)
ChangeState(h, old, new) == hstate[h] = old /\ hstate' = Set(hstate, h, new)

-----------------------------------------------------------------------------
(* Mutant: the ticket is not tested.                                       *)
HartStartNoTicket(h, t, a) ==
    /\ At(h, "smode")
    /\ ticket' = Set(ticket, t, 1)
    /\ callee' = Set(callee, h, t) /\ arg' = Set(arg, h, a)
    /\ Go(h, "start_args")
    /\ UNCHANGED <<hstate, next, msip, asked>>

(* sbi_hsm_hart_start() up to hsm_start_ticket_acquire(); without the      *)
(* ticket it returns SBI_EINVAL and has changed nothing.                   *)
HartStart(h, t, a) ==
    /\ At(h, "smode")
    /\ ticket[t] = 0
    /\ ticket' = Set(ticket, t, 1)
    /\ callee' = Set(callee, h, t) /\ arg' = Set(arg, h, a)
    /\ Go(h, "start_args")
    /\ UNCHANGED <<hstate, next, msip, asked>>

(* The start parameters, written before the state of the hart is known.    *)
StartArgs(h) ==
    /\ At(h, "start_args")
    /\ next' = Set(next, callee[h], arg[h])
    /\ Go(h, "start_cas")
    /\ UNCHANGED <<hstate, ticket, msip, callee, arg, asked>>

StartCas(h) ==
    /\ At(h, "start_cas")
    /\ \/ /\ ChangeState(callee[h], "STOPPED", "START_PENDING")
          /\ asked' = Set(asked, callee[h], arg[h])
          /\ Go(h, "start_ipi")
       \/ /\ hstate[callee[h]] # "STOPPED"
          /\ Go(h, "start_err")
          /\ UNCHANGED <<hstate, asked>>
    /\ UNCHANGED <<ticket, next, msip, callee, arg>>

(* sbi_ipi_raw_send() and return; the ticket is left to the target.  It    *)
(* fails only on a platform without an IPI device, which is left out, and  *)
(* so is a device that starts harts: nothing is rolled back.               *)
StartIpi(h) ==
    /\ At(h, "start_ipi")
    /\ msip' = Set(msip, callee[h], 1)
    /\ callee' = Set(callee, h, NoHart)
    /\ Go(h, "smode")
    /\ UNCHANGED <<hstate, ticket, next, arg, asked>>

(* hsm_start_ticket_release(), SBI_EALREADY or SBI_EINVAL.                 *)
StartErr(h) ==
    /\ At(h, "start_err")
    /\ ticket' = Set(ticket, callee[h], 0)
    /\ callee' = Set(callee, h, NoHart)
    /\ Go(h, "smode")
    /\ UNCHANGED <<hstate, next, msip, arg, asked>>

-----------------------------------------------------------------------------
(* sbi_hsm_hart_stop(), up to sbi_ipi_exit() in sbi_exit().                *)
HartStop(h) ==
    /\ At(h, "smode")
    /\ ChangeState(h, "STARTED", "STOP_PENDING")
    /\ Go(h, "ipi_exit")
    /\ UNCHANGED <<ticket, next, msip, callee, arg, asked>>

(* sbi_hsm_exit(): then straight to the warm boot path.                    *)
HsmExit(h) ==
    /\ At(h, "hsm_exit")
    /\ ChangeState(h, "STOP_PENDING", "STOPPED")
    /\ Go(h, "warmboot")
    /\ UNCHANGED <<ticket, next, msip, callee, arg, asked>>

(* init_warmboot() for a hart that is not suspended.                       *)
Warmboot(h) ==
    /\ At(h, "warmboot") /\ hstate[h] # "SUSPENDED"
    /\ msip' = Set(msip, h, 0)
    /\ Go(h, "wait")
    /\ UNCHANGED <<hstate, ticket, next, callee, arg, asked>>

(* sbi_hsm_hart_wait(): the test, and wfi(), which may end for any reason. *)
HartWait(h) ==
    /\ At(h, "wait")
    /\ Go(h, IF hstate[h] = "START_PENDING" THEN "ipi_init" ELSE "wfi")
    /\ UNCHANGED <<hstate, ticket, next, msip, callee, arg, asked>>

Wfi(h) ==
    /\ At(h, "wfi")
    /\ Go(h, "wait")
    /\ UNCHANGED <<hstate, ticket, next, msip, callee, arg, asked>>

(* sbi_hsm_hart_start_finish(), the change of state.                       *)
StartFinish(h) ==
    /\ At(h, "start_finish")
    /\ ChangeState(h, "START_PENDING", "STARTED")
    /\ Go(h, "start_read")
    /\ UNCHANGED <<ticket, next, msip, callee, arg, asked>>

(* It reads the start parameters, releases the ticket and jumps.           *)
StartJump(h) ==
    /\ At(h, "start_read")
    /\ ticket' = Set(ticket, h, 0)
    /\ Go(h, "smode")
    /\ UNCHANGED <<hstate, next, msip, callee, arg, asked>>

-----------------------------------------------------------------------------
(* sbi_hsm_hart_suspend(): the resume address is saved, STARTED becomes    *)
(* SUSPENDED, then wfi() in __sbi_hsm_suspend_default().  Two steps of the *)
(* code are one here: of a hart that nobody starts, only the hart itself   *)
(* reads or writes next, and only it changes the state from STARTED.       *)
HartSuspend(h, l, a) ==
    /\ At(h, "smode")
    /\ next' = Set(next, h, a)
    /\ ChangeState(h, "STARTED", "SUSPENDED")
    /\ Go(h, l)
    /\ UNCHANGED <<ticket, msip, callee, arg, asked>>

(* Any interrupt ends a retentive suspend, which returns to its caller ... *)
Resume(h) ==
    /\ At(h, "retentive")
    /\ ChangeState(h, "SUSPENDED", "STARTED")
    /\ Go(h, "smode")
    /\ UNCHANGED <<ticket, next, msip, callee, arg, asked>>

(* ... and a non-retentive one goes through the warm boot path.            *)
NonRetWake(h) ==
    /\ At(h, "nonretentive")
    /\ Go(h, "warmboot")
    /\ UNCHANGED <<hstate, ticket, next, msip, callee, arg, asked>>

(* init_warm_resume() with sbi_hsm_hart_resume_start() ...                 *)
ResumeStart(h) ==
    /\ At(h, "warmboot")
    /\ ChangeState(h, "SUSPENDED", "RESUME_PENDING")
    /\ Go(h, "resume")
    /\ UNCHANGED <<ticket, next, msip, callee, arg, asked>>

(* ... and sbi_hsm_hart_resume_finish(), which jumps to next.              *)
ResumeFinish(h) ==
    /\ At(h, "resume")
    /\ ChangeState(h, "RESUME_PENDING", "STARTED")
    /\ Go(h, "smode")
    /\ UNCHANGED <<ticket, next, msip, callee, arg, asked>>

(* The code that a hart executes until it is back in the kernel.           *)
HsmStep(h) ==
    \/ StartArgs(h) \/ StartCas(h) \/ StartIpi(h) \/ StartErr(h)
    \/ HsmExit(h) \/ Warmboot(h) \/ HartWait(h) \/ Wfi(h) \/ StartFinish(h) \/ StartJump(h)
    \/ Resume(h) \/ NonRetWake(h) \/ ResumeStart(h) \/ ResumeFinish(h)

-----------------------------------------------------------------------------
(* A hart starts where the one successful sbi_hart_start() asked it to:    *)
(* from START_PENDING until the hart has read them, no other call, however *)
(* it interleaves, replaces the start parameters.                          *)
StartsWhereAsked ==
    \A h \in Hart : hstate[h] = "START_PENDING" \/ pc[h] = "start_read" => next[h] = asked[h]
=============================================================================
