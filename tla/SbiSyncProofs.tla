---------------------------- MODULE SbiSyncProofs ---------------------------
(***************************************************************************)
(* The start ticket of sbi_hsm.c protects the start parameters, and        *)
(* tlb_sync counts what a hart waits for: for any number of harts, any     *)
(* FIFO size and any calls that CallAssumption admits in which a hart      *)
(* stops only when nobody is sending to it.                                *)
(***************************************************************************)
EXTENDS SbiTlb, SequenceTheorems, FiniteSetTheorems, TLAPS

HState == {"STARTED", "STOPPED", "START_PENDING", "STOP_PENDING", "SUSPENDED", "RESUME_PENDING"}
Label == HsmPC \cup TlbPC
Kind == {f.kind : f \in Fence} \cup {"none"}
Info == [kind : Kind, asid : Nat, start : 0 .. MaxWord, size : 0 .. MaxWord, smask : SUBSET Hart]

HsmTypes ==
    /\ hstate \in [Hart -> HState] /\ ticket \in [Hart -> 0 .. 1] /\ msip \in [Hart -> 0 .. 1]
    /\ next \in [Hart -> Addr] /\ arg \in [Hart -> Addr] /\ asked \in [Hart -> Addr]
    /\ pc \in [Hart -> Label] /\ callee \in [Hart -> Hart \cup {NoHart}]

TlbTypes ==
    /\ ipi_type \in [Hart -> SUBSET {"SMODE", "TLB"}] /\ ssip \in [Hart -> 0 .. 1]
    /\ event \in [Hart -> {"none", "SMODE", "TLB"}]
    /\ fifo \in [Hart -> Seq(Info)] /\ tlb_sync \in [Hart -> Int]
    /\ mask \in [Hart -> SUBSET Hart] /\ need \in [Hart -> SUBSET Hart]
    /\ req \in [Hart -> Info] /\ cur \in [Hart -> SUBSET Hart]
    /\ ret \in [Hart -> {"smode", "send", "tlb_process"}]

Types == HsmTypes /\ TlbTypes

(* A hart inside sbi_hsm_hart_start() that holds the ticket of hart t.     *)
StartCode == {"start_args", "start_cas", "start_ipi", "start_err"}
Starter(g, t) == pc[g] \in {"start_args", "start_cas", "start_err"} /\ callee[g] = t

TicketInv ==
    /\ \A g \in Hart : pc[g] \in StartCode =>
          callee[g] \in Hart /\ \E s \in Starts : s[2] = callee[g]
    /\ \A g, t \in Hart : Starter(g, t) =>
          ticket[t] = 1 /\ hstate[t] # "START_PENDING" /\ pc[t] # "start_read"
    /\ \A g, k, t \in Hart : Starter(g, t) /\ Starter(k, t) => g = k
    /\ \A t \in Hart : hstate[t] = "START_PENDING" \/ pc[t] = "start_read" =>
          ticket[t] = 1 /\ next[t] = asked[t]
    /\ \A t \in Hart : pc[t] = "start_read" => hstate[t] = "STARTED"
    /\ \A g \in Hart : pc[g] = "start_cas" => next[callee[g]] = arg[g]

(* A hart inside sbi_ipi_send_many(), and what it keeps meanwhile.         *)
Targeting == {"enqueue", "count", "set_type", "raise"}
InSend(h) == pc[h] \in Targeting \cup {"send", "full"} \/ (pc[h] = "ack" /\ ret[h] = "send")

SendInv ==
    \A h \in Hart :
        /\ pc[h] \in Targeting => callee[h] \in mask[h] \ {h}
        /\ pc[h] \in {"enqueue", "full", "count"} => event[h] = "TLB"
        /\ InSend(h) => event[h] # "none"
        /\ ~InSend(h) => mask[h] = {} /\ event[h] = "none"
        /\ IF pc[h] = "ack" THEN ret[h] # "smode" ELSE ret[h] = "smode" /\ cur[h] = {}

Base == Types /\ SendInv /\ TicketInv

-----------------------------------------------------------------------------
LEMMA NoEntryInfo == NoEntry \in Info
<1>1. "none" \in Kind
  BY Zenon DEF Kind
<1>2. 0 \in 0 .. MaxWord
  BY TlbAssumption
<1>3. 0 \in Nat /\ {} \in SUBSET Hart
  BY Zenon
<1> QED
  BY Zenon, <1>1, <1>2, <1>3 DEF NoEntry, Info

LEMMA InitBase == Init => Base
<1> SUFFICES ASSUME Init PROVE Base
  BY Zenon
<1>1. HsmTypes
  BY HartAssumption DEF Init, HsmInit, HsmTypes, HState, Label, HsmPC
<1>2. TlbTypes
  <2>1. fifo \in [Hart -> Seq(Info)]
    BY DEF Init
  <2> QED
    BY <2>1, NoEntryInfo DEF Init, TlbTypes
<1>3. \A h \in Hart : pc[h] \in {"smode", "wfi"} /\ hstate[h] \in {"STARTED", "STOPPED"}
  BY Zenon DEF Init, HsmInit
<1>4. TicketInv
  BY Zenon, <1>3 DEF TicketInv, Starter, StartCode
<1>5. SendInv
  BY Zenon, <1>3 DEF SendInv, InSend, Targeting, Init, NoEntry
<1> QED
  BY Zenon, <1>1, <1>2, <1>4, <1>5 DEF Base, Types

-----------------------------------------------------------------------------
(* Types, one step at a time.                                              *)
LEMMA HsmStepTypes ==
    ASSUME HsmTypes, TicketInv, NEW h \in Hart, HsmStep(h)
    PROVE  HsmTypes'
<1> USE DEF HsmTypes, HState, Label, HsmPC, At, Go, Set, ChangeState
<1>0. pc[h] \in StartCode => callee[h] \in Hart
  BY Zenon DEF TicketInv
<1>1. CASE StartArgs(h)
  BY Zenon, <1>0, <1>1 DEF StartArgs, StartCode
<1>2. CASE StartCas(h)
  BY <1>0, <1>2 DEF StartCas, StartCode
<1>3. CASE StartIpi(h)
  BY <1>0, <1>3 DEF StartIpi, StartCode
<1>4. CASE StartErr(h)
  BY <1>0, <1>4 DEF StartErr, StartCode
<1>5. CASE HsmExit(h) \/ Warmboot(h) \/ HartWait(h) \/ Wfi(h)
  BY <1>5 DEF HsmExit, Warmboot, HartWait, Wfi
<1>6. CASE StartFinish(h) \/ StartJump(h)
  BY <1>6 DEF StartFinish, StartJump
<1>7. CASE Resume(h) \/ NonRetWake(h) \/ ResumeStart(h) \/ ResumeFinish(h)
  BY Zenon, <1>7 DEF Resume, NonRetWake, ResumeStart, ResumeFinish
<1> QED
  BY Zenon, <1>1, <1>2, <1>3, <1>4, <1>5, <1>6, <1>7 DEF HsmStep

LEMMA CallTypes ==
    ASSUME Types, Call
    PROVE  Types'
<1> USE DEF Types, HsmTypes, TlbTypes, HState, Label, HsmPC, TlbPC, At, Go, Set, ChangeState
<1>1. ASSUME NEW h \in Hart, NEW T \in SUBSET Hart, NEW ev \in {"SMODE", "TLB"}, NEW e \in Info,
             SendMany(h, T, ev, e)
      PROVE  Types'
  BY Zenon, <1>1 DEF SendMany, hsmData
<1>2. ASSUME NEW c \in Fences, TlbRequest(c[1], c[2], c[3]) PROVE Types'
  <2>1. c[1] \in Hart /\ c[2] \in SUBSET Hart /\ c[3] \in Fence
    BY TlbAssumption
  <2>2. c[3].kind \in Kind /\ c[3].asid \in Nat /\ c[3].start \in 0 .. MaxWord
        /\ c[3].size \in 0 .. MaxWord
    BY Zenon, <2>1, TlbAssumption DEF Kind
  <2> DEFINE all == c[3].size > FlushLimit
             e == [kind |-> c[3].kind, asid |-> c[3].asid, start |-> IF all THEN 0 ELSE c[3].start,
                   size |-> IF all THEN FLUSH_ALL ELSE c[3].size, smask |-> {c[1]}]
  <2>3. FLUSH_ALL \in 0 .. MaxWord /\ 0 \in 0 .. MaxWord
    BY TlbAssumption DEF FLUSH_ALL
  <2>4. (IF all THEN 0 ELSE c[3].start) \in 0 .. MaxWord
        /\ (IF all THEN FLUSH_ALL ELSE c[3].size) \in 0 .. MaxWord
    BY Zenon, <2>2, <2>3
  <2>5. e \in Info
    BY <2>1, <2>2, <2>4 DEF Info
  <2>6. SendMany(c[1], c[2], "TLB", e)
    BY Zenon, <1>2 DEF TlbRequest
  <2> QED
    BY Zenon, <1>1, <2>1, <2>5, <2>6
<1>3. ASSUME NEW c \in Notices, SendSmode(c[1], c[2]) PROVE Types'
  BY ZenonT(30), <1>1, <1>3, NoEntryInfo, TlbAssumption DEF SendSmode
<1>4. ASSUME NEW c \in Starts, HartStart(c[1], c[2], c[3]), UNCHANGED tlbVars PROVE Types'
  <2>1. c[1] \in Hart /\ c[2] \in Hart /\ c[3] \in Addr
    BY TlbAssumption
  <2> QED
    BY <1>4, <2>1 DEF HartStart, tlbVars
<1>5. ASSUME NEW c \in Suspends, HartSuspend(c[1], c[2], c[3]), UNCHANGED tlbVars PROVE Types'
  <2>1. c[1] \in Hart /\ c[2] \in {"retentive", "nonretentive"} /\ c[3] \in Addr
    BY TlbAssumption
  <2> QED
    BY Zenon, <1>5, <2>1 DEF HartSuspend, tlbVars
<1>6. ASSUME NEW h \in Stops, HartStop(h), UNCHANGED tlbVars PROVE Types'
  BY Zenon, <1>6, TlbAssumption DEF HartStop, tlbVars
<1> QED
  BY Zenon, <1>2, <1>3, <1>4, <1>5, <1>6 DEF Call

LEMMA MergedInfo ==
    ASSUME NEW c \in Info, NEW n \in Info
    PROVE  Merged(c, n) \in Info /\ Merged(c, n).smask = c.smask \cup n.smask
  BY Zenon DEF Merged, Info

(* What InplaceUpdate(h) does with target t.                               *)
Merges(h, t) ==
    \E i \in DOMAIN fifo[t] :
        /\ UpdateCb(fifo[t][i], req[h]) # "UNCHANGED"
        /\ fifo' = [fifo EXCEPT ![t] = [fifo[t] EXCEPT ![i] = Merged(fifo[t][i], req[h])]]

LEMMA InplaceCases ==
    ASSUME Types, NEW h \in Hart, InplaceUpdate(h)
    PROVE  \E t \in mask[h] \ {h} :
              /\ callee' = [callee EXCEPT ![h] = t]
              /\ \/ event[h] # "TLB" /\ Go(h, "set_type") /\ UNCHANGED fifo
                 \/ event[h] = "TLB" /\ Go(h, "enqueue") /\ UNCHANGED fifo
                 \/ event[h] = "TLB" /\ Go(h, "count") /\ Merges(h, t)
<1>1. PICK t \in mask[h] \ {h} :
        /\ callee' = [callee EXCEPT ![h] = t]
        /\ LET m == Mergeable(fifo[t], req[h]) IN
           IF event[h] # "TLB" THEN Go(h, "set_type") /\ UNCHANGED fifo
           ELSE IF m = {} THEN Go(h, "enqueue") /\ UNCHANGED fifo
           ELSE /\ \E i \in m : fifo' = [fifo EXCEPT ![t][i] = Merged(@, req[h])]
                /\ Go(h, "count")
  BY Zenon DEF InplaceUpdate, Set
<1>2. t \in Hart
  BY Zenon DEF Types, TlbTypes
<1>3. ASSUME NEW i \in Mergeable(fifo[t], req[h]),
             fifo' = [fifo EXCEPT ![t][i] = Merged(@, req[h])]
      PROVE  Merges(h, t)
  BY Zenon, <1>2, <1>3 DEF Merges, Mergeable, Types, TlbTypes
<1> QED
  BY Zenon, <1>1, <1>3

LEMMA IpiStepTypes ==
    ASSUME Types, SendInv, NEW h \in Hart, IpiStep(h) \/ IpiTrap(h) \/ ClearSmode(h)
    PROVE  Types'
<1> USE DEF Types, HsmTypes, TlbTypes, HState, Label, HsmPC, TlbPC, At, Go, Set
<1>0. pc[h] \in Targeting => callee[h] \in Hart
  BY Zenon DEF SendInv
<1>e. ASSUME NEW e PROVE Fenced(h, e) => need' \in [Hart -> SUBSET Hart]
  BY DEF Fenced
<1>1. CASE SendSelf(h)
  BY <1>1, <1>e DEF SendSelf, hsmVars
<1>2. CASE InplaceUpdate(h)
  <2>1. PICK t \in mask[h] \ {h} :
          /\ callee' = [callee EXCEPT ![h] = t]
          /\ \/ Go(h, "set_type") /\ UNCHANGED fifo
             \/ Go(h, "enqueue") /\ UNCHANGED fifo
             \/ Go(h, "count") /\ Merges(h, t)
    BY Zenon, <1>2, InplaceCases
  <2>2. fifo' \in [Hart -> Seq(Info)]
    <3>1. CASE UNCHANGED fifo
      BY Zenon, <3>1
    <3>2. CASE Merges(h, t)
      <4>1. PICK i \in DOMAIN fifo[t] :
              fifo' = [fifo EXCEPT ![t] = [fifo[t] EXCEPT ![i] = Merged(fifo[t][i], req[h])]]
        BY Zenon, <3>2 DEF Merges
      <4>2. fifo[t] \in Seq(Info) /\ i \in 1 .. Len(fifo[t]) /\ req[h] \in Info
        BY Zenon, LenProperties
      <4>3. Merged(fifo[t][i], req[h]) \in Info
        BY Zenon, <4>2, MergedInfo, ElementOfSeq
      <4>4. [fifo[t] EXCEPT ![i] = Merged(fifo[t][i], req[h])] \in Seq(Info)
        BY Zenon, <4>2, <4>3, ExceptSeq
      <4> QED
        BY Zenon, <4>1, <4>4
    <3> QED
      BY Zenon, <2>1, <3>1, <3>2
  <2>3. pc' \in [Hart -> Label] /\ callee' \in [Hart -> Hart \cup {NoHart}]
    BY Zenon, <2>1
  <2> QED
    BY Zenon, <1>2, <2>2, <2>3 DEF InplaceUpdate, hsmData
<1>3. CASE Enqueue(h)
  <2>1. fifo' \in [Hart -> Seq(Info)]
    <3>1. fifo[callee[h]] \in Seq(Info) /\ req[h] \in Info
      BY Zenon, <1>3, <1>0 DEF Enqueue, Targeting
    <3>2. Append(fifo[callee[h]], req[h]) \in Seq(Info)
      BY Zenon, <3>1, AppendProperties
    <3>3. \/ UNCHANGED fifo
          \/ fifo' = [fifo EXCEPT ![callee[h]] = Append(fifo[callee[h]], req[h])]
      BY Zenon, <1>3 DEF Enqueue
    <3> QED
      BY Zenon, <3>2, <3>3
  <2>2. pc' \in [Hart -> Label] /\ callee' \in [Hart -> Hart \cup {NoHart}]
    BY Zenon, <1>3 DEF Enqueue
  <2> QED
    BY Zenon, <1>3, <2>1, <2>2 DEF Enqueue, hsmData
<1>4. CASE CountTarget(h)
  BY <1>4 DEF CountTarget, hsmData
<1>5. CASE SetType(h)
  <2>1. callee[h] \in Hart /\ event[h] \in {"SMODE", "TLB"}
    BY Zenon, <1>5, <1>0 DEF SetType, SendInv, InSend, Targeting
  <2>2. ipi_type' = [ipi_type EXCEPT ![callee[h]] = ipi_type[callee[h]] \cup {event[h]}]
    BY Zenon, <1>5 DEF SetType
  <2>3. ipi_type' \in [Hart -> SUBSET {"SMODE", "TLB"}]
    BY Zenon, <2>1, <2>2
  <2>4. pc' \in [Hart -> Label] /\ callee' \in [Hart -> Hart \cup {NoHart}]
        /\ mask' \in [Hart -> SUBSET Hart]
    <3>1. CASE ipi_type[callee[h]] = {}
      BY ZenonT(30), <1>5, <3>1 DEF SetType
    <3>2. CASE ipi_type[callee[h]] # {}
      <4>1. /\ pc' = [pc EXCEPT ![h] = "send"] /\ callee' = [callee EXCEPT ![h] = NoHart]
            /\ mask' = [mask EXCEPT ![h] = mask[h] \ {callee[h]}]
        BY Zenon, <1>5, <3>2 DEF SetType
      <4> QED
        BY Zenon, <4>1
    <3> QED
      BY Zenon, <3>1, <3>2
  <2> QED
    BY Zenon, <1>5, <2>3, <2>4 DEF SetType, hsmData
<1>6. CASE RawSend(h)
  BY <1>6, <1>0 DEF RawSend, Targeting, hsmData
<1>7. CASE SyncDone(h)
  BY Zenon, <1>7, NoEntryInfo DEF SyncDone, hsmData
<1>8. CASE Dequeue(h)
  <2>1. fifo' \in [Hart -> Seq(Info)] /\ cur' \in [Hart -> SUBSET Hart]
    <3>1. fifo[h] \in Seq(Info) /\ fifo[h] # <<>>
      BY Zenon, <1>8 DEF Dequeue
    <3>2. Head(fifo[h]) \in Info /\ Tail(fifo[h]) \in Seq(Info)
      BY Zenon, <3>1, HeadTailProperties
    <3>3. Head(fifo[h]).smask \in SUBSET Hart
      BY Zenon, <3>2 DEF Info
    <3> QED
      BY Zenon, <1>8, <3>2, <3>3 DEF Dequeue
  <2>2. need' \in [Hart -> SUBSET Hart]
    BY Zenon, <1>8, <1>e DEF Dequeue
  <2> QED
    BY Zenon, <1>8, <2>1, <2>2 DEF Dequeue, hsmData
<1>9. CASE DequeueEmpty(h)
  BY Zenon, <1>9 DEF DequeueEmpty, hsmData, tlbVars, Back
<1>10. CASE Acknowledge(h)
  <2>1. PICK g \in cur[h] :
          /\ tlb_sync' = [tlb_sync EXCEPT ![g] = tlb_sync[g] - 1]
          /\ cur' = [cur EXCEPT ![h] = cur[h] \ {g}]
          /\ IF cur[h] = {g} THEN Go(h, ret[h]) /\ ret' = Set(ret, h, "smode")
                             ELSE UNCHANGED <<pc, ret>>
    BY Zenon, <1>10 DEF Acknowledge
  <2>2. g \in Hart /\ tlb_sync[g] - 1 \in Int
    BY <2>1
  <2>3. tlb_sync' \in [Hart -> Int] /\ cur' \in [Hart -> SUBSET Hart]
    BY Zenon, <2>1, <2>2
  <2>4. pc' \in [Hart -> Label] /\ ret' \in [Hart -> {"smode", "send", "tlb_process"}]
    <3>1. ret[h] \in Label
      BY Zenon DEF Label
    <3>2. CASE cur[h] = {g}
      BY ZenonT(30), <2>1, <3>1, <3>2
    <3>3. CASE cur[h] # {g}
      BY Zenon, <2>1, <3>3
    <3> QED
      BY Zenon, <3>2, <3>3
  <2> QED
    BY Zenon, <1>10, <2>3, <2>4 DEF Acknowledge, hsmData
<1>11. CASE IpiExit(h) \/ IpiTrap(h)
  <2>1. msip' = [msip EXCEPT ![h] = 0] /\ pc' = [pc EXCEPT ![h] = "ipi_xchg"]
    BY Zenon, <1>11 DEF IpiExit, IpiTrap
  <2>2. UNCHANGED <<hstate, ticket, next, arg, asked, callee>> /\ UNCHANGED tlbVars
    BY Zenon, <1>11 DEF IpiExit, IpiTrap, hsmData
  <2> QED
    BY <2>1, <2>2 DEF tlbVars
<1>12. CASE IpiProcess(h)
  BY <1>12 DEF IpiProcess, hsmData, Back
<1>13. CASE IpiTlbInit(h)
  BY <1>13, EmptySeq DEF IpiTlbInit, hsmData
<1>14. CASE ClearSmode(h)
  BY <1>14 DEF ClearSmode, hsmVars
<1> QED
  BY Zenon, <1>1, <1>2, <1>3, <1>4, <1>5, <1>6, <1>7, <1>8, <1>9, <1>10, <1>11, <1>12, <1>13, <1>14
  DEF IpiStep

-----------------------------------------------------------------------------
(* Steps outside of sbi_ipi_send_many() do not disturb SendInv.            *)
LEMMA SendFrame ==
    ASSUME Types, SendInv, NEW h \in Hart, UNCHANGED <<mask, event, ret, cur>>,
           NEW l \in HsmPC \cup {"ipi_xchg", "tlb_process"}, pc' = [pc EXCEPT ![h] = l],
           pc[h] \in HsmPC \cup {"ipi_xchg", "tlb_process"},
           \A g \in Hart \ {h} : callee'[g] = callee[g]
    PROVE  SendInv'
<1> SUFFICES ASSUME NEW g \in Hart
             PROVE  /\ pc'[g] \in Targeting => callee'[g] \in mask[g] \ {g}
                    /\ pc'[g] \in {"enqueue", "full", "count"} => event[g] = "TLB"
                    /\ InSend(g)' => event[g] # "none"
                    /\ ~InSend(g)' => mask[g] = {} /\ event[g] = "none"
                    /\ IF pc'[g] = "ack" THEN ret[g] # "smode" ELSE ret[g] = "smode" /\ cur[g] = {}
  BY Zenon DEF SendInv
<1>1. CASE g = h
  <2>1. pc'[g] = l
    BY Zenon, <1>1 DEF Types, HsmTypes
  <2> QED
    BY <1>1, <2>1 DEF SendInv, InSend, Targeting, HsmPC
<1>2. CASE g # h
  <2>1. pc'[g] = pc[g] /\ callee'[g] = callee[g]
    BY Zenon, <1>2 DEF Types, HsmTypes
  <2> QED
    BY <2>1 DEF SendInv, InSend
<1> QED
  BY Zenon, <1>1, <1>2

(* Steps outside of sbi_hsm.c do not disturb TicketInv.                    *)
LEMMA TicketFrame ==
    ASSUME Types, TicketInv, NEW h \in Hart, UNCHANGED hsmData,
           NEW l \in Label \ (StartCode \cup {"start_read"}), pc' = [pc EXCEPT ![h] = l],
           pc[h] \notin StartCode \cup {"start_read"},
           \A g \in Hart \ {h} : callee'[g] = callee[g]
    PROVE  TicketInv'
<1>1. \A g \in Hart : pc'[g] \in StartCode \cup {"start_read"} =>
          g # h /\ pc'[g] = pc[g] /\ callee'[g] = callee[g]
  BY Zenon DEF Types, HsmTypes
<1>2. \A g, t \in Hart : Starter(g, t)' => Starter(g, t)
  BY Zenon, <1>1 DEF Starter, StartCode
<1>3. UNCHANGED <<hstate, ticket, next, arg, asked>>
  BY Zenon DEF hsmData
<1> QED
  BY <1>1, <1>2, <1>3 DEF TicketInv, StartCode

(* The steps of sbi_hsm.c.                                                 *)
LEMMA HsmStepTicket ==
    ASSUME Types, TicketInv, NEW h \in Hart, HsmStep(h)
    PROVE  TicketInv'
<1> USE DEF At, Go, Set, ChangeState
<1>t. HsmTypes
  BY Zenon DEF Types
<1>1. CASE StartArgs(h)
  BY <1>t, <1>1 DEF StartArgs, TicketInv, Starter, StartCode, HsmTypes
<1>2. CASE StartCas(h)
  BY <1>t, <1>2 DEF StartCas, TicketInv, Starter, StartCode, HsmTypes
<1>3. CASE StartIpi(h)
  BY <1>t, <1>3 DEF StartIpi, TicketInv, Starter, StartCode, HsmTypes
<1>4. CASE StartErr(h)
  BY <1>t, <1>4 DEF StartErr, TicketInv, Starter, StartCode, HsmTypes
<1>5. CASE HsmExit(h)
  BY <1>t, <1>5 DEF HsmExit, TicketInv, Starter, StartCode, HsmTypes
<1>6. CASE Warmboot(h) \/ HartWait(h) \/ Wfi(h) \/ NonRetWake(h)
  BY <1>t, <1>6 DEF Warmboot, HartWait, Wfi, NonRetWake, TicketInv, Starter, StartCode, HsmTypes
<1>7. CASE StartFinish(h)
  BY <1>t, <1>7 DEF StartFinish, TicketInv, Starter, StartCode, HsmTypes
<1>8. CASE StartJump(h)
  BY <1>t, <1>8 DEF StartJump, TicketInv, Starter, StartCode, HsmTypes
<1>9. CASE Resume(h) \/ ResumeStart(h) \/ ResumeFinish(h)
  <2>1. CASE Resume(h)
    BY <1>t, <2>1 DEF Resume, TicketInv, Starter, StartCode, HsmTypes
  <2>2. CASE ResumeStart(h)
    BY <1>t, <2>2 DEF ResumeStart, TicketInv, Starter, StartCode, HsmTypes
  <2>3. CASE ResumeFinish(h)
    BY <1>t, <2>3 DEF ResumeFinish, TicketInv, Starter, StartCode, HsmTypes
  <2> QED
    BY Zenon, <1>9, <2>1, <2>2, <2>3
<1> QED
  BY Zenon, <1>1, <1>2, <1>3, <1>4, <1>5, <1>6, <1>7, <1>8, <1>9 DEF HsmStep

(* Every step of Firmware(h) moves hart h alone, to another label.         *)
LEMMA HsmMoves ==
    ASSUME Types, NEW h \in Hart, HsmStep(h)
    PROVE  /\ pc[h] \in HsmPC \ {"smode"}
           /\ \E l \in HsmPC : pc' = [pc EXCEPT ![h] = l]
           /\ \A g \in Hart \ {h} : callee'[g] = callee[g]
  BY Zenon DEF HsmStep, StartArgs, StartCas, StartIpi, StartErr, HsmExit, Warmboot, HartWait, Wfi,
         StartFinish, StartJump, Resume, NonRetWake, ResumeStart, ResumeFinish, At, Go, Set,
         ChangeState, Types, HsmTypes, HsmPC

LEMMA IpiStepSend ==
    ASSUME Types, SendInv, NEW h \in Hart, IpiStep(h) \/ IpiTrap(h) \/ ClearSmode(h)
    PROVE  SendInv'
<1> USE DEF At, Go, Set
<1>1. CASE SendSelf(h)
  BY <1>1 DEF SendSelf, hsmVars, SendInv, InSend, Targeting, Types, HsmTypes, TlbTypes
<1>2. CASE InplaceUpdate(h)
  <2>1. PICK t \in mask[h] \ {h} :
          /\ callee' = [callee EXCEPT ![h] = t]
          /\ \/ event[h] # "TLB" /\ Go(h, "set_type")
             \/ event[h] = "TLB" /\ (Go(h, "enqueue") \/ Go(h, "count"))
    BY Zenon, <1>2, InplaceCases
  <2>2. pc[h] = "send" /\ UNCHANGED <<mask, event, ret, cur>>
    BY Zenon, <1>2 DEF InplaceUpdate
  <2>3. PICK l \in {"set_type", "enqueue", "count"} :
             pc' = [pc EXCEPT ![h] = l] /\ (l # "set_type" => event[h] = "TLB")
    BY Zenon, <2>1
  <2>4. \A g \in Hart : pc'[g] = IF g = h THEN l ELSE pc[g]
    BY Zenon, <2>3 DEF Types, HsmTypes
  <2>5. callee'[h] \in mask[h] \ {h} /\ \A g \in Hart \ {h} : callee'[g] = callee[g]
    BY Zenon, <2>1 DEF Types, HsmTypes
  <2> QED
    BY <2>2, <2>3, <2>4, <2>5 DEF SendInv, InSend, Targeting
<1>3. CASE Enqueue(h)
  BY <1>3 DEF Enqueue, SendInv, InSend, Targeting, Types, HsmTypes, TlbTypes
<1>4. CASE CountTarget(h)
  BY <1>4 DEF CountTarget, SendInv, InSend, Targeting, Types, HsmTypes, TlbTypes
<1>5. CASE SetType(h)
  BY <1>5 DEF SetType, SendInv, InSend, Targeting, Types, HsmTypes, TlbTypes
<1>6. CASE RawSend(h)
  BY <1>6 DEF RawSend, SendInv, InSend, Targeting, Types, HsmTypes, TlbTypes
<1>7. CASE SyncDone(h)
  BY <1>7 DEF SyncDone, SendInv, InSend, Targeting, Types, HsmTypes, TlbTypes
<1>8. CASE Dequeue(h)
  <2>1. /\ pc' = [pc EXCEPT ![h] = "ack"] /\ UNCHANGED <<callee, mask, event>>
        /\ \A g \in Hart \ {h} : ret'[g] = ret[g] /\ cur'[g] = cur[g]
        /\ \/ pc[h] \in {"full", "send"} /\ ret'[h] = "send"
           \/ pc[h] = "tlb_process" /\ ret'[h] = "tlb_process"
    BY SMTT(30), <1>8 DEF Dequeue, Types, TlbTypes
  <2> QED
    BY SMTT(30), <2>1 DEF SendInv, InSend, Targeting, Types, HsmTypes
<1>9. CASE DequeueEmpty(h)
  <2>1. CASE pc[h] = "full"
    BY SMTT(60), <1>9, <2>1 DEF DequeueEmpty, tlbVars, SendInv, InSend, Targeting, Types, HsmTypes
  <2>2. CASE pc[h] = "tlb_process"
    BY Zenon, <1>9, <2>2, SendFrame DEF DequeueEmpty, tlbVars, Back, HsmPC
  <2> QED
    BY Zenon, <1>9, <2>1, <2>2 DEF DequeueEmpty
<1>10. CASE Acknowledge(h)
  <2>1. PICK g \in cur[h] :
          /\ cur' = [cur EXCEPT ![h] = cur[h] \ {g}]
          /\ IF cur[h] = {g} THEN pc' = [pc EXCEPT ![h] = ret[h]] /\ ret' = [ret EXCEPT ![h] = "smode"]
                             ELSE UNCHANGED <<pc, ret>>
    BY Zenon, <1>10 DEF Acknowledge
  <2>2. pc[h] = "ack" /\ UNCHANGED <<callee, mask, event>>
    BY Zenon, <1>10 DEF Acknowledge
  <2>3. CASE cur[h] = {g}
    BY <2>1, <2>2, <2>3 DEF SendInv, InSend, Targeting, Types, HsmTypes, TlbTypes
  <2>4. CASE cur[h] # {g}
    BY <2>1, <2>2, <2>4 DEF SendInv, InSend, Targeting, Types, HsmTypes, TlbTypes
  <2> QED
    BY Zenon, <2>3, <2>4
<1>11. CASE IpiExit(h) \/ IpiTrap(h)
  BY Zenon, <1>11, SendFrame DEF IpiExit, IpiTrap, hsmData, tlbVars, HsmPC
<1>12. CASE IpiProcess(h)
  BY Zenon, <1>12, SendFrame DEF IpiProcess, Back, HsmPC
<1>13. CASE IpiTlbInit(h)
  BY Zenon, <1>13, SendFrame DEF IpiTlbInit, HsmPC
<1>14. CASE ClearSmode(h)
  BY Zenon, <1>14 DEF ClearSmode, hsmVars, SendInv, InSend
<1> QED
  BY Zenon, <1>1, <1>2, <1>3, <1>4, <1>5, <1>6, <1>7, <1>8, <1>9, <1>10, <1>11, <1>12, <1>13, <1>14
  DEF IpiStep

LEMMA IpiStepTicket ==
    ASSUME Types, SendInv, TicketInv, NEW h \in Hart, IpiStep(h) \/ IpiTrap(h) \/ ClearSmode(h)
    PROVE  TicketInv'
<1> DEFINE Other == Label \ (StartCode \cup {"start_read"})
<1>1. UNCHANGED hsmData
  BY Zenon DEF IpiStep, SendSelf, InplaceUpdate, Enqueue, CountTarget, SetType, RawSend, SyncDone, Dequeue,
         DequeueEmpty, Acknowledge, IpiExit, IpiProcess, IpiTlbInit, IpiTrap, ClearSmode, hsmVars, hsmData
<1>2. \A g \in Hart \ {h} : callee'[g] = callee[g]
  BY Zenon DEF IpiStep, SendSelf, InplaceUpdate, Enqueue, CountTarget, SetType, RawSend, SyncDone, Dequeue,
         DequeueEmpty, Acknowledge, IpiExit, IpiProcess, IpiTlbInit, IpiTrap, ClearSmode, hsmVars,
         Set, Types, HsmTypes
<1>3. \A l \in TlbPC \cup {"smode", "ipi_exit", "hsm_exit", "ipi_init", "start_finish"} : l \in Other
  BY Zenon DEF Label, StartCode, TlbPC, HsmPC
<1>4. pc[h] \in Other
  BY Zenon, <1>3 DEF IpiStep, SendSelf, InplaceUpdate, Enqueue, CountTarget, SetType, RawSend, SyncDone, Dequeue,
         DequeueEmpty, Acknowledge, IpiExit, IpiProcess, IpiTlbInit, IpiTrap, ClearSmode, At, TlbPC
<1>5. \E l \in Other : pc' = [pc EXCEPT ![h] = l]
  <2> HIDE DEF Other
  <2>0. pc = [pc EXCEPT ![h] = pc[h]]
    BY Zenon DEF Types, HsmTypes
  <2>1. CASE SendSelf(h) \/ ClearSmode(h)
    BY Zenon, <2>1, <2>0, <1>4 DEF SendSelf, ClearSmode, hsmVars
  <2>2. CASE InplaceUpdate(h)
    BY Zenon, <2>2, <1>3 DEF InplaceUpdate, Go, TlbPC
  <2>3. CASE Enqueue(h) \/ CountTarget(h) \/ SetType(h) \/ RawSend(h) \/ SyncDone(h) \/ Dequeue(h)
    BY Zenon, <2>3, <1>3 DEF Enqueue, CountTarget, SetType, RawSend, SyncDone, Dequeue, Go, TlbPC
  <2>4. CASE DequeueEmpty(h) \/ IpiExit(h) \/ IpiProcess(h) \/ IpiTlbInit(h) \/ IpiTrap(h)
    BY Zenon, <2>4, <1>3 DEF DequeueEmpty, IpiExit, IpiProcess, IpiTlbInit, IpiTrap, Back, Go, TlbPC
  <2>5. CASE Acknowledge(h)
    <3>1. ret[h] \in Other
      BY Zenon, <1>3 DEF Types, TlbTypes, TlbPC
    <3> QED
      BY Zenon, <2>5, <2>0, <3>1, <1>4 DEF Acknowledge, Go
  <2> QED
    BY Zenon, <2>1, <2>2, <2>3, <2>4, <2>5 DEF IpiStep
<1> QED
  BY Zenon, <1>1, <1>2, <1>4, <1>5, TicketFrame

LEMMA CallSend ==
    ASSUME Types, SendInv, Call
    PROVE  SendInv'
<1> USE DEF At, Go, Set
<1>1. ASSUME NEW h \in Hart, NEW T \in SUBSET Hart, NEW ev \in {"SMODE", "TLB"}, NEW e,
             SendMany(h, T, ev, e)
      PROVE  SendInv'
  BY <1>1 DEF SendMany, SendInv, InSend, Targeting, Types, HsmTypes, TlbTypes
<1>2. ASSUME NEW h \in Hart, NEW l \in HsmPC, pc[h] = "smode", pc' = [pc EXCEPT ![h] = l],
             \A g \in Hart \ {h} : callee'[g] = callee[g], UNCHANGED tlbVars
      PROVE  SendInv'
  BY Zenon, <1>2, SendFrame DEF tlbVars, HsmPC
<1>3. ASSUME NEW c \in Fences, TlbRequest(c[1], c[2], c[3]) PROVE SendInv'
  BY Zenon, <1>1, <1>3, TlbAssumption DEF TlbRequest
<1>4. ASSUME NEW c \in Notices, SendSmode(c[1], c[2]) PROVE SendInv'
  BY Zenon, <1>1, <1>4, TlbAssumption DEF SendSmode
<1>5. ASSUME NEW c \in Starts, HartStart(c[1], c[2], c[3]), UNCHANGED tlbVars PROVE SendInv'
  BY Zenon, <1>2, <1>5, TlbAssumption DEF HartStart, HsmPC, Types, HsmTypes
<1>6. ASSUME NEW c \in Suspends, HartSuspend(c[1], c[2], c[3]), UNCHANGED tlbVars PROVE SendInv'
  BY Zenon, <1>2, <1>6, TlbAssumption DEF HartSuspend, HsmPC
<1>7. ASSUME NEW h \in Stops, HartStop(h), UNCHANGED tlbVars PROVE SendInv'
  BY Zenon, <1>2, <1>7, TlbAssumption DEF HartStop, HsmPC
<1> QED
  BY Zenon, <1>3, <1>4, <1>5, <1>6, <1>7 DEF Call

LEMMA CallTicket ==
    ASSUME Types, TicketInv, Call
    PROVE  TicketInv'
<1> USE DEF At, Go, Set, ChangeState
<1>t. HsmTypes
  BY Zenon DEF Types
<1>1. ASSUME NEW h \in Hart, NEW T, NEW ev, NEW e, SendMany(h, T, ev, e)
      PROVE  TicketInv'
  BY Zenon, <1>1, TicketFrame DEF SendMany, Label, TlbPC, HsmPC, StartCode
<1>2. ASSUME NEW c \in Fences, TlbRequest(c[1], c[2], c[3]) PROVE TicketInv'
  BY Zenon, <1>1, <1>2, TlbAssumption DEF TlbRequest
<1>3. ASSUME NEW c \in Notices, SendSmode(c[1], c[2]) PROVE TicketInv'
  BY Zenon, <1>1, <1>3, TlbAssumption DEF SendSmode
<1>4. ASSUME NEW c \in Starts, HartStart(c[1], c[2], c[3]) PROVE TicketInv'
  <2>1. c[1] \in Hart /\ c[2] \in Hart /\ \E s \in Starts : s[2] = c[2]
    BY Zenon, TlbAssumption
  <2> QED
    BY <1>t, <1>4, <2>1 DEF HartStart, TicketInv, Starter, StartCode, HsmTypes
<1>5. ASSUME NEW c \in Suspends, HartSuspend(c[1], c[2], c[3]) PROVE TicketInv'
  <2>1. /\ c[1] \in Hart /\ c[2] \in {"retentive", "nonretentive"}
        /\ \A s \in Starts : s[2] # c[1]
    BY Zenon, TlbAssumption, CallAssumption
  <2> QED
    BY <1>t, <1>5, <2>1 DEF HartSuspend, TicketInv, Starter, StartCode, HsmTypes
<1>6. ASSUME NEW h \in Stops, HartStop(h) PROVE TicketInv'
  <2>1. h \in Hart
    BY Zenon, TlbAssumption
  <2> QED
    BY <1>t, <1>6, <2>1 DEF HartStop, TicketInv, Starter, StartCode, HsmTypes
<1> QED
  BY Zenon, <1>2, <1>3, <1>4, <1>5, <1>6 DEF Call

LEMMA BaseStep == Base /\ [Next]_vars => Base'
<1> SUFFICES ASSUME Base, [Next]_vars PROVE Base'
  BY Zenon
<1>0. Types /\ SendInv /\ TicketInv
  BY Zenon DEF Base
<1>1. CASE UNCHANGED vars
  <2>1. UNCHANGED hsmVars /\ UNCHANGED tlbVars
    BY Zenon, <1>1 DEF vars
  <2>2. Types'
    BY SMTT(30), <1>0, <2>1 DEF hsmVars, tlbVars, Types, HsmTypes, TlbTypes
  <2>3. SendInv' /\ TicketInv'
    BY <1>0, <2>1 DEF hsmVars, tlbVars, SendInv, InSend, TicketInv, Starter
  <2> QED
    BY Zenon, <2>2, <2>3 DEF Base
<1>2. CASE Call
  BY Zenon, <1>0, <1>2, CallTypes, CallSend, CallTicket DEF Base
<1>3. ASSUME NEW h \in Hart, HsmStep(h), UNCHANGED tlbVars PROVE Base'
  <2>1. HsmTypes' /\ TlbTypes'
    BY Zenon, <1>0, <1>3, HsmStepTypes DEF Types, TlbTypes, tlbVars
  <2>2. TicketInv'
    BY Zenon, <1>0, <1>3, HsmStepTicket
  <2>3. SendInv'
    BY Zenon, <1>0, <1>3, HsmMoves, SendFrame DEF tlbVars
  <2> QED
    BY Zenon, <2>1, <2>2, <2>3 DEF Base, Types
<1>4. ASSUME NEW h \in Hart, IpiStep(h) \/ IpiTrap(h) \/ ClearSmode(h) PROVE Base'
  BY Zenon, <1>0, <1>4, IpiStepTypes, IpiStepSend, IpiStepTicket DEF Base
<1> QED
  BY Zenon, <1>1, <1>2, <1>3, <1>4 DEF Next, Firmware

(* However the calls of other harts interleave, a hart that is being       *)
(* started reads the start parameters of the one sbi_hsm_hart_start() that *)
(* made it START_PENDING.                                                  *)
THEOREM StartParameters == Spec => []StartsWhereAsked
<1>1. Init => Base
  BY Zenon, InitBase
<1>2. Base /\ [Next]_vars => Base'
  BY Zenon, BaseStep
<1>3. Base => StartsWhereAsked
  BY Zenon DEF Base, TicketInv, StartsWhereAsked
<1> QED
  BY <1>1, <1>2, <1>3, PTL DEF Spec

-----------------------------------------------------------------------------
(* A hart that stops, is stopped or is being started gets nothing.         *)
Down(h) == hstate[h] \in {"STOP_PENDING", "STOPPED", "START_PENDING"}
DownInv ==
    \A h \in Hart :
        /\ Down(h) => /\ fifo[h] = <<>> /\ \A g \in Hart : h \notin mask[g]
                      /\ pc[h] \notin {"ipi_exit", "ipi_xchg"} => ipi_type[h] = {}
        /\ pc[h] = "ipi_init" => hstate[h] = "START_PENDING"
        /\ pc[h] = "nonretentive" => hstate[h] = "SUSPENDED"
        /\ pc[h] = "warmboot" => hstate[h] = "SUSPENDED" \/ Down(h)

(* The harts named in a FIFO, and that a hart is named once at a target,   *)
(* in the FIFO or among those to be told.                                  *)
Names(q) == UNION {q[i].smask : i \in DOMAIN q}
Distinct(q, c) ==
    \A i \in DOMAIN q : /\ q[i].smask \cap c = {}
                        /\ \A j \in DOMAIN q : i # j => q[i].smask \cap q[j].smask = {}
DistinctInv == \A t \in Hart : Distinct(fifo[t], cur[t])

OwedInv ==
    \A h \in Hart :
        /\ event[h] = "TLB" => req[h].smask = {h}
        /\ event[h] # "TLB" => Owed(h) = {}
        /\ \A t \in mask[h] \cap Owed(h) : pc[h] \in {"count", "set_type", "raise"} /\ t = callee[h]

SyncInv == Base /\ DownInv /\ DistinctInv /\ OwedInv /\ SyncBalance

-----------------------------------------------------------------------------
(* What the operations on a FIFO do to the names in it.                    *)
LEMMA AppendNames ==
    ASSUME NEW q \in Seq(Info), NEW c, NEW e \in Info, NEW h, e.smask = {h},
           h \notin c \cup Names(q), Distinct(q, c)
    PROVE  Names(Append(q, e)) = Names(q) \cup {h} /\ Distinct(Append(q, e), c)
<1> DEFINE r == Append(q, e)
<1>1. /\ DOMAIN q = 1 .. Len(q) /\ Len(q) \in Nat /\ DOMAIN r = 1 .. Len(q) + 1
      /\ r[Len(q) + 1] = e /\ \A i \in 1 .. Len(q) : r[i] = q[i]
  BY AppendProperties, LenProperties
<1> HIDE DEF r
<1>2. \A i \in DOMAIN q : h \notin q[i].smask
  BY Zenon DEF Names
<1>3. Distinct(r, c)
  BY <1>1, <1>2 DEF Distinct
<1>4. ASSUME NEW x PROVE x \in Names(r) <=> x \in Names(q) \cup {h}
  <2>1. ASSUME x \in Names(r) PROVE x \in Names(q) \cup {h}
    BY <2>1, <1>1 DEF Names
  <2>2. ASSUME x \in Names(q) PROVE x \in Names(r)
    <3>1. PICK i \in 1 .. Len(q) : x \in q[i].smask
      BY <2>2, <1>1 DEF Names
    <3>2. i \in DOMAIN r /\ x \in r[i].smask
      BY <3>1, <1>1
    <3> QED
      BY Zenon, <3>2 DEF Names
  <2>3. h \in Names(r)
    <3>1. Len(q) + 1 \in DOMAIN r /\ h \in r[Len(q) + 1].smask
      BY <1>1
    <3> QED
      BY Zenon, <3>1 DEF Names
  <2> QED
    BY Zenon, <2>1, <2>2, <2>3
<1> QED
  BY Zenon, <1>3, <1>4 DEF r

LEMMA MergeNames ==
    ASSUME NEW q \in Seq(Info), NEW c, NEW i \in DOMAIN q, NEW e \in Info, NEW h,
           e.smask = q[i].smask \cup {h}, h \notin c \cup Names(q), Distinct(q, c)
    PROVE  /\ Names([q EXCEPT ![i] = e]) = Names(q) \cup {h}
           /\ Distinct([q EXCEPT ![i] = e], c)
<1> DEFINE r == [q EXCEPT ![i] = e]
<1>1. DOMAIN r = DOMAIN q /\ r[i] = e /\ \A j \in DOMAIN q : j # i => r[j] = q[j]
  BY Zenon
<1> HIDE DEF r
<1>2. \A j \in DOMAIN q : h \notin q[j].smask
  BY Zenon DEF Names
<1>3. Distinct(r, c)
  BY <1>1, <1>2 DEF Distinct
<1>4. ASSUME NEW x PROVE x \in Names(r) <=> x \in Names(q) \cup {h}
  <2>1. x \in Names(r) <=> \E j \in DOMAIN q : x \in r[j].smask
    BY <1>1 DEF Names
  <2>2. x \in Names(q) <=> \E j \in DOMAIN q : x \in q[j].smask
    BY Zenon DEF Names
  <2> QED
    BY Zenon, <1>1, <2>1, <2>2
<1> QED
  BY Zenon, <1>3, <1>4 DEF r

LEMMA TailNames ==
    ASSUME NEW q \in Seq(Info), q # <<>>, Distinct(q, {})
    PROVE  /\ Head(q).smask \cup Names(Tail(q)) = Names(q)
           /\ Distinct(Tail(q), Head(q).smask)
<1> DEFINE r == Tail(q)
<1>1. /\ DOMAIN q = 1 .. Len(q) /\ Len(q) \in Nat \ {0} /\ DOMAIN r = 1 .. Len(q) - 1
      /\ Head(q) = q[1] /\ \A i \in 1 .. Len(q) - 1 : r[i] = q[i + 1]
  BY HeadTailProperties, LenProperties, EmptySeq
<1> HIDE DEF r
<1>3. Distinct(r, q[1].smask)
  <2>1. \A i, j \in 1 .. Len(q) : i # j => q[i].smask \cap q[j].smask = {}
    BY Zenon, <1>1 DEF Distinct
  <2> QED
    BY SMTT(30), <1>1, <2>1 DEF Distinct
<1>4. ASSUME NEW x PROVE x \in q[1].smask \cup Names(r) <=> x \in Names(q)
  <2>1. ASSUME x \in Names(r) PROVE x \in Names(q)
    <3>1. PICK i \in 1 .. Len(q) - 1 : x \in r[i].smask
      BY Zenon, <2>1, <1>1 DEF Names
    <3>2. i + 1 \in DOMAIN q /\ x \in q[i + 1].smask
      BY <3>1, <1>1
    <3> QED
      BY Zenon, <3>2 DEF Names
  <2>2. ASSUME x \in Names(q), x \notin q[1].smask PROVE x \in Names(r)
    <3>1. PICK i \in 1 .. Len(q) : x \in q[i].smask
      BY <2>2, <1>1 DEF Names
    <3>2. i - 1 \in 1 .. Len(q) - 1 /\ x \in r[i - 1].smask
      BY <3>1, <2>2, <1>1
    <3> QED
      BY Zenon, <3>2, <1>1 DEF Names
  <2>3. x \in q[1].smask => x \in Names(q)
    BY <1>1 DEF Names
  <2> QED
    BY Zenon, <2>1, <2>2, <2>3
<1> QED
  BY Zenon, <1>1, <1>3, <1>4 DEF r

-----------------------------------------------------------------------------
LEMMA NamedIs == \A t : Named(t) = cur[t] \cup Names(fifo[t])
  BY Zenon DEF Named, Names

LEMMA OwedFinite == \A h : IsFiniteSet(Owed(h)) /\ Cardinality(Owed(h)) \in Nat
<1> SUFFICES ASSUME NEW h PROVE IsFiniteSet(Owed(h)) /\ Cardinality(Owed(h)) \in Nat
  BY Zenon
<1>1. Owed(h) \in SUBSET Hart
  BY Zenon DEF Owed
<1> QED
  BY Zenon, <1>1, HartAssumption, FS_Subset, FS_CardinalityType

LEMMA InitSync == Init => SyncInv
<1> SUFFICES ASSUME Init PROVE SyncInv
  BY Zenon
<1>1. Base
  BY Zenon, InitBase
<1>2. \A h \in Hart : /\ pc[h] \in {"smode", "wfi"} /\ hstate[h] \in {"STARTED", "STOPPED"}
                      /\ fifo[h] = <<>> /\ cur[h] = {} /\ mask[h] = {} /\ ipi_type[h] = {}
                      /\ event[h] = "none" /\ tlb_sync[h] = 0
  BY Zenon DEF Init, HsmInit
<1>3. DownInv
  BY Zenon, <1>2 DEF DownInv, Down
<1>4. DistinctInv
  BY <1>2 DEF DistinctInv, Distinct
<1>5. \A h \in Hart : Owed(h) = {}
  BY <1>2 DEF Owed, Named
<1>6. OwedInv
  BY Zenon, <1>2, <1>5 DEF OwedInv
<1>7. SyncBalance
  <2>1. Cardinality({}) = 0
    BY Zenon, FS_EmptySet
  <2>2. \A h \in Hart : Cardinality(Owed(h)) = 0
    BY Zenon, <1>5, <2>1
  <2> QED
    BY <1>2, <2>2 DEF SyncBalance
<1> QED
  BY Zenon, <1>1, <1>3, <1>4, <1>6, <1>7 DEF SyncInv

(* Steps that do not touch what is counted.                                *)
LEMMA OwedFrame ==
    ASSUME Types, OwedInv, SyncBalance, NEW h \in Hart, NEW l, pc' = [pc EXCEPT ![h] = l],
           pc[h] \notin {"count", "set_type", "raise"}, l # "count",
           \A g \in Hart \ {h} : callee'[g] = callee[g],
           UNCHANGED <<tlb_sync, mask, event, req>>, \A t \in Hart : Named(t)' = Named(t)
    PROVE  OwedInv' /\ SyncBalance'
<1>1. \A g \in Hart : Owed(g)' = Owed(g)
  BY Zenon DEF Owed
<1>2. \A g \in Hart : pc'[g] = IF g = h THEN l ELSE pc[g]
  BY Zenon DEF Types, HsmTypes
<1> QED
  BY <1>1, <1>2 DEF OwedInv, SyncBalance

LEMMA DownFrame ==
    ASSUME Types, DownInv, NEW h \in Hart, NEW l, pc' = [pc EXCEPT ![h] = l],
           UNCHANGED hstate, l \notin {"ipi_init", "nonretentive", "warmboot"},
           \A g \in Hart : Down(g) => fifo'[g] = fifo[g] /\ ipi_type'[g] \subseteq ipi_type[g],
           \A g \in Hart : mask'[g] \subseteq mask[g] \/ mask'[g] \subseteq Interruptible,
           pc[h] = "ipi_exit" /\ Down(h) => l = "ipi_xchg",
           pc[h] = "ipi_xchg" /\ Down(h) => ipi_type'[h] = {}
    PROVE  DownInv'
<1>1. \A g \in Hart : Down(g)' <=> Down(g)
  BY Zenon DEF Down
<1>2. \A g \in Hart : pc'[g] = IF g = h THEN l ELSE pc[g]
  BY Zenon DEF Types, HsmTypes
<1>3. \A g \in Hart : Down(g) => g \notin Interruptible
  BY Zenon DEF Down, Interruptible
<1> SUFFICES ASSUME NEW g \in Hart
             PROVE  /\ Down(g) => /\ fifo'[g] = <<>> /\ \A k \in Hart : g \notin mask'[k]
                                  /\ pc'[g] \notin {"ipi_exit", "ipi_xchg"} => ipi_type'[g] = {}
                    /\ pc'[g] = "ipi_init" => hstate[g] = "START_PENDING"
                    /\ pc'[g] = "nonretentive" => hstate[g] = "SUSPENDED"
                    /\ pc'[g] = "warmboot" => hstate[g] = "SUSPENDED" \/ Down(g)
  BY Zenon, <1>1 DEF DownInv
<1>4. Down(g) => fifo'[g] = <<>> /\ \A k \in Hart : g \notin mask'[k]
  BY Zenon, <1>3 DEF DownInv
<1>5. Down(g) /\ pc'[g] \notin {"ipi_exit", "ipi_xchg"} => ipi_type'[g] = {}
  <2>1. CASE g = h
    BY Zenon, <2>1, <1>2 DEF DownInv
  <2>2. CASE g # h
    BY <2>2, <1>2 DEF DownInv
  <2> QED
    BY Zenon, <2>1, <2>2
<1>6. /\ pc'[g] = "ipi_init" => hstate[g] = "START_PENDING"
      /\ pc'[g] = "nonretentive" => hstate[g] = "SUSPENDED"
      /\ pc'[g] = "warmboot" => hstate[g] = "SUSPENDED" \/ Down(g)
  BY <1>2 DEF DownInv
<1> QED
  BY Zenon, <1>4, <1>5, <1>6

(* The steps of sbi_hsm.c.                                                 *)
LEMMA HsmStepSync ==
    ASSUME SyncInv, NEW h \in Hart, HsmStep(h), UNCHANGED tlbVars
    PROVE  DownInv' /\ DistinctInv' /\ OwedInv' /\ SyncBalance'
<1>0. Types /\ HsmTypes /\ TicketInv /\ DownInv /\ DistinctInv /\ OwedInv /\ SyncBalance
  BY Zenon DEF SyncInv, Base, Types
<1>1. OwedInv' /\ SyncBalance'
  <2>1. \A t \in Hart : Named(t)' = Named(t)
    BY Zenon DEF tlbVars, Named
  <2>2. PICK l \in HsmPC : pc' = [pc EXCEPT ![h] = l]
    BY Zenon, <1>0, HsmMoves
  <2>3. pc[h] \notin {"count", "set_type", "raise"} /\ l # "count"
    BY Zenon, <1>0, HsmMoves DEF HsmPC
  <2> QED
    BY Zenon, <1>0, <2>1, <2>2, <2>3, HsmMoves, OwedFrame DEF tlbVars
<1>2. DistinctInv'
  BY Zenon, <1>0 DEF DistinctInv, tlbVars
<1>3. DownInv'
  <2> USE <1>0 DEF At, Go, Set, ChangeState, tlbVars, DownInv, Down, HsmTypes
  <2>1. CASE StartArgs(h) \/ StartIpi(h) \/ StartErr(h) \/ Wfi(h)
    BY <2>1 DEF StartArgs, StartIpi, StartErr, Wfi
  <2>2. CASE StartCas(h)
    <3>1. callee[h] \in Hart
      BY Zenon, <2>2 DEF StartCas, TicketInv, StartCode
    <3> QED
      BY <2>2, <3>1 DEF StartCas
  <2>3. CASE HsmExit(h) \/ Warmboot(h) \/ HartWait(h)
    BY <2>3 DEF HsmExit, Warmboot, HartWait
  <2>4. CASE StartFinish(h) \/ StartJump(h)
    BY <2>4 DEF StartFinish, StartJump
  <2>5. CASE Resume(h) \/ NonRetWake(h) \/ ResumeStart(h) \/ ResumeFinish(h)
    BY <2>5 DEF Resume, NonRetWake, ResumeStart, ResumeFinish
  <2> QED
    BY Zenon, <2>1, <2>2, <2>3, <2>4, <2>5 DEF HsmStep
<1> QED
  BY Zenon, <1>1, <1>2, <1>3

LEMMA CallSync ==
    ASSUME SyncInv, Call
    PROVE  DownInv' /\ DistinctInv' /\ OwedInv' /\ SyncBalance'
<1> USE DEF At, Go, Set, ChangeState
<1>0. Types /\ HsmTypes /\ TlbTypes /\ SendInv /\ DownInv /\ DistinctInv /\ OwedInv /\ SyncBalance
  BY Zenon DEF SyncInv, Base, Types
<1>1. ASSUME NEW h \in Hart, NEW T \in SUBSET Hart, NEW ev, NEW e, SendMany(h, T, ev, e),
             ev = "TLB" => e.smask = {h}
      PROVE  DownInv' /\ DistinctInv' /\ OwedInv' /\ SyncBalance'
  <2>1. /\ pc[h] = "smode" /\ pc' = [pc EXCEPT ![h] = "send"] /\ T \subseteq Interruptible
        /\ mask' = [mask EXCEPT ![h] = T] /\ event' = [event EXCEPT ![h] = ev]
        /\ req' = [req EXCEPT ![h] = e]
        /\ UNCHANGED <<hstate, callee, ipi_type, fifo, tlb_sync, cur>>
    BY Zenon, <1>1 DEF SendMany, hsmData
  <2>2. DownInv'
    <3>1. \A g \in Hart : mask'[g] \subseteq mask[g] \/ mask'[g] \subseteq Interruptible
      BY Zenon, <1>0, <2>1 DEF TlbTypes
    <3> QED
      BY Zenon, <1>0, <2>1, <3>1, DownFrame
  <2>3. DistinctInv'
    BY Zenon, <1>0, <2>1 DEF DistinctInv
  <2>4. \A g \in Hart : Owed(g)' = Owed(g)
    BY Zenon, <2>1 DEF Owed, Named
  <2>5. event[h] = "none" /\ Owed(h) = {}
    BY Zenon, <1>0, <2>1 DEF SendInv, InSend, Targeting, OwedInv
  <2>6. OwedInv'
    BY <1>0, <1>1, <2>1, <2>4, <2>5 DEF OwedInv, HsmTypes, TlbTypes
  <2>7. SyncBalance'
    BY Zenon, <1>0, <2>1, <2>4 DEF SyncBalance, HsmTypes
  <2> QED
    BY Zenon, <2>2, <2>3, <2>6, <2>7
<1>2. ASSUME NEW c \in Fences, TlbRequest(c[1], c[2], c[3])
      PROVE  DownInv' /\ DistinctInv' /\ OwedInv' /\ SyncBalance'
  <2>1. c[1] \in Hart /\ c[2] \in SUBSET Hart
    BY Zenon, TlbAssumption
  <2> QED
    BY Zenon, <1>1, <1>2, <2>1 DEF TlbRequest
<1>3. ASSUME NEW c \in Notices, SendSmode(c[1], c[2])
      PROVE  DownInv' /\ DistinctInv' /\ OwedInv' /\ SyncBalance'
  BY Zenon, <1>1, <1>3, TlbAssumption DEF SendSmode
<1>4. ASSUME NEW h \in Hart, NEW l \in HsmPC, pc[h] = "smode", pc' = [pc EXCEPT ![h] = l],
             \A g \in Hart \ {h} : callee'[g] = callee[g], UNCHANGED tlbVars
      PROVE  DistinctInv' /\ OwedInv' /\ SyncBalance'
  <2>1. \A t \in Hart : Named(t)' = Named(t)
    BY <1>4 DEF tlbVars, Named
  <2>2. OwedInv' /\ SyncBalance'
    BY Zenon, <1>0, <1>4, <2>1, OwedFrame DEF tlbVars, HsmPC
  <2> QED
    BY Zenon, <1>0, <1>4, <2>2 DEF DistinctInv, tlbVars
<1>5. ASSUME NEW c \in Starts, HartStart(c[1], c[2], c[3]), UNCHANGED tlbVars
      PROVE  DownInv' /\ DistinctInv' /\ OwedInv' /\ SyncBalance'
  <2>1. c[1] \in Hart
    BY Zenon, TlbAssumption
  <2>2. DistinctInv' /\ OwedInv' /\ SyncBalance'
    BY Zenon, <1>0, <1>4, <1>5, <2>1 DEF HartStart, HsmPC, HsmTypes
  <2>3. DownInv'
    BY Zenon, <1>0, <1>5, <2>1 DEF HartStart, DownInv, Down, HsmTypes, tlbVars
  <2> QED
    BY Zenon, <2>2, <2>3
<1>6. ASSUME NEW c \in Suspends, HartSuspend(c[1], c[2], c[3]), UNCHANGED tlbVars
      PROVE  DownInv' /\ DistinctInv' /\ OwedInv' /\ SyncBalance'
  <2>1. c[1] \in Hart /\ c[2] \in {"retentive", "nonretentive"}
    BY Zenon, TlbAssumption
  <2>2. DistinctInv' /\ OwedInv' /\ SyncBalance'
    BY Zenon, <1>4, <1>6, <2>1 DEF HartSuspend, HsmPC
  <2>3. DownInv'
    BY Zenon, <1>0, <1>6, <2>1 DEF HartSuspend, DownInv, Down, HsmTypes, tlbVars
  <2> QED
    BY Zenon, <2>2, <2>3
<1>7. ASSUME NEW h \in Stops, Quiesced(h), HartStop(h), UNCHANGED tlbVars
      PROVE  DownInv' /\ DistinctInv' /\ OwedInv' /\ SyncBalance'
  <2>1. h \in Hart
    BY Zenon, TlbAssumption
  <2>2. DistinctInv' /\ OwedInv' /\ SyncBalance'
    BY Zenon, <1>4, <1>7, <2>1 DEF HartStop, HsmPC
  <2>3. DownInv'
    BY Zenon, <1>0, <1>7, <2>1 DEF HartStop, Quiesced, DownInv, Down, HsmTypes, tlbVars
  <2> QED
    BY Zenon, <2>2, <2>3
<1> QED
  BY Zenon, <1>2, <1>3, <1>5, <1>6, <1>7 DEF Call

(* h has put itself in the FIFO of t and is about to count it.             *)
LEMMA OwedAdd ==
    ASSUME Types, OwedInv, SyncBalance, NEW h \in Hart, NEW t \in mask[h],
           pc[h] \in {"send", "enqueue"}, pc' = [pc EXCEPT ![h] = "count"],
           callee'[h] = t, \A g \in Hart \ {h} : callee'[g] = callee[g],
           UNCHANGED <<tlb_sync, mask, event, req>>, event[h] = "TLB",
           \A u \in Hart : Named(u)' = IF u = t THEN Named(u) \cup {h} ELSE Named(u)
    PROVE  OwedInv' /\ SyncBalance'
<1>0. t \in Hart /\ t \notin Owed(h)
  BY Zenon DEF Types, TlbTypes, OwedInv
<1>1. Owed(h)' = Owed(h) \cup {t} /\ \A g \in Hart \ {h} : Owed(g)' = Owed(g)
  BY Zenon, <1>0 DEF Owed
<1>2. \A g \in Hart : pc'[g] = IF g = h THEN "count" ELSE pc[g]
  BY Zenon DEF Types, HsmTypes
<1>3. OwedInv'
  BY <1>0, <1>1, <1>2 DEF OwedInv
<1>4. Cardinality(Owed(h)') = Cardinality(Owed(h)) + 1
  BY Zenon, <1>0, <1>1, OwedFinite, FS_AddElement
<1>5. SyncBalance'
  <2>0. tlb_sync[h] \in Int /\ Cardinality(Owed(h)) = tlb_sync[h] + 0
    BY Zenon DEF SyncBalance, Types, TlbTypes
  <2>1. Cardinality(Owed(h)) = tlb_sync[h] /\ tlb_sync[h] \in Int
    BY <2>0
  <2> QED
    BY ZenonT(30), <1>1, <1>2, <1>4, <2>1 DEF SyncBalance
<1> QED
  BY Zenon, <1>3, <1>5

(* t tells g.                                                              *)
LEMMA OwedRemove ==
    ASSUME Types, OwedInv, SyncBalance, NEW t \in Hart, NEW g \in Named(t), g \in Hart,
           NEW l, l # "count", pc[t] = "ack", pc' = [pc EXCEPT ![t] = l],
           tlb_sync' = [tlb_sync EXCEPT ![g] = tlb_sync[g] - 1],
           UNCHANGED <<callee, mask, event, req>>,
           \A u \in Hart : Named(u)' = IF u = t THEN Named(u) \ {g} ELSE Named(u)
    PROVE  OwedInv' /\ SyncBalance'
<1>1. /\ t \in Owed(g) /\ Owed(g)' = Owed(g) \ {t}
      /\ \A k \in Hart \ {g} : Owed(k)' = Owed(k)
  BY Zenon DEF Owed
<1>2. \A k \in Hart : pc'[k] = IF k = t THEN l ELSE pc[k]
  BY Zenon DEF Types, HsmTypes
<1>3. OwedInv'
  BY <1>1, <1>2 DEF OwedInv
<1>4. Cardinality(Owed(g)') = Cardinality(Owed(g)) - 1
  BY Zenon, <1>1, OwedFinite, FS_RemoveElement
<1>5. \A k \in Hart : /\ tlb_sync[k] \in Int
                      /\ tlb_sync'[k] = IF k = g THEN tlb_sync[k] - 1 ELSE tlb_sync[k]
                      /\ (pc'[k] = "count") = (pc[k] = "count")
  BY Zenon, <1>2 DEF Types, TlbTypes
<1>6. SyncBalance'
  <2> SUFFICES ASSUME NEW k \in Hart
               PROVE  Cardinality(Owed(k)') = tlb_sync'[k] + (IF pc'[k] = "count" THEN 1 ELSE 0)
    BY Zenon DEF SyncBalance
  <2>1. Cardinality(Owed(k)) = tlb_sync[k] + (IF pc'[k] = "count" THEN 1 ELSE 0)
    BY Zenon, <1>5 DEF SyncBalance
  <2>2. CASE k = g
    BY <2>1, <2>2, <1>4, <1>5
  <2>3. CASE k # g
    BY Zenon, <2>1, <2>3, <1>1, <1>5
  <2> QED
    BY Zenon, <2>2, <2>3
<1> QED
  BY Zenon, <1>3, <1>6

(* The steps that queue a fence.                                           *)
LEMMA QueueSync ==
    ASSUME SyncInv, NEW h \in Hart, InplaceUpdate(h) \/ Enqueue(h)
    PROVE  DownInv' /\ DistinctInv' /\ OwedInv' /\ SyncBalance'
<1> USE DEF At, Go, Set
<1>0. Types /\ HsmTypes /\ TlbTypes /\ SendInv /\ DownInv /\ DistinctInv /\ OwedInv /\ SyncBalance
  BY Zenon DEF SyncInv, Base, Types
<1>1. /\ pc[h] \in {"send", "enqueue"}
      /\ UNCHANGED <<hstate, ipi_type, tlb_sync, mask, event, req, cur>>
  BY Zenon DEF InplaceUpdate, Enqueue, hsmData
<1>2. ASSUME NEW l, l \in {"set_type", "enqueue", "full"}, pc' = [pc EXCEPT ![h] = l],
             \A g \in Hart \ {h} : callee'[g] = callee[g], UNCHANGED fifo
      PROVE  DownInv' /\ DistinctInv' /\ OwedInv' /\ SyncBalance'
  <2>1. DownInv'
    BY Zenon, <1>0, <1>1, <1>2, DownFrame
  <2>2. \A t \in Hart : Named(t)' = Named(t)
    BY <1>1, <1>2 DEF Named
  <2>3. OwedInv' /\ SyncBalance'
    BY Zenon, <1>0, <1>1, <1>2, <2>2, OwedFrame
  <2> QED
    BY Zenon, <1>0, <1>1, <1>2, <2>1, <2>3 DEF DistinctInv
<1>3. ASSUME NEW t \in mask[h], NEW q, fifo' = [fifo EXCEPT ![t] = q],
             pc' = [pc EXCEPT ![h] = "count"], event[h] = "TLB",
             callee'[h] = t, \A g \in Hart \ {h} : callee'[g] = callee[g],
             h \notin Named(t) => Names(q) = Names(fifo[t]) \cup {h} /\ Distinct(q, cur[t])
      PROVE  DownInv' /\ DistinctInv' /\ OwedInv' /\ SyncBalance'
  <2>1. t \in Hart /\ ~Down(t) /\ h \notin Named(t)
    BY Zenon, <1>0, <1>1 DEF TlbTypes, DownInv, OwedInv, Owed
  <2>2. \A g \in Hart : fifo'[g] = IF g = t THEN q ELSE fifo[g]
    BY Zenon, <1>0, <1>3, <2>1 DEF TlbTypes
  <2>3. DownInv'
    BY Zenon, <1>0, <1>1, <1>3, <2>1, <2>2, DownFrame
  <2>4. DistinctInv'
    BY Zenon, <1>0, <1>1, <1>3, <2>1, <2>2 DEF DistinctInv
  <2>5. \A u \in Hart : Named(u)' = IF u = t THEN Named(u) \cup {h} ELSE Named(u)
    <3>1. \A u \in Hart : Named(u)' = cur[u] \cup Names(fifo'[u])
      BY Zenon, <1>1 DEF Named, Names
    <3> SUFFICES ASSUME NEW u \in Hart
                 PROVE  Named(u)' = IF u = t THEN Named(u) \cup {h} ELSE Named(u)
      BY Zenon
    <3>2. CASE u = t
      <4>1. Names(fifo'[t]) = Names(fifo[t]) \cup {h}
        BY Zenon, <1>3, <2>1, <2>2
      <4> QED
        BY <3>1, <3>2, <4>1, NamedIs
    <3>3. CASE u # t
      <4>1. fifo'[u] = fifo[u]
        BY Zenon, <2>2, <3>3
      <4> QED
        BY Zenon, <3>1, <3>3, <4>1, NamedIs
    <3> QED
      BY Zenon, <3>2, <3>3
  <2>6. OwedInv' /\ SyncBalance'
    BY Zenon, <1>0, <1>1, <1>3, <2>5, OwedAdd
  <2> QED
    BY Zenon, <2>3, <2>4, <2>6
<1>4. ASSUME NEW t \in mask[h] PROVE t \in Hart /\ fifo[t] \in Seq(Info) /\ Distinct(fifo[t], cur[t])
  BY Zenon, <1>0 DEF TlbTypes, DistinctInv
<1>5. req[h] \in Info /\ (event[h] = "TLB" => req[h].smask = {h})
  BY Zenon, <1>0 DEF TlbTypes, OwedInv
<1>6. CASE InplaceUpdate(h)
  <2>1. PICK t \in mask[h] \ {h} :
          /\ callee' = [callee EXCEPT ![h] = t]
          /\ \/ Go(h, "set_type") /\ UNCHANGED fifo
             \/ Go(h, "enqueue") /\ UNCHANGED fifo
             \/ event[h] = "TLB" /\ Go(h, "count") /\ Merges(h, t)
    BY Zenon, <1>0, <1>6, InplaceCases
  <2>2. callee'[h] = t /\ \A g \in Hart \ {h} : callee'[g] = callee[g]
    BY Zenon, <1>0, <2>1 DEF HsmTypes
  <2>3. CASE UNCHANGED fifo /\ (Go(h, "set_type") \/ Go(h, "enqueue"))
    BY <1>2, <2>2, <2>3
  <2>4. CASE event[h] = "TLB" /\ Go(h, "count") /\ Merges(h, t)
    <3>1. PICK i \in DOMAIN fifo[t] :
            fifo' = [fifo EXCEPT ![t] = [fifo[t] EXCEPT ![i] = Merged(fifo[t][i], req[h])]]
      BY Zenon, <2>4 DEF Merges
    <3>2. fifo[t] \in Seq(Info) /\ i \in 1 .. Len(fifo[t]) /\ t \in mask[h]
      BY Zenon, <1>4, LenProperties
    <3>3. fifo[t][i] \in Info
      BY <3>2, ElementOfSeq
    <3>4. /\ Merged(fifo[t][i], req[h]) \in Info
          /\ Merged(fifo[t][i], req[h]).smask = fifo[t][i].smask \cup {h}
      BY Zenon, <1>5, <2>4, <3>3, MergedInfo
    <3> DEFINE q == [fifo[t] EXCEPT ![i] = Merged(fifo[t][i], req[h])]
    <3>5. h \notin Named(t) => Names(q) = Names(fifo[t]) \cup {h} /\ Distinct(q, cur[t])
      BY <1>4, <3>2, <3>4, MergeNames, NamedIs
    <3> QED
      BY Zenon, <1>3, <2>2, <2>4, <3>1, <3>2, <3>5
  <2> QED
    BY Zenon, <2>1, <2>3, <2>4
<1>7. CASE Enqueue(h)
  <2>1. callee[h] \in mask[h] /\ event[h] = "TLB"
    BY Zenon, <1>0, <1>7 DEF Enqueue, SendInv, Targeting
  <2>2. CASE pc' = [pc EXCEPT ![h] = "full"]
    <3>1. UNCHANGED fifo /\ \A g \in Hart \ {h} : callee'[g] = callee[g]
      BY <1>7, <2>2, <1>0 DEF Enqueue, HsmTypes
    <3> QED
      BY Zenon, <1>2, <2>2, <3>1
  <2>3. CASE pc' # [pc EXCEPT ![h] = "full"]
    <3> DEFINE t == callee[h]
               q == Append(fifo[t], req[h])
    <3>1. fifo' = [fifo EXCEPT ![t] = q] /\ pc' = [pc EXCEPT ![h] = "count"] /\ UNCHANGED callee
      BY <1>7, <2>3 DEF Enqueue
    <3>2. h \notin Named(t) => Names(q) = Names(fifo[t]) \cup {h} /\ Distinct(q, cur[t])
      BY ZenonT(30), <1>4, <1>5, <2>1, AppendNames, NamedIs
    <3> QED
      BY Zenon, <1>3, <2>1, <3>1, <3>2
  <2> QED
    BY Zenon, <2>2, <2>3
<1> QED
  BY Zenon, <1>6, <1>7

(* The other steps of sbi_ipi.c and sbi_tlb.c.                             *)
LEMMA IpiStepSync ==
    ASSUME SyncInv, NEW h \in Hart, IpiStep(h) \/ IpiTrap(h) \/ ClearSmode(h)
    PROVE  DownInv' /\ DistinctInv' /\ OwedInv' /\ SyncBalance'
<1> USE DEF At, Go, Set
<1>0. Types /\ HsmTypes /\ TlbTypes /\ SendInv /\ DownInv /\ DistinctInv /\ OwedInv /\ SyncBalance
  BY Zenon DEF SyncInv, Base, Types
<1>s. pc = [pc EXCEPT ![h] = pc[h]]
  BY Zenon, <1>0 DEF HsmTypes
(* Steps that only move h, or change its mask or event.                    *)
<1>1. CASE SendSelf(h)
  <2>1. /\ pc[h] = "send" /\ pc' = [pc EXCEPT ![h] = "send"]
        /\ UNCHANGED <<hstate, callee, ipi_type, fifo, tlb_sync, event, req, cur>>
        /\ \A g \in Hart : mask'[g] \subseteq mask[g]
    BY <1>0, <1>1, <1>s DEF SendSelf, hsmVars, TlbTypes
  <2>2. DownInv'
    BY Zenon, <1>0, <2>1, DownFrame
  <2>3. \A g \in Hart : Owed(g)' = Owed(g)
    BY Zenon, <2>1 DEF Owed, Named
  <2>4. OwedInv' /\ SyncBalance'
    BY <1>0, <1>s, <2>1, <2>3 DEF OwedInv, SyncBalance
  <2> QED
    BY Zenon, <1>0, <2>1, <2>2, <2>4 DEF DistinctInv
<1>2. CASE CountTarget(h)
  <2>1. /\ pc[h] = "count" /\ pc' = [pc EXCEPT ![h] = "set_type"]
        /\ tlb_sync' = [tlb_sync EXCEPT ![h] = tlb_sync[h] + 1]
        /\ UNCHANGED <<hstate, callee, ipi_type, fifo, mask, event, req, cur>>
    BY Zenon, <1>2 DEF CountTarget, hsmData
  <2>2. DownInv'
    BY Zenon, <1>0, <2>1, DownFrame
  <2>3. \A g \in Hart : Owed(g)' = Owed(g)
    BY Zenon, <2>1 DEF Owed, Named
  <2>4. \A g \in Hart : /\ pc'[g] = (IF g = h THEN "set_type" ELSE pc[g]) /\ tlb_sync[g] \in Int
                        /\ tlb_sync'[g] = IF g = h THEN tlb_sync[g] + 1 ELSE tlb_sync[g]
    BY Zenon, <1>0, <2>1 DEF HsmTypes, TlbTypes
  <2>5. OwedInv'
    BY Zenon, <1>0, <2>1, <2>3, <2>4 DEF OwedInv
  <2>6. SyncBalance'
    BY <1>0, <2>1, <2>3, <2>4 DEF SyncBalance
  <2> QED
    BY Zenon, <1>0, <2>1, <2>2, <2>5, <2>6 DEF DistinctInv
<1>3. CASE SetType(h) \/ RawSend(h)
  <2>1. callee[h] \in mask[h] /\ callee[h] \in Hart /\ pc[h] \in {"set_type", "raise"}
    BY Zenon, <1>0, <1>3 DEF SetType, RawSend, SendInv, Targeting, TlbTypes
  <2>2. ~Down(callee[h])
    BY Zenon, <1>0, <2>1 DEF DownInv
  <2>3. /\ UNCHANGED <<hstate, fifo, tlb_sync, event, req, cur>>
        /\ \A g \in Hart \ {h} : callee'[g] = callee[g] /\ mask'[g] = mask[g]
        /\ \A g \in Hart : Down(g) => ipi_type'[g] = ipi_type[g]
    BY ZenonT(30), <1>0, <1>3, <2>1, <2>2 DEF SetType, RawSend, hsmData, HsmTypes, TlbTypes
  <2>4. \/ mask'[h] = mask[h] \ {callee[h]} /\ pc' = [pc EXCEPT ![h] = "send"]
        \/ mask'[h] = mask[h] /\ callee'[h] = callee[h] /\ pc' = [pc EXCEPT ![h] = "raise"]
    BY Zenon, <1>0, <1>3 DEF SetType, RawSend, TlbTypes
  <2>5. PICK l \in {"send", "raise"} : pc' = [pc EXCEPT ![h] = l]
    BY Zenon, <2>4
  <2>6. DownInv'
    BY ZenonT(30), <1>0, <2>1, <2>3, <2>4, <2>5, DownFrame
  <2>7. \A g \in Hart : Owed(g)' = Owed(g)
    BY ZenonT(30), <2>3 DEF Owed, Named
  <2>8. \A g \in Hart : pc'[g] = IF g = h THEN l ELSE pc[g]
    BY Zenon, <1>0, <2>5 DEF HsmTypes
  <2>9. OwedInv'
    <3>1. ASSUME NEW g \in Hart \ {h}, NEW t \in mask'[g] \cap Owed(g)
          PROVE  pc'[g] \in {"count", "set_type", "raise"} /\ t = callee'[g]
      BY Zenon, <1>0, <2>3, <2>8 DEF OwedInv
    <3>2. ASSUME NEW t \in mask'[h] \cap Owed(h)
          PROVE  pc'[h] \in {"count", "set_type", "raise"} /\ t = callee'[h]
      <4>1. t \in mask[h] /\ t = callee[h]
        BY Zenon, <1>0, <2>4, <3>2 DEF OwedInv
      <4>2. callee'[h] = callee[h] /\ pc' = [pc EXCEPT ![h] = "raise"]
        BY Zenon, <2>4, <3>2, <4>1
      <4> QED
        BY Zenon, <1>0, <4>1, <4>2 DEF HsmTypes
    <3> QED
      BY Zenon, <1>0, <2>3, <2>7, <3>1, <3>2 DEF OwedInv
  <2>10. SyncBalance'
    BY Zenon, <1>0, <2>1, <2>3, <2>7, <2>8 DEF SyncBalance
  <2> QED
    BY ZenonT(30), <1>0, <2>3, <2>6, <2>9, <2>10 DEF DistinctInv
<1>4. CASE SyncDone(h)
  <2>1. /\ pc[h] = "send" /\ mask[h] = {} /\ (event[h] = "TLB" => tlb_sync[h] <= 0)
        /\ pc' = [pc EXCEPT ![h] = "smode"]
        /\ event' = [event EXCEPT ![h] = "none"] /\ req' = [req EXCEPT ![h] = NoEntry]
        /\ UNCHANGED <<hstate, callee, ipi_type, fifo, tlb_sync, mask, cur>>
    BY Zenon, <1>4 DEF SyncDone, hsmData
  <2>2. DownInv'
    BY ZenonT(30), <1>0, <2>1, DownFrame
  <2>3. \A g \in Hart : Owed(g)' = Owed(g)
    BY Zenon, <2>1 DEF Owed, Named
  <2>4. Owed(h) = {}
    <3>1. CASE event[h] = "TLB"
      <4>1. tlb_sync[h] \in Int /\ Cardinality(Owed(h)) = tlb_sync[h] + 0
        BY Zenon, <1>0, <2>1 DEF SyncBalance, TlbTypes
      <4>2. Cardinality(Owed(h)) = 0
        BY SMTT(60), <2>1, <3>1, <4>1, OwedFinite
      <4> QED
        BY Zenon, <4>2, OwedFinite, FS_EmptySet
    <3>2. CASE event[h] # "TLB"
      BY Zenon, <1>0, <3>2 DEF OwedInv
    <3> QED
      BY Zenon, <3>1, <3>2
  <2>5. \A g \in Hart : pc'[g] = IF g = h THEN "smode" ELSE pc[g]
    BY SMTT(30), <1>0, <2>1 DEF HsmTypes
  <2>6. OwedInv'
    BY Zenon, <1>0, <2>1, <2>3, <2>4, <2>5 DEF OwedInv, TlbTypes
  <2>7. SyncBalance'
    BY <1>0, <2>1, <2>3, <2>5 DEF SyncBalance
  <2>8. DistinctInv'
    BY Zenon, <1>0, <2>1 DEF DistinctInv
  <2> QED
    BY ZenonT(30), <2>2, <2>6, <2>7, <2>8
(* Steps that leave the counts alone.                                      *)
<1>5. ASSUME NEW l, pc' = [pc EXCEPT ![h] = l], l \notin {"count", "ipi_init", "nonretentive", "warmboot"},
             pc[h] \notin {"count", "set_type", "raise"},
             UNCHANGED <<hstate, callee, tlb_sync, mask, event, req, fifo, cur>>,
             \A g \in Hart : ipi_type'[g] \subseteq ipi_type[g],
             pc[h] = "ipi_exit" => l = "ipi_xchg", pc[h] = "ipi_xchg" => ipi_type'[h] = {}
      PROVE  DownInv' /\ DistinctInv' /\ OwedInv' /\ SyncBalance'
  <2>1. DownInv'
    BY ZenonT(30), <1>0, <1>5, DownFrame
  <2>2. \A t \in Hart : Named(t)' = Named(t)
    BY Zenon, <1>5 DEF Named
  <2>3. OwedInv' /\ SyncBalance'
    BY Zenon, <1>0, <1>5, <2>2, OwedFrame
  <2> QED
    BY Zenon, <1>0, <1>5, <2>1, <2>3 DEF DistinctInv
<1>6. CASE DequeueEmpty(h)
  BY Zenon, <1>5, <1>6 DEF DequeueEmpty, hsmData, tlbVars, Back
<1>7. CASE IpiExit(h) \/ IpiTrap(h)
  <2>1. /\ pc[h] \in {"ipi_exit", "smode"} /\ pc' = [pc EXCEPT ![h] = "ipi_xchg"]
        /\ UNCHANGED <<hstate, callee>> /\ UNCHANGED tlbVars
    BY Zenon, <1>7 DEF IpiExit, IpiTrap, hsmData
  <2> QED
    BY Zenon, <1>5, <2>1 DEF tlbVars
<1>8. CASE IpiProcess(h)
  <2>1. ipi_type'[h] = {} /\ \A g \in Hart \ {h} : ipi_type'[g] = ipi_type[g]
    BY Zenon, <1>0, <1>8 DEF IpiProcess, TlbTypes
  <2>2. PICK l \in {"tlb_process", "hsm_exit", "smode"} : pc' = [pc EXCEPT ![h] = l]
    BY Zenon, <1>8 DEF IpiProcess, Back
  <2>3. UNCHANGED <<hstate, callee, tlb_sync, mask, event, req, fifo, cur>> /\ pc[h] = "ipi_xchg"
    BY Zenon, <1>8 DEF IpiProcess, hsmData
  <2> QED
    BY Zenon, <1>5, <2>1, <2>2, <2>3
<1>9. CASE ClearSmode(h)
  BY Zenon, <1>5, <1>9, <1>s DEF ClearSmode, hsmVars
<1>10. CASE IpiTlbInit(h)
  <2>1. /\ pc[h] = "ipi_init" /\ hstate[h] = "START_PENDING" /\ fifo[h] = <<>>
        /\ pc' = [pc EXCEPT ![h] = "start_finish"]
    BY Zenon, <1>0, <1>10 DEF IpiTlbInit, DownInv, Down
  <2>2. tlb_sync[h] = 0
    <3>1. Owed(h) = {} /\ tlb_sync[h] \in Int
      BY ZenonT(30), <1>0, <2>1 DEF SendInv, InSend, Targeting, OwedInv, TlbTypes
    <3>2. Cardinality({}) = tlb_sync[h] + 0
      BY Zenon, <1>0, <2>1, <3>1 DEF SyncBalance
    <3> QED
      BY <3>1, <3>2, FS_EmptySet
  <2>3. UNCHANGED <<hstate, callee, tlb_sync, mask, event, req, fifo, cur>>
    BY Zenon, <1>0, <1>10, <2>1, <2>2 DEF IpiTlbInit, hsmData, TlbTypes
  <2>4. \A g \in Hart : ipi_type'[g] \subseteq ipi_type[g]
    BY Zenon, <1>0, <1>10 DEF IpiTlbInit, TlbTypes
  <2> QED
    BY Zenon, <1>5, <2>1, <2>3, <2>4
<1>11. CASE Dequeue(h)
  <2>1. /\ pc[h] \in {"full", "send", "tlb_process"} /\ pc' = [pc EXCEPT ![h] = "ack"]
        /\ fifo[h] # <<>> /\ cur' = [cur EXCEPT ![h] = Head(fifo[h]).smask]
        /\ fifo' = [fifo EXCEPT ![h] = Tail(fifo[h])]
        /\ UNCHANGED <<hstate, callee, ipi_type, tlb_sync, mask, event, req>>
    BY Zenon, <1>11 DEF Dequeue, hsmData
  <2>2. ~Down(h) /\ cur[h] = {}
    BY ZenonT(30), <1>0, <2>1 DEF DownInv, SendInv
  <2>3. \A g \in Hart : /\ fifo'[g] = (IF g = h THEN Tail(fifo[h]) ELSE fifo[g])
                        /\ cur'[g] = IF g = h THEN Head(fifo[h]).smask ELSE cur[g]
    BY Zenon, <1>0, <2>1 DEF TlbTypes
  <2>4. /\ Head(fifo[h]).smask \cup Names(Tail(fifo[h])) = Names(fifo[h])
        /\ Distinct(Tail(fifo[h]), Head(fifo[h]).smask)
    <3>1. fifo[h] \in Seq(Info) /\ Distinct(fifo[h], {})
      BY Zenon, <1>0, <2>2 DEF TlbTypes, DistinctInv
    <3> QED
      BY Zenon, <2>1, <3>1, TailNames
  <2>5. DownInv'
    BY ZenonT(30), <1>0, <2>1, <2>2, <2>3, DownFrame
  <2>6. DistinctInv'
    BY Zenon, <1>0, <2>3, <2>4 DEF DistinctInv
  <2>7. ASSUME NEW t \in Hart PROVE Named(t)' = Named(t)
    <3>1. Named(t)' = cur'[t] \cup Names(fifo'[t])
      BY Zenon DEF Named, Names
    <3>2. CASE t = h
      BY Zenon, <3>1, <3>2, <2>2, <2>3, <2>4, NamedIs
    <3>3. CASE t # h
      BY Zenon, <3>1, <3>3, <2>3, NamedIs
    <3> QED
      BY SMTT(30), <3>2, <3>3
  <2>8. OwedInv' /\ SyncBalance'
    BY Zenon, <1>0, <2>1, <2>7, OwedFrame
  <2> QED
    BY Zenon, <2>5, <2>6, <2>8
<1>12. CASE Acknowledge(h)
  <2>1. PICK g \in cur[h] :
          /\ tlb_sync' = [tlb_sync EXCEPT ![g] = tlb_sync[g] - 1]
          /\ cur' = [cur EXCEPT ![h] = cur[h] \ {g}]
          /\ IF cur[h] = {g} THEN pc' = [pc EXCEPT ![h] = ret[h]] ELSE UNCHANGED pc
    BY Zenon, <1>12 DEF Acknowledge
  <2>2. pc[h] = "ack" /\ UNCHANGED <<hstate, callee, ipi_type, fifo, mask, event, req>>
    BY Zenon, <1>12 DEF Acknowledge, hsmData
  <2>3. PICK l \in {"ack", "send", "smode", "tlb_process"} : pc' = [pc EXCEPT ![h] = l]
    BY Zenon, <1>0, <1>s, <2>1, <2>2 DEF TlbTypes
  <2>4. g \in Hart /\ g \in Named(h) /\ \A i \in DOMAIN fifo[h] : g \notin fifo[h][i].smask
    BY Zenon, <1>0, <2>1, NamedIs DEF TlbTypes, DistinctInv, Distinct
  <2>5. \A u \in Hart : cur'[u] = IF u = h THEN cur[h] \ {g} ELSE cur[u]
    BY <1>0, <2>1 DEF TlbTypes
  <2>6. DownInv'
    BY ZenonT(30), <1>0, <2>2, <2>3, DownFrame
  <2>7. DistinctInv'
    BY Zenon, <1>0, <2>2, <2>5 DEF DistinctInv, Distinct
  <2>8. ASSUME NEW u \in Hart PROVE Named(u)' = IF u = h THEN Named(u) \ {g} ELSE Named(u)
    <3>1. Named(u)' = cur'[u] \cup Names(fifo[u])
      BY Zenon, <2>2 DEF Named, Names
    <3>2. g \notin Names(fifo[h])
      BY Zenon, <2>4 DEF Names
    <3>3. CASE u = h
      BY Zenon, <3>1, <3>2, <3>3, <2>5, NamedIs
    <3>4. CASE u # h
      BY Zenon, <3>1, <3>4, <2>5, NamedIs
    <3> QED
      BY Zenon, <3>3, <3>4
  <2>9. OwedInv' /\ SyncBalance'
    BY Zenon, <1>0, <2>1, <2>2, <2>3, <2>4, <2>8, OwedRemove
  <2> QED
    BY Zenon, <2>6, <2>7, <2>9
<1>13. CASE InplaceUpdate(h) \/ Enqueue(h)
  BY Zenon, <1>13, QueueSync
<1> QED
  BY Zenon, <1>1, <1>2, <1>3, <1>4, <1>6, <1>7, <1>8, <1>9, <1>10, <1>11, <1>12, <1>13 DEF IpiStep

LEMMA SyncStep == SyncInv /\ [Next]_vars => SyncInv'
<1> SUFFICES ASSUME SyncInv, [Next]_vars PROVE SyncInv'
  BY Zenon
<1>0. Base'
  BY Zenon, BaseStep DEF SyncInv
<1>1. CASE UNCHANGED vars
  <2>1. UNCHANGED hsmVars /\ UNCHANGED tlbVars
    BY Zenon, <1>1 DEF vars
  <2>2. UNCHANGED <<hstate, pc, callee, ipi_type, fifo, tlb_sync, mask, event, req, cur>>
    BY Zenon, <2>1 DEF hsmVars, tlbVars
  <2>3. \A h \in Hart : Owed(h)' = Owed(h) /\ Down(h)' = Down(h)
    BY Zenon, <2>2 DEF Owed, Named, Down
  <2>4. DownInv' /\ DistinctInv' /\ OwedInv' /\ SyncBalance'
    BY Zenon, <2>2, <2>3 DEF SyncInv, DownInv, DistinctInv, OwedInv, SyncBalance
  <2> QED
    BY Zenon, <1>0, <2>4 DEF SyncInv
<1>2. CASE Call
  BY Zenon, <1>0, <1>2, CallSync DEF SyncInv
<1>3. ASSUME NEW h \in Hart, HsmStep(h), UNCHANGED tlbVars PROVE SyncInv'
  BY <1>0, <1>3, HsmStepSync DEF SyncInv
<1>4. ASSUME NEW h \in Hart, IpiStep(h) \/ IpiTrap(h) \/ ClearSmode(h) PROVE SyncInv'
  BY Zenon, <1>0, <1>4, IpiStepSync DEF SyncInv
<1> QED
  BY Zenon, <1>1, <1>2, <1>3, <1>4 DEF Next, Firmware

(* tlb_sync of a hart is the number of targets that still owe it an        *)
(* answer, less the one that it has queued and not yet counted: the wait   *)
(* in tlb_sync() ends neither early nor never for want of a count.         *)
THEOREM SyncBalanced == Spec => []SyncBalance
<1>1. Init => SyncInv
  BY Zenon, InitSync
<1>2. SyncInv /\ [Next]_vars => SyncInv'
  BY Zenon, SyncStep
<1>3. SyncInv => SyncBalance
  BY Zenon DEF SyncInv
<1> QED
  BY <1>1, <1>2, <1>3, PTL DEF Spec
=============================================================================
