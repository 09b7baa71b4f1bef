---------------------------- MODULE SbiFenceProofs --------------------------
(***************************************************************************)
(* No event or queued fence is stranded, and a remote fence has been       *)
(* executed by every target when the call returns, for any number of harts *)
(* and any FIFO size.  The second is about a plain request; the requests   *)
(* of the other harts, with which it may be merged, are arbitrary.  No     *)
(* FIFO overflows.                                                         *)
(***************************************************************************)
EXTENDS SbiSyncProofs

(* Steps that set no event and lose no interrupt that stands for one.      *)
LEMMA EventFrame ==
    ASSUME HsmTypes, EventsDelivered, NEW h \in Hart, NEW l, pc' = [pc EXCEPT ![h] = l],
           pc[h] \notin {"ipi_xchg", "raise", "count", "set_type"}, UNCHANGED ipi_type,
           \A t \in Hart : ipi_type[t] # {} /\ msip[t] = 1 => msip'[t] = 1 \/ pc'[t] = "ipi_xchg",
           \A g \in Hart \ {h} : callee'[g] = callee[g] /\ event'[g] = event[g],
           \A t \in Hart : fifo'[t] # <<>> =>
              \/ fifo[t] # <<>> /\ (Draining(t) => Draining(t)')
              \/ l = "count" /\ callee'[h] = t /\ event'[h] = "TLB"
    PROVE  EventsDelivered'
<1>1. \A g \in Hart : pc'[g] = IF g = h THEN l ELSE pc[g]
  BY Zenon, SMTT(30) DEF HsmTypes
<1> SUFFICES ASSUME NEW t \in Hart
             PROVE  /\ ipi_type[t] # {} =>
                          \/ msip'[t] = 1 \/ pc'[t] = "ipi_xchg"
                          \/ \E g \in Hart : pc'[g] = "raise" /\ callee'[g] = t
                    /\ fifo'[t] # <<>> =>
                          \/ "TLB" \in ipi_type[t] \/ Draining(t)'
                          \/ \E g \in Hart : /\ pc'[g] \in {"count", "set_type"}
                                             /\ callee'[g] = t /\ event'[g] = "TLB"
  BY ZenonT(30), SMTT(30) DEF EventsDelivered
<1>2. ASSUME ipi_type[t] # {}
      PROVE  \/ msip'[t] = 1 \/ pc'[t] = "ipi_xchg"
             \/ \E g \in Hart : pc'[g] = "raise" /\ callee'[g] = t
  <2>1. CASE \E g \in Hart : pc[g] = "raise" /\ callee[g] = t
    BY <2>1, <1>1
  <2>2. CASE msip[t] = 1 \/ pc[t] = "ipi_xchg"
    BY Zenon, <1>2, <2>2, <1>1
  <2> QED
    BY Zenon, <1>2, <2>1, <2>2 DEF EventsDelivered
<1>3. ASSUME fifo'[t] # <<>>
      PROVE  \/ "TLB" \in ipi_type[t] \/ Draining(t)'
             \/ \E g \in Hart : /\ pc'[g] \in {"count", "set_type"}
                                /\ callee'[g] = t /\ event'[g] = "TLB"
  <2>1. CASE l = "count" /\ callee'[h] = t /\ event'[h] = "TLB"
    BY Zenon, <2>1, <1>1
  <2>2. CASE fifo[t] # <<>> /\ (Draining(t) => Draining(t)')
    <3>1. CASE \E g \in Hart : /\ pc[g] \in {"count", "set_type"}
                               /\ callee[g] = t /\ event[g] = "TLB"
      BY <3>1, <1>1
    <3>2. CASE "TLB" \in ipi_type[t] \/ Draining(t)
      BY Zenon, <2>2, <3>2
    <3> QED
      BY Zenon, <2>2, <3>1, <3>2 DEF EventsDelivered
  <2> QED
    BY Zenon, <1>3, <2>1, <2>2
<1> QED
  BY Zenon, <1>2, <1>3

LEMMA HsmStepEvents ==
    ASSUME SyncInv, EventsDelivered, NEW h \in Hart, HsmStep(h), UNCHANGED tlbVars
    PROVE  EventsDelivered'
<1>0. Types /\ HsmTypes /\ SendInv /\ DownInv /\ TicketInv
  BY Zenon DEF SyncInv, Base, Types
<1>1. PICK l \in HsmPC : pc' = [pc EXCEPT ![h] = l]
  BY Zenon, <1>0, HsmMoves
<1>2. pc[h] \in HsmPC \ {"smode"} /\ \A g \in Hart \ {h} : callee'[g] = callee[g]
  BY Zenon, <1>0, HsmMoves
<1>3. \A t \in Hart : ipi_type[t] # {} /\ msip[t] = 1 => msip'[t] = 1
  <2> USE DEF At, Go, Set
  <2>1. CASE Warmboot(h)
    <3>1. ipi_type[h] = {}
      BY Zenon, <1>0, <2>1 DEF Warmboot, DownInv
    <3> QED
      BY SMTT(30), <1>0, <2>1, <3>1 DEF Warmboot, HsmTypes
  <2>2. CASE StartIpi(h)
    BY Zenon, <1>0, <2>2 DEF StartIpi, HsmTypes
  <2>3. CASE ~Warmboot(h) /\ ~StartIpi(h)
    <3>1. UNCHANGED msip
      BY Zenon, <2>3 DEF HsmStep, StartArgs, StartCas, StartErr, HsmExit, HartWait, Wfi, StartFinish,
                  StartJump, Resume, NonRetWake, ResumeStart, ResumeFinish
    <3> QED
      BY Zenon, <3>1
  <2> QED
    BY Zenon, <2>1, <2>2, <2>3
<1>4. \A t \in Hart : Draining(t) => Draining(t)'
  BY Zenon, <1>0, <1>1, <1>2 DEF Draining, tlbVars, HsmTypes, HsmPC
<1> QED
  BY Zenon, <1>0, <1>1, <1>2, <1>3, <1>4, EventFrame DEF tlbVars, HsmPC

LEMMA CallEvents ==
    ASSUME SyncInv, EventsDelivered, Call
    PROVE  EventsDelivered'
<1> USE DEF At, Go, Set, ChangeState
<1>0. Types /\ HsmTypes /\ TlbTypes
  BY SMTT(30) DEF SyncInv, Base, Types
<1> DEFINE Entered ==
      \E h \in Hart : \E l :
        /\ pc[h] = "smode" /\ pc' = [pc EXCEPT ![h] = l]
        /\ UNCHANGED <<ipi_type, msip, fifo, ret>>
        /\ \A g \in Hart \ {h} : callee'[g] = callee[g] /\ event'[g] = event[g]
<1>1. Entered
  <2>1. ASSUME NEW h \in Hart, NEW T, NEW ev, NEW e, SendMany(h, T, ev, e)
        PROVE  /\ pc[h] = "smode" /\ pc' = [pc EXCEPT ![h] = "send"]
               /\ UNCHANGED <<ipi_type, msip, fifo, ret>>
               /\ \A g \in Hart \ {h} : callee'[g] = callee[g] /\ event'[g] = event[g]
    BY Zenon, <1>0, <2>1 DEF SendMany, TlbTypes
  <2>2. CASE \E c \in Fences : TlbRequest(c[1], c[2], c[3])
    <3>1. PICK c \in Fences : TlbRequest(c[1], c[2], c[3])
      BY Zenon, <2>2
    <3>2. c[1] \in Hart
      BY Zenon, TlbAssumption
    <3>3. \E e : SendMany(c[1], c[2], "TLB", e)
      BY Zenon, <3>1 DEF TlbRequest
    <3> QED
      BY Zenon, <3>2, <3>3, <2>1
  <2>3. CASE \E c \in Notices : SendSmode(c[1], c[2])
    <3>1. PICK c \in Notices : SendSmode(c[1], c[2])
      BY Zenon, <2>3
    <3>2. c[1] \in Hart
      BY TlbAssumption
    <3> QED
      BY <3>1, <3>2, <2>1 DEF SendSmode
  <2>4. ASSUME UNCHANGED tlbVars, \E c \in Starts : HartStart(c[1], c[2], c[3])
        PROVE  Entered
    <3>1. PICK c \in Starts : HartStart(c[1], c[2], c[3])
      BY Zenon, <2>4
    <3>2. c[1] \in Hart
      BY Zenon, TlbAssumption
    <3>3. /\ pc[c[1]] = "smode" /\ pc' = [pc EXCEPT ![c[1]] = "start_args"] /\ UNCHANGED msip
          /\ \A g \in Hart \ {c[1]} : callee'[g] = callee[g]
      BY <1>0, <3>1 DEF HartStart, HsmTypes
    <3> QED
      BY Zenon, <2>4, <3>2, <3>3 DEF tlbVars
  <2>5. ASSUME UNCHANGED tlbVars, \E c \in Suspends : HartSuspend(c[1], c[2], c[3])
        PROVE  Entered
    <3>1. PICK c \in Suspends : HartSuspend(c[1], c[2], c[3])
      BY Zenon, <2>5
    <3>2. c[1] \in Hart
      BY Zenon, TlbAssumption
    <3> QED
      BY Zenon, <2>5, <3>1, <3>2 DEF HartSuspend, tlbVars
  <2>6. ASSUME UNCHANGED tlbVars, \E h \in Stops : HartStop(h)
        PROVE  Entered
    BY Zenon, <2>6, TlbAssumption DEF HartStop, tlbVars
  <2> QED
    BY Zenon, <2>2, <2>3, <2>4, <2>5, <2>6 DEF Call
<1>2. PICK h \in Hart : \E l :
        /\ pc[h] = "smode" /\ pc' = [pc EXCEPT ![h] = l]
        /\ UNCHANGED <<ipi_type, msip, fifo, ret>>
        /\ \A g \in Hart \ {h} : callee'[g] = callee[g] /\ event'[g] = event[g]
  BY Zenon, <1>1
<1>3. \A t \in Hart : Draining(t) => Draining(t)'
  BY Zenon, <1>0, <1>2 DEF Draining, HsmTypes
<1> QED
  BY Zenon, <1>0, <1>2, <1>3, EventFrame

LEMMA IpiStepEvents ==
    ASSUME SyncInv, EventsDelivered, NEW h \in Hart, IpiStep(h) \/ IpiTrap(h) \/ ClearSmode(h)
    PROVE  EventsDelivered'
<1> USE DEF At, Go, Set
<1>0. Types /\ HsmTypes /\ TlbTypes /\ SendInv /\ DownInv
  BY Zenon DEF SyncInv, Base, Types
<1>s. pc = [pc EXCEPT ![h] = pc[h]]
  BY Zenon, <1>0 DEF HsmTypes
<1>r. pc[h] # "ack" => ret[h] = "smode"
  BY ZenonT(30), <1>0 DEF SendInv
<1>1. CASE SendSelf(h) \/ ClearSmode(h)
  <2>1. UNCHANGED <<pc, ipi_type, msip, callee, event, fifo, ret>>
    BY Zenon, <1>1 DEF SendSelf, ClearSmode, hsmVars
  <2>2. pc[h] \notin {"ipi_xchg", "raise", "count", "set_type"}
    BY Zenon, <1>1 DEF SendSelf, ClearSmode
  <2>3. pc' = [pc EXCEPT ![h] = pc[h]] /\ \A u \in Hart : Draining(u) => Draining(u)'
    BY Zenon, <1>s, <2>1 DEF Draining
  <2> QED
    BY Zenon, <1>0, <2>1, <2>2, <2>3, EventFrame
<1>2. CASE InplaceUpdate(h)
  <2>1. PICK t \in mask[h] \ {h} :
              /\ callee' = [callee EXCEPT ![h] = t]
              /\ \/ event[h] # "TLB" /\ Go(h, "set_type") /\ UNCHANGED fifo
                 \/ event[h] = "TLB" /\ Go(h, "enqueue") /\ UNCHANGED fifo
                 \/ event[h] = "TLB" /\ Go(h, "count") /\ Merges(h, t)
    BY Zenon, <1>0, <1>2, InplaceCases
  <2>2. UNCHANGED <<ipi_type, msip, event, ret>> /\ pc[h] = "send"
    BY Zenon, <1>2 DEF InplaceUpdate
  <2>3. t \in Hart /\ callee'[h] = t /\ \A g \in Hart \ {h} : callee'[g] = callee[g]
    BY <1>0, <2>1 DEF HsmTypes, TlbTypes
  <2>4. PICK l : pc' = [pc EXCEPT ![h] = l]
    BY Zenon, <2>1
  <2>5. \A u \in Hart : Draining(u) => Draining(u)'
    BY Zenon, <1>0, <2>2, <2>4 DEF Draining, HsmTypes
  <2>6. CASE UNCHANGED fifo
    BY Zenon, <1>0, <2>2, <2>3, <2>4, <2>5, <2>6, EventFrame
  <2>7. CASE event[h] = "TLB" /\ Go(h, "count") /\ Merges(h, t)
    <3>1. \A u \in Hart \ {t} : fifo'[u] = fifo[u]
      BY <1>0, <2>7 DEF Merges, TlbTypes
    <3>2. \A u \in Hart : fifo'[u] # <<>> =>
              \/ fifo[u] # <<>> /\ (Draining(u) => Draining(u)')
              \/ "count" = "count" /\ callee'[h] = u /\ event'[h] = "TLB"
      BY Zenon, <2>2, <2>3, <2>5, <2>7, <3>1
    <3> QED
      BY Zenon, <1>0, <2>2, <2>3, <2>7, <3>2, EventFrame
  <2> QED
    BY Zenon, <2>1, <2>6, <2>7
<1>3. CASE Enqueue(h)
  <2>1. callee[h] \in Hart /\ event[h] = "TLB"
    BY Zenon, <1>0, <1>3 DEF Enqueue, SendInv, Targeting, TlbTypes
  <2>2. UNCHANGED <<ipi_type, msip, event, ret>> /\ pc[h] = "enqueue"
    BY Zenon, <1>3 DEF Enqueue
  <2>3. \/ /\ pc' = [pc EXCEPT ![h] = "count"] /\ UNCHANGED callee
           /\ fifo' = [fifo EXCEPT ![callee[h]] = Append(fifo[callee[h]], req[h])]
        \/ pc' = [pc EXCEPT ![h] = "full"] /\ UNCHANGED fifo /\ callee' = [callee EXCEPT ![h] = NoHart]
    BY Zenon, <1>3 DEF Enqueue
  <2>4. PICK l : pc' = [pc EXCEPT ![h] = l]
    BY <2>3
  <2>5. \A u \in Hart : Draining(u) => Draining(u)'
    BY Zenon, <1>0, <2>2, <2>4 DEF Draining, HsmTypes
  <2>6. \A g \in Hart \ {h} : callee'[g] = callee[g]
    BY <1>0, <2>3 DEF HsmTypes
  <2>7. CASE UNCHANGED fifo
    BY Zenon, <1>0, <2>2, <2>4, <2>5, <2>6, <2>7, EventFrame
  <2>8. CASE /\ pc' = [pc EXCEPT ![h] = "count"] /\ UNCHANGED callee
             /\ fifo' = [fifo EXCEPT ![callee[h]] = Append(fifo[callee[h]], req[h])]
    <3>1. \A u \in Hart \ {callee[h]} : fifo'[u] = fifo[u]
      BY Zenon, <1>0, <2>8 DEF TlbTypes
    <3>2. \A u \in Hart : fifo'[u] # <<>> =>
              \/ fifo[u] # <<>> /\ (Draining(u) => Draining(u)')
              \/ "count" = "count" /\ callee'[h] = u /\ event'[h] = "TLB"
      BY ZenonT(30), <2>1, <2>2, <2>5, <2>8, <3>1
    <3> QED
      BY Zenon, <1>0, <2>2, <2>6, <2>8, <3>2, EventFrame
  <2> QED
    BY Zenon, <2>3, <2>7, <2>8
<1>4. CASE CountTarget(h)
  <2>1. /\ pc[h] = "count" /\ pc' = [pc EXCEPT ![h] = "set_type"]
        /\ UNCHANGED <<ipi_type, msip, callee, event, fifo, ret>>
    BY Zenon, <1>4 DEF CountTarget
  <2>2. \A g \in Hart : pc'[g] = IF g = h THEN "set_type" ELSE pc[g]
    BY Zenon, <1>0, <2>1 DEF HsmTypes
  <2> QED
    BY SMTT(60), <2>1, <2>2 DEF EventsDelivered, Draining
<1>5. CASE SyncDone(h)
  <2>1. /\ pc[h] = "send" /\ pc' = [pc EXCEPT ![h] = "smode"]
        /\ UNCHANGED <<ipi_type, msip, callee, fifo, ret>>
        /\ \A g \in Hart \ {h} : event'[g] = event[g]
    BY Zenon, <1>0, <1>5 DEF SyncDone, TlbTypes
  <2>2. \A u \in Hart : Draining(u) => Draining(u)'
    BY Zenon, <1>0, <2>1 DEF Draining, HsmTypes
  <2> QED
    BY Zenon, <1>0, <2>1, <2>2, EventFrame
<1>6. CASE SetType(h)
  <2>1. callee[h] \in Hart /\ pc[h] = "set_type"
    BY Zenon, <1>0, <1>6 DEF SetType, SendInv, Targeting, TlbTypes
  <2>2. /\ UNCHANGED <<msip, event, fifo, ret>>
        /\ ipi_type' = [ipi_type EXCEPT ![callee[h]] = ipi_type[callee[h]] \cup {event[h]}]
        /\ IF ipi_type[callee[h]] = {} THEN pc' = [pc EXCEPT ![h] = "raise"] /\ UNCHANGED callee
           ELSE pc' = [pc EXCEPT ![h] = "send"] /\ callee' = [callee EXCEPT ![h] = NoHart]
    BY SMTT(30), <1>6 DEF SetType
  <2>3. /\ \A u \in Hart : ipi_type'[u] = IF u = callee[h] THEN ipi_type[u] \cup {event[h]} ELSE ipi_type[u]
        /\ \A g \in Hart \ {h} : pc'[g] = pc[g] /\ callee'[g] = callee[g]
        /\ ipi_type[callee[h]] = {} => pc'[h] = "raise" /\ callee'[h] = callee[h]
        /\ pc'[h] \in {"raise", "send"}
    <3>1. \A u \in Hart : ipi_type'[u] = IF u = callee[h] THEN ipi_type[u] \cup {event[h]} ELSE ipi_type[u]
      BY Zenon, <1>0, <2>2 DEF TlbTypes
    <3>2. CASE ipi_type[callee[h]] = {}
      BY Zenon, <1>0, <2>2, <3>1, <3>2 DEF HsmTypes
    <3>3. CASE ipi_type[callee[h]] # {}
      BY Zenon, <1>0, <2>2, <3>1, <3>3 DEF HsmTypes
    <3> QED
      BY Zenon, <3>2, <3>3
  <2>4. ASSUME NEW u \in Hart, ipi_type'[u] # {}
        PROVE  \/ msip'[u] = 1 \/ pc'[u] = "ipi_xchg"
               \/ \E g \in Hart : pc'[g] = "raise" /\ callee'[g] = u
    <3>1. CASE ipi_type[u] = {}
      BY ZenonT(30), <2>3, <2>4, <3>1
    <3>2. CASE ipi_type[u] # {}
      <4>1. \/ msip[u] = 1 \/ pc[u] = "ipi_xchg"
            \/ \E g \in Hart : pc[g] = "raise" /\ callee[g] = u
        BY Zenon, <3>2 DEF EventsDelivered
      <4>2. \A g \in Hart : pc[g] \in {"raise", "ipi_xchg"} => pc'[g] = pc[g] /\ callee'[g] = callee[g]
        BY Zenon, <2>1, <2>3
      <4> QED
        BY Zenon, <2>2, <4>1, <4>2
    <3> QED
      BY Zenon, <3>1, <3>2
  <2>5. ASSUME NEW u \in Hart, fifo'[u] # <<>>
        PROVE  \/ "TLB" \in ipi_type'[u] \/ Draining(u)'
               \/ \E g \in Hart : /\ pc'[g] \in {"count", "set_type"}
                                  /\ callee'[g] = u /\ event'[g] = "TLB"
    <3>1. Draining(u) => Draining(u)'
      BY Zenon, <2>1, <2>2, <2>3 DEF Draining
    <3>2. CASE "TLB" \in ipi_type[u] \/ Draining(u)
      BY Zenon, <2>3, <3>1, <3>2
    <3>3. CASE \E g \in Hart : /\ pc[g] \in {"count", "set_type"}
                               /\ callee[g] = u /\ event[g] = "TLB"
      <4>1. PICK g \in Hart : pc[g] \in {"count", "set_type"} /\ callee[g] = u /\ event[g] = "TLB"
        BY Zenon, <3>3
      <4>2. CASE g = h
        BY Zenon, <2>3, <4>1, <4>2
      <4>3. CASE g # h
        BY Zenon, <2>2, <2>3, <4>1, <4>3
      <4> QED
        BY Zenon, <4>2, <4>3
    <3> QED
      BY Zenon, <2>2, <2>5, <3>2, <3>3 DEF EventsDelivered
  <2> QED
    BY ZenonT(30), <2>4, <2>5 DEF EventsDelivered
<1>7. CASE RawSend(h)
  <2>1. callee[h] \in Hart /\ pc[h] = "raise"
    BY <1>0, <1>7 DEF RawSend, SendInv, Targeting, TlbTypes
  <2>2. /\ UNCHANGED <<ipi_type, event, fifo, ret>>
        /\ \A u \in Hart : msip'[u] = IF u = callee[h] THEN 1 ELSE msip[u]
        /\ \A g \in Hart : pc'[g] = IF g = h THEN "send" ELSE pc[g]
        /\ \A g \in Hart \ {h} : callee'[g] = callee[g]
    <3>1. /\ UNCHANGED <<ipi_type, event, fifo, ret>>
          /\ msip' = [msip EXCEPT ![callee[h]] = 1] /\ pc' = [pc EXCEPT ![h] = "send"]
          /\ callee' = [callee EXCEPT ![h] = NoHart]
      BY Zenon, <1>7 DEF RawSend
    <3> QED
      BY Zenon, <1>0, <3>1 DEF HsmTypes
  <2>3. \A u \in Hart : Draining(u) => Draining(u)'
    BY Zenon, <2>1, <2>2 DEF Draining
  <2>4. ASSUME NEW u \in Hart, ipi_type'[u] # {}
        PROVE  \/ msip'[u] = 1 \/ pc'[u] = "ipi_xchg"
               \/ \E g \in Hart : pc'[g] = "raise" /\ callee'[g] = u
    <3>1. \/ msip[u] = 1 \/ pc[u] = "ipi_xchg"
          \/ \E g \in Hart : pc[g] = "raise" /\ callee[g] = u
      BY Zenon, <2>2, <2>4 DEF EventsDelivered
    <3>2. CASE \E g \in Hart : pc[g] = "raise" /\ callee[g] = u
      BY Zenon, <2>2, <3>2
    <3>3. CASE msip[u] = 1 \/ pc[u] = "ipi_xchg"
      BY Zenon, <2>1, <2>2, <3>3
    <3> QED
      BY Zenon, <3>1, <3>2, <3>3
  <2>5. ASSUME NEW u \in Hart, fifo'[u] # <<>>
        PROVE  \/ "TLB" \in ipi_type'[u] \/ Draining(u)'
               \/ \E g \in Hart : /\ pc'[g] \in {"count", "set_type"}
                                  /\ callee'[g] = u /\ event'[g] = "TLB"
    <3>1. \/ "TLB" \in ipi_type[u] \/ Draining(u)
          \/ \E g \in Hart : /\ pc[g] \in {"count", "set_type"}
                             /\ callee[g] = u /\ event[g] = "TLB"
      BY Zenon, <2>2, <2>5 DEF EventsDelivered
    <3>2. \A g \in Hart : pc[g] \in {"count", "set_type"} => pc'[g] = pc[g] /\ callee'[g] = callee[g]
      BY Zenon, <2>1, <2>2
    <3> QED
      BY Zenon, <2>2, <2>3, <3>1, <3>2
  <2> QED
    BY Zenon, <2>4, <2>5 DEF EventsDelivered
<1>8. CASE IpiProcess(h)
  <2>1. /\ pc[h] = "ipi_xchg" /\ UNCHANGED <<msip, callee, event, fifo, ret>>
        /\ \A u \in Hart : ipi_type'[u] = IF u = h THEN {} ELSE ipi_type[u]
        /\ \A g \in Hart \ {h} : pc'[g] = pc[g]
        /\ "TLB" \in ipi_type[h] => pc'[h] = "tlb_process"
    BY Zenon, <1>0, <1>8 DEF IpiProcess, HsmTypes, TlbTypes
  <2>2. Draining(h) => Draining(h)'
    BY Zenon, <2>1 DEF Draining
  <2>3. \A u \in Hart \ {h} : Draining(u) => Draining(u)'
    BY Zenon, <2>1 DEF Draining
  <2>4. ASSUME NEW u \in Hart, ipi_type'[u] # {}
        PROVE  \/ msip'[u] = 1 \/ pc'[u] = "ipi_xchg"
               \/ \E g \in Hart : pc'[g] = "raise" /\ callee'[g] = u
    <3>1. u # h /\ ipi_type[u] # {}
      BY Zenon, <2>1, <2>4
    <3>2. \/ msip[u] = 1 \/ pc[u] = "ipi_xchg"
          \/ \E g \in Hart : pc[g] = "raise" /\ callee[g] = u
      BY Zenon, <3>1 DEF EventsDelivered
    <3>3. pc'[u] = pc[u] /\ \A g \in Hart : pc[g] = "raise" => pc'[g] = pc[g]
      BY Zenon, <2>1, <3>1
    <3> QED
      BY Zenon, <2>1, <3>2, <3>3
  <2>5. ASSUME NEW u \in Hart, fifo'[u] # <<>>
        PROVE  \/ "TLB" \in ipi_type'[u] \/ Draining(u)'
               \/ \E g \in Hart : /\ pc'[g] \in {"count", "set_type"}
                                  /\ callee'[g] = u /\ event'[g] = "TLB"
    <3>1. "TLB" \in ipi_type[h] => Draining(h)'
      BY Zenon, <1>r, <2>1 DEF Draining
    <3>2. \A g \in Hart : pc[g] \in {"count", "set_type"} => pc'[g] = pc[g]
      BY Zenon, <2>1
    <3>3. fifo[u] # <<>>
      BY Zenon, <2>1, <2>5
    <3>4. \/ "TLB" \in ipi_type[u] \/ Draining(u)
          \/ \E g \in Hart : /\ pc[g] \in {"count", "set_type"}
                             /\ callee[g] = u /\ event[g] = "TLB"
      BY Zenon, <3>3 DEF EventsDelivered
    <3> QED
      BY Zenon, <2>1, <2>2, <2>3, <3>1, <3>2, <3>4
  <2> QED
    BY Zenon, <2>4, <2>5 DEF EventsDelivered
<1>9. CASE Dequeue(h)
  <2>1. /\ UNCHANGED <<ipi_type, msip, callee, event>> /\ pc' = [pc EXCEPT ![h] = "ack"]
        /\ pc[h] \in {"full", "send", "tlb_process"} /\ (pc[h] = "tlb_process" => ret'[h] = "tlb_process")
        /\ fifo[h] # <<>> /\ \A u \in Hart \ {h} : fifo'[u] = fifo[u] /\ ret'[u] = ret[u]
    BY Zenon, <1>0, <1>9 DEF Dequeue, TlbTypes
  <2>2. \A u \in Hart : Draining(u) => Draining(u)'
    BY Zenon, <1>0, <1>r, <2>1 DEF Draining, HsmTypes
  <2> QED
    BY Zenon, <1>0, <2>1, <2>2, EventFrame
<1>10. CASE DequeueEmpty(h)
  <2>1. PICK l : pc' = [pc EXCEPT ![h] = l]
    BY Zenon, <1>10 DEF DequeueEmpty
  <2>2. /\ UNCHANGED <<ipi_type, msip, callee, event, fifo, ret>> /\ fifo[h] = <<>>
        /\ pc[h] \in {"full", "tlb_process"}
    BY Zenon, <1>10 DEF DequeueEmpty, tlbVars
  <2>3. \A u \in Hart \ {h} : Draining(u) => Draining(u)'
    BY Zenon, <1>0, <2>1, <2>2 DEF Draining, HsmTypes
  <2> QED
    BY ZenonT(30), <1>0, <2>1, <2>2, <2>3, EventFrame
<1>11. CASE Acknowledge(h)
  <2>1. /\ UNCHANGED <<ipi_type, msip, callee, event, fifo>> /\ pc[h] = "ack"
        /\ \/ pc' = [pc EXCEPT ![h] = ret[h]] /\ ret' = [ret EXCEPT ![h] = "smode"]
           \/ UNCHANGED <<pc, ret>>
    BY Zenon, <1>11 DEF Acknowledge
  <2>2. PICK l : pc' = [pc EXCEPT ![h] = l]
    BY <1>s, <2>1
  <2>3. \A u \in Hart : Draining(u) => Draining(u)'
    BY <1>0, <2>1 DEF Draining, HsmTypes, TlbTypes
  <2> QED
    BY Zenon, <1>0, <2>1, <2>2, <2>3, EventFrame
<1>12. CASE IpiTrap(h) \/ IpiExit(h)
  <2>1. /\ UNCHANGED <<ipi_type, callee, event, fifo, ret>> /\ pc[h] \in {"smode", "ipi_exit"}
        /\ pc' = [pc EXCEPT ![h] = "ipi_xchg"] /\ pc'[h] = "ipi_xchg"
        /\ \A u \in Hart \ {h} : msip'[u] = msip[u]
    BY Zenon, <1>0, <1>12 DEF IpiTrap, IpiExit, tlbVars, HsmTypes
  <2>2. \A u \in Hart : Draining(u) => Draining(u)'
    BY Zenon, <1>0, <2>1 DEF Draining, HsmTypes
  <2> QED
    BY Zenon, <1>0, <2>1, <2>2, EventFrame
<1>13. CASE IpiTlbInit(h)
  <2>1. pc[h] = "ipi_init" /\ ipi_type[h] = {} /\ fifo[h] = <<>>
    BY Zenon, <1>0, <1>13 DEF IpiTlbInit, DownInv, Down
  <2>2. /\ UNCHANGED <<ipi_type, callee, event, fifo, ret>>
        /\ pc' = [pc EXCEPT ![h] = "start_finish"]
        /\ \A u \in Hart \ {h} : msip'[u] = msip[u]
    BY Zenon, <1>0, <1>13, <2>1 DEF IpiTlbInit, HsmTypes, TlbTypes
  <2>3. \A u \in Hart : Draining(u) => Draining(u)'
    BY Zenon, <1>0, <2>1, <2>2 DEF Draining, HsmTypes
  <2> QED
    BY Zenon, <1>0, <2>1, <2>2, <2>3, EventFrame
<1> QED
  BY Zenon, <1>1, <1>2, <1>3, <1>4, <1>5, <1>6, <1>7, <1>8, <1>9, <1>10, <1>11, <1>12, <1>13 DEF IpiStep

LEMMA EventStep == SyncInv /\ EventsDelivered /\ [Next]_vars => EventsDelivered'
<1> SUFFICES ASSUME SyncInv, EventsDelivered, [Next]_vars PROVE EventsDelivered'
  BY Zenon
<1>1. CASE UNCHANGED vars
  <2>1. UNCHANGED <<pc, ipi_type, msip, callee, event, fifo, ret>>
    BY Zenon, <1>1 DEF vars, hsmVars, tlbVars
  <2> QED
    BY <2>1 DEF EventsDelivered, Draining
<1>2. CASE Call
  BY Zenon, <1>2, CallEvents
<1>3. ASSUME NEW h \in Hart, HsmStep(h), UNCHANGED tlbVars PROVE EventsDelivered'
  BY Zenon, <1>3, HsmStepEvents
<1>4. ASSUME NEW h \in Hart, IpiStep(h) \/ IpiTrap(h) \/ ClearSmode(h) PROVE EventsDelivered'
  BY Zenon, <1>4, IpiStepEvents
<1> QED
  BY Zenon, <1>1, <1>2, <1>3, <1>4 DEF Next, Firmware

(* No interleaving of senders and receiver strands an event or a queued    *)
(* fence, although only the first sender of an event raises the interrupt  *)
(* and the receiver clears the line before it takes the events.            *)
THEOREM NothingStranded == Spec => []EventsDelivered
<1>1. Init => SyncInv /\ EventsDelivered
  BY ZenonT(30), InitSync DEF Init, EventsDelivered
<1>2. SyncInv /\ EventsDelivered /\ [Next]_vars => (SyncInv /\ EventsDelivered)'
  BY Zenon, SyncStep, EventStep
<1> QED
  BY <1>1, <1>2, PTL DEF Spec

-----------------------------------------------------------------------------
(* Target t is accounted for in the call of hart h: it is still to be told *)
(* or an entry in its FIFO names h and serves what h asked for.            *)
Counted(h, t) == pc[h] \in {"count", "set_type", "raise"} /\ t = callee[h]
Serves(e, r) == Plain(e) /\ Covers(e, r)
Queued(h, t) == \E i \in DOMAIN fifo[t] : h \in fifo[t][i].smask /\ Serves(fifo[t][i], req[h])

NeedInv ==
    \A h \in Hart : event[h] = "TLB" /\ Plain(req[h]) =>
        \A t \in need[h] : (t \in mask[h] /\ ~Counted(h, t)) \/ Queued(h, t)

FenceInv == SyncInv /\ NeedInv

-----------------------------------------------------------------------------
LEMMA ModSmall == ASSUME NEW m \in Nat, NEW a \in 0 .. m PROVE a % (m + 1) = a
  OBVIOUS

LEMMA ModWrap == ASSUME NEW m \in Nat, NEW a \in m + 1 .. 2 * m PROVE a % (m + 1) = a - (m + 1)
  OBVIOUS

(* A range fits, or its end lies before its start.                         *)
LEMMA EndIs ==
    ASSUME NEW e \in Info
    PROVE  /\ e.start + e.size <= MaxWord => End(e) = e.start + e.size
           /\ e.start + e.size > MaxWord => End(e) \in Nat /\ End(e) < e.start
<1>0. e.start \in 0 .. MaxWord /\ e.size \in 0 .. MaxWord /\ MaxWord \in Nat
  BY TlbAssumption DEF Info
<1>1. CASE e.start + e.size <= MaxWord
  <2>1. e.start + e.size \in 0 .. MaxWord
    BY <1>0, <1>1
  <2>2. End(e) = e.start + e.size
    BY Zenon, <1>0, <2>1, ModSmall DEF End
  <2> QED
    BY <1>0, <1>1, <2>2
<1>2. CASE e.start + e.size > MaxWord
  <2>1. e.start + e.size \in MaxWord + 1 .. 2 * MaxWord
    BY <1>0, <1>2
  <2>2. End(e) = e.start + e.size - (MaxWord + 1)
    BY <1>0, <2>1, ModWrap DEF End
  <2> QED
    BY <1>0, <1>2, <2>2
<1> QED
  BY <1>0, <1>1, <1>2

(* A range that does not wrap is an interval.                              *)
LEMMA PlainPages ==
    ASSUME NEW e \in Info, Plain(e), e.kind \in {"SFENCE_VMA", "SFENCE_VMA_ASID"}
    PROVE  Pages(e) = IF e.size = MaxWord THEN 0 .. MaxWord ELSE e.start .. e.start + e.size - 1
<1>1. e.start \in Nat /\ e.size \in Nat /\ e.start + e.size <= MaxWord /\ MaxWord \in Nat
  BY TlbAssumption DEF Info, Plain
<1>2. CASE e.size = MaxWord
  BY Zenon, <1>2 DEF Pages, FLUSH_ALL
<1>3. CASE e.size # MaxWord
  <2>0. e.kind # "FENCE_I"
    OBVIOUS
  <2>1. Pages(e) = {(e.start + i) % (MaxWord + 1) : i \in 0 .. e.size - 1}
    BY Zenon, <1>3, <2>0 DEF Pages, FLUSH_ALL, Plain
  <2>2. \A i \in 0 .. e.size - 1 : (e.start + i) % (MaxWord + 1) = e.start + i
    <3>1. \A i \in 0 .. e.size - 1 : e.start + i \in 0 .. MaxWord
      BY <1>1
    <3> QED
      BY Zenon, <1>1, <3>1, ModSmall
  <2>3. Pages(e) = {e.start + i : i \in 0 .. e.size - 1}
    BY Zenon, <2>1, <2>2
  <2>4. \A x \in e.start .. e.start + e.size - 1 : x - e.start \in 0 .. e.size - 1 /\ x = e.start + (x - e.start)
    BY <1>1
  <2>5. \A i \in 0 .. e.size - 1 : e.start + i \in e.start .. e.start + e.size - 1
    BY <1>1
  <2> QED
    BY Zenon, <1>3, <2>3, <2>4, <2>5
<1> QED
  BY Zenon, <1>2, <1>3

(* Merging loses nothing: the entry serves the new request, if that is     *)
(* plain, and what it served before.  A plain range is never skipped for,  *)
(* nor replaced by, one that is not plain.                                 *)
LEMMA MergedServes ==
    ASSUME NEW c \in Info, NEW n \in Info, UpdateCb(c, n) # "UNCHANGED"
    PROVE  /\ Plain(n) => Serves(Merged(c, n), n)
           /\ \A r : Serves(c, r) => Serves(Merged(c, n), r)
<1>1. /\ c.kind = n.kind /\ c.kind \in {"SFENCE_VMA", "SFENCE_VMA_ASID"}
      /\ c.kind = "SFENCE_VMA" \/ c.asid = n.asid
      /\ UpdateCb(c, n) = RangeCheck(c, n)
  BY Zenon DEF UpdateCb
<1>2. /\ c.start \in Nat /\ c.size \in Nat /\ c.size <= MaxWord
      /\ n.start \in Nat /\ n.size \in Nat /\ n.size <= MaxWord /\ MaxWord \in Nat
  BY TlbAssumption DEF Info
<1>3. /\ c.start + c.size <= MaxWord => End(c) = c.start + c.size
      /\ c.start + c.size > MaxWord => End(c) \in Nat /\ End(c) < c.start
      /\ n.start + n.size <= MaxWord => End(n) = n.start + n.size
      /\ n.start + n.size > MaxWord => End(n) \in Nat /\ End(n) < n.start
  BY Zenon, EndIs
<1> DEFINE m == Merged(c, n)
<1>4. m \in Info /\ m.kind = c.kind /\ m.asid = c.asid
  BY Zenon, MergedInfo DEF Merged
<1>5. /\ Plain(c) => Pages(c) = IF c.size = MaxWord THEN 0 .. MaxWord ELSE c.start .. c.start + c.size - 1
      /\ Plain(n) => Pages(n) = IF n.size = MaxWord THEN 0 .. MaxWord ELSE n.start .. n.start + n.size - 1
  BY Zenon, <1>1, PlainPages
<1>k. m.kind # "FENCE_I" /\ c.kind # "FENCE_I" /\ n.kind # "FENCE_I"
  BY <1>1, <1>4
<1>6. CASE UpdateCb(c, n) = "UPDATED"
  <2>1. m.start = n.start /\ m.size = n.size
    BY Zenon, <1>6 DEF Merged
  <2>2. n.start <= c.start /\ End(n) > End(c)
    BY Zenon, <1>1, <1>6 DEF RangeCheck
  <2>3. Pages(m) = Pages(n) /\ (Plain(n) => Plain(m))
    BY Zenon, <1>1, <1>4, <1>k, <2>1 DEF Pages, Plain
  <2>4. ASSUME Plain(c) PROVE Plain(n) /\ Pages(c) \subseteq Pages(n)
    <3>1. c.start + c.size <= MaxWord /\ n.start + n.size <= MaxWord /\ n.start + n.size > c.start + c.size
      BY <1>1, <1>2, <1>3, <2>2, <2>4 DEF Plain
    <3>2. Plain(n)
      BY <1>2, <3>1 DEF Plain
    <3> QED
      BY SMTT(30), <1>2, <1>5, <2>2, <2>4, <3>1, <3>2
  <2> QED
    BY Zenon, <1>1, <1>4, <2>3, <2>4 DEF Covers, Serves
<1>7. CASE UpdateCb(c, n) = "SKIP"
  <2>1. m.start = c.start /\ m.size = c.size
    BY Zenon, <1>7 DEF Merged
  <2>2. n.start >= c.start /\ End(n) <= End(c)
    BY Zenon, <1>1, <1>7 DEF RangeCheck
  <2>3. Pages(m) = Pages(c) /\ (Plain(c) => Plain(m))
    BY Zenon, <1>4, <1>k, <2>1 DEF Pages, Plain
  <2>4. ASSUME Plain(n) PROVE Plain(c) /\ Pages(n) \subseteq Pages(c)
    <3>1. c.start + c.size <= MaxWord /\ n.start + n.size <= c.start + c.size /\ n.start + n.size > 0
      BY <1>1, <1>2, <1>3, <2>2, <2>4 DEF Plain
    <3>2. Plain(c)
      BY <1>2, <3>1 DEF Plain
    <3> QED
      BY SMTT(30), <1>2, <1>5, <2>2, <2>4, <3>1, <3>2
  <2> QED
    BY Zenon, <1>1, <1>4, <2>3, <2>4 DEF Covers, Serves
<1> QED
  BY Zenon, <1>1, <1>6, <1>7 DEF RangeCheck

LEMMA CoversSelf == ASSUME NEW r PROVE Covers(r, r)
  BY Zenon DEF Covers

LEMMA InitFence == Init => FenceInv
  BY InitSync DEF Init, FenceInv, NeedInv

-----------------------------------------------------------------------------
(* Steps that leave the fences alone: hart h asks for none or is not about *)
(* to be counted at a target.                                              *)
LEMMA NeedFrame ==
    ASSUME HsmTypes, NeedInv, NEW h \in Hart, NEW l, pc' = [pc EXCEPT ![h] = l],
           UNCHANGED <<fifo, need, event, req>>,
           \A g \in Hart \ {h} : callee'[g] = callee[g] /\ mask'[g] = mask[g],
           \/ event[h] # "TLB"
           \/ l \notin {"count", "set_type", "raise"} /\ mask'[h] = mask[h]
           \/ pc[h] \in {"count", "set_type", "raise"} /\ mask'[h] = mask[h] /\ callee'[h] = callee[h]
           \/ pc[h] \in {"count", "set_type", "raise"} /\ mask[h] \ {callee[h]} = mask'[h] /\ l = "send"
    PROVE  NeedInv'
<1>2. \A g \in Hart : pc'[g] = IF g = h THEN l ELSE pc[g]
  BY Zenon DEF HsmTypes
<1>3. ASSUME NEW g \in Hart, event[g] = "TLB", Plain(req[g]), NEW t \in need[g]
      PROVE  (t \in mask'[g] /\ ~Counted(g, t)') \/ Queued(g, t)'
  <2>1. event[g] = "TLB" /\ (Queued(g, t) => Queued(g, t)')
    BY Zenon, <1>3 DEF Queued
  <2>2. CASE t \in mask[g] /\ ~Counted(g, t)
    <3>1. CASE g # h
      BY Zenon, <1>2, <2>1, <2>2, <3>1 DEF Counted
    <3>2. CASE g = h
      BY <1>2, <2>1, <2>2, <3>2 DEF Counted
    <3> QED
      BY Zenon, <3>1, <3>2
  <2> QED
    BY Zenon, <1>3, <2>1, <2>2 DEF NeedInv
<1> QED
  BY Zenon, <1>3 DEF NeedInv

LEMMA HsmStepFence ==
    ASSUME FenceInv, NEW h \in Hart, HsmStep(h), UNCHANGED tlbVars
    PROVE  NeedInv'
<1>0. Types /\ HsmTypes /\ SendInv /\ NeedInv
  BY Zenon DEF FenceInv, SyncInv, Base, Types
<1>1. PICK l \in HsmPC : pc' = [pc EXCEPT ![h] = l]
  BY Zenon, <1>0, HsmMoves
<1>2. l \notin {"count", "set_type", "raise"}
  BY DEF HsmPC
<1> QED
  BY Zenon, <1>0, <1>1, <1>2, HsmMoves, NeedFrame DEF tlbVars

LEMMA CallFence ==
    ASSUME FenceInv, Call
    PROVE  NeedInv'
<1> USE DEF At, Go, Set, ChangeState
<1>0. Types /\ HsmTypes /\ TlbTypes /\ SendInv /\ NeedInv
  BY Zenon DEF FenceInv, SyncInv, Base, Types
<1>1. ASSUME NEW h \in Hart, NEW T, NEW ev, NEW e, SendMany(h, T, ev, e)
      PROVE  NeedInv'
  <2>1. /\ \A g \in Hart \ {h} : /\ mask'[g] = mask[g] /\ event'[g] = event[g] /\ req'[g] = req[g]
                                 /\ need'[g] = need[g] /\ pc'[g] = pc[g]
        /\ mask'[h] = T /\ event'[h] = ev /\ req'[h] = e /\ pc'[h] = "send"
        /\ need'[h] = IF ev = "TLB" THEN T ELSE {}
        /\ UNCHANGED <<fifo, callee>>
    BY <1>0, <1>1 DEF SendMany, HsmTypes, TlbTypes
  <2>3. ASSUME NEW g \in Hart, event'[g] = "TLB", Plain(req'[g]), NEW t \in need'[g]
        PROVE  (t \in mask'[g] /\ ~Counted(g, t)') \/ Queued(g, t)'
    <3>1. CASE g = h
      BY Zenon, <2>1, <2>3, <3>1 DEF Counted
    <3>2. CASE g # h
      <4>1. (Counted(g, t)' <=> Counted(g, t)) /\ (Queued(g, t) => Queued(g, t)')
        BY Zenon, <2>1, <3>2 DEF Counted, Queued
      <4> QED
        BY <1>0, <2>1, <2>3, <3>2, <4>1 DEF NeedInv
    <3> QED
      BY <3>1, <3>2
  <2> QED
    BY Zenon, <2>3 DEF NeedInv
<1>2. CASE \E c \in Fences : TlbRequest(c[1], c[2], c[3])
  <2>1. PICK c \in Fences : TlbRequest(c[1], c[2], c[3])
    BY Zenon, <1>2
  <2>2. c[1] \in Hart
    BY Zenon, TlbAssumption
  <2>3. \E e : SendMany(c[1], c[2], "TLB", e)
    BY Zenon, <2>1 DEF TlbRequest
  <2> QED
    BY Zenon, <1>1, <2>2, <2>3
<1>3. CASE \E c \in Notices : SendSmode(c[1], c[2])
  <2>1. PICK c \in Notices : SendSmode(c[1], c[2])
    BY Zenon, <1>3
  <2>2. c[1] \in Hart
    BY Zenon, TlbAssumption
  <2> QED
    BY <1>1, <2>1, <2>2 DEF SendSmode
<1>4. ASSUME UNCHANGED tlbVars, NEW h \in Hart,
             \/ \E t, a : HartStart(h, t, a)
             \/ \E l, a : HartSuspend(h, l, a)
             \/ HartStop(h)
      PROVE  NeedInv'
  <2>1. pc[h] = "smode" /\ \A g \in Hart \ {h} : callee'[g] = callee[g]
    BY <1>0, <1>4 DEF HartStart, HartSuspend, HartStop, HsmTypes
  <2>2. \E l : pc' = [pc EXCEPT ![h] = l]
    BY Zenon, <1>4 DEF HartStart, HartSuspend, HartStop
  <2>3. event[h] # "TLB"
    BY Zenon, <1>0, <2>1 DEF SendInv, InSend, Targeting
  <2> QED
    BY Zenon, <1>0, <1>4, <2>1, <2>2, <2>3, NeedFrame DEF tlbVars
<1>5. CASE UNCHANGED tlbVars /\ \E c \in Starts : HartStart(c[1], c[2], c[3])
  BY <1>4, <1>5, TlbAssumption
<1>6. CASE UNCHANGED tlbVars /\ \E c \in Suspends : HartSuspend(c[1], c[2], c[3])
  BY Zenon, <1>4, <1>6, TlbAssumption
<1>7. CASE UNCHANGED tlbVars /\ \E h \in Stops : HartStop(h)
  BY <1>4, <1>7, TlbAssumption
<1> QED
  BY Zenon, <1>2, <1>3, <1>5, <1>6, <1>7 DEF Call

(* A request is queued at t: what the entries of t covered is still        *)
(* covered, and so is the request.                                         *)
LEMMA QueueFence ==
    ASSUME HsmTypes, NeedInv, NEW h \in Hart, NEW t \in Hart,
           pc[h] \in {"send", "enqueue"}, pc' = [pc EXCEPT ![h] = "count"],
           callee'[h] = t, \A g \in Hart \ {h} : callee'[g] = callee[g],
           UNCHANGED <<need, event, req, mask>>, \A u \in Hart \ {t} : fifo'[u] = fifo[u],
           \A i \in DOMAIN fifo[t] : \E j \in DOMAIN fifo'[t] :
              /\ fifo[t][i].smask \subseteq fifo'[t][j].smask
              /\ \A r : Serves(fifo[t][i], r) => Serves(fifo'[t][j], r),
           Plain(req[h]) =>
              \E j \in DOMAIN fifo'[t] : h \in fifo'[t][j].smask /\ Serves(fifo'[t][j], req[h]),
           need \in [Hart -> SUBSET Hart]
    PROVE  NeedInv'
<1>2. \A g \in Hart : pc'[g] = IF g = h THEN "count" ELSE pc[g]
  BY Zenon DEF HsmTypes
<1>3. ASSUME NEW g \in Hart, NEW u \in Hart, Queued(g, u) PROVE Queued(g, u)'
  <2>1. CASE u = t
    <3>1. PICK i \in DOMAIN fifo[t] : g \in fifo[t][i].smask /\ Serves(fifo[t][i], req[g])
      BY Zenon, <1>3, <2>1 DEF Queued
    <3>2. PICK j \in DOMAIN fifo'[t] :
              /\ fifo[t][i].smask \subseteq fifo'[t][j].smask
              /\ \A r : Serves(fifo[t][i], r) => Serves(fifo'[t][j], r)
      BY Zenon, <3>1
    <3>3. g \in fifo'[t][j].smask /\ Serves(fifo'[t][j], req[g])
      BY Zenon, <3>1, <3>2
    <3> QED
      BY <2>1, <3>3 DEF Queued
  <2>2. CASE u # t
    BY Zenon, <1>3, <2>2 DEF Queued
  <2> QED
    BY Zenon, <2>1, <2>2
<1>4. Plain(req[h]) => Queued(h, t)'
  BY Zenon DEF Queued
<1>5. ASSUME NEW g \in Hart, event[g] = "TLB", Plain(req[g]), NEW u \in need[g]
      PROVE  (u \in mask[g] /\ ~Counted(g, u)') \/ Queued(g, u)'
  <2>1. Plain(req[g]) /\ u \in Hart /\ ((u \in mask[g] /\ ~Counted(g, u)) \/ Queued(g, u))
    BY Zenon, <1>5 DEF NeedInv
  <2>2. CASE g = h
    BY Zenon, <1>2, <1>3, <1>4, <2>1, <2>2 DEF Counted
  <2>3. CASE g # h
    BY Zenon, <1>2, <1>3, <2>1, <2>3 DEF Counted
  <2> QED
    BY Zenon, <2>2, <2>3
<1> QED
  BY Zenon, <1>5 DEF NeedInv

(* Hart h takes the first entry of its FIFO and executes it.               *)
LEMMA DequeueFence ==
    ASSUME FenceInv, NEW h \in Hart, Dequeue(h)
    PROVE  NeedInv'
<1> USE DEF At, Go, Set
<1>0. HsmTypes /\ TlbTypes /\ NeedInv
  BY Zenon DEF FenceInv, SyncInv, Base, Types
<1>1. /\ fifo[h] # <<>> /\ UNCHANGED <<mask, event, req, callee>>
      /\ pc[h] \in {"full", "send", "tlb_process"} /\ \A g \in Hart : pc'[g] = IF g = h THEN "ack" ELSE pc[g]
      /\ fifo' = [fifo EXCEPT ![h] = Tail(fifo[h])]
      /\ need' = [g \in Hart |-> IF Covers(Head(fifo[h]), req[g]) THEN need[g] \ {h} ELSE need[g]]
  BY Zenon, <1>0 DEF Dequeue, Fenced, HsmTypes
<1>2. \A u \in Hart : fifo'[u] = IF u = h THEN Tail(fifo[h]) ELSE fifo[u]
  BY Zenon, <1>0, <1>1 DEF TlbTypes
<1>3. /\ Head(fifo[h]) = fifo[h][1] /\ DOMAIN fifo[h] = 1 .. Len(fifo[h]) /\ Len(fifo[h]) \in Nat \ {0}
      /\ DOMAIN Tail(fifo[h]) = 1 .. Len(fifo[h]) - 1
      /\ \A i \in 1 .. Len(fifo[h]) - 1 : Tail(fifo[h])[i] = fifo[h][i + 1]
  <2>1. fifo[h] \in Seq(Info)
    BY Zenon, <1>0 DEF TlbTypes
  <2> QED
    BY <1>1, <2>1
<1>5. ASSUME NEW g \in Hart, event[g] = "TLB", Plain(req[g]), NEW u \in need'[g]
      PROVE  (u \in mask[g] /\ ~Counted(g, u)') \/ Queued(g, u)'
  <2>1. u \in need[g] /\ (u = h => ~Covers(Head(fifo[h]), req[g]))
    BY Zenon, <1>1, <1>5
  <2>2. u \in Hart /\ ((u \in mask[g] /\ ~Counted(g, u)) \/ Queued(g, u))
    BY Zenon, <1>0, <1>5, <2>1 DEF NeedInv, TlbTypes
  <2>3. ~Counted(g, u) => ~Counted(g, u)'
    BY Zenon, <1>1 DEF Counted
  <2>4. ASSUME Queued(g, u) PROVE Queued(g, u)'
    <3>1. PICK i \in DOMAIN fifo[u] : g \in fifo[u][i].smask /\ Serves(fifo[u][i], req[g])
      BY <2>4 DEF Queued
    <3>2. CASE u # h
      BY Zenon, <1>1, <1>2, <2>2, <3>1, <3>2 DEF Queued
    <3>3. CASE u = h
      <4>1. i # 1 /\ i \in 1 .. Len(fifo[h])
        BY Zenon, <1>3, <2>1, <3>1, <3>3 DEF Serves
      <4>2. i - 1 \in 1 .. Len(fifo[h]) - 1 /\ (i - 1) + 1 = i
        BY <1>3, <4>1
      <4>3. i - 1 \in DOMAIN fifo'[h] /\ fifo'[h][i - 1] = fifo[h][i]
        BY Zenon, <1>2, <1>3, <4>2
      <4> QED
        BY <1>1, <3>1, <3>3, <4>3 DEF Queued
    <3> QED
      BY Zenon, <3>2, <3>3
  <2> QED
    BY Zenon, <2>2, <2>3, <2>4
<1> QED
  BY Zenon, <1>1, <1>5 DEF NeedInv

LEMMA IpiStepFence ==
    ASSUME FenceInv, NEW h \in Hart, IpiStep(h) \/ IpiTrap(h) \/ ClearSmode(h)
    PROVE  NeedInv'
<1> USE DEF At, Go, Set
<1>0. /\ Types /\ HsmTypes /\ TlbTypes /\ SendInv /\ DownInv /\ OwedInv /\ SyncBalance
      /\ NeedInv
  BY Zenon DEF FenceInv, SyncInv, Base, Types
<1>s. pc = [pc EXCEPT ![h] = pc[h]]
  BY Zenon, <1>0 DEF HsmTypes
<1>n. need \in [Hart -> SUBSET Hart]
  BY Zenon, <1>0 DEF TlbTypes
<1>1. CASE SendSelf(h)
  <2>1. /\ UNCHANGED <<fifo, event, req, pc, callee>> /\ h \in mask[h] /\ pc[h] = "send"
        /\ \A g \in Hart : mask'[g] = IF g = h THEN mask[h] \ {h} ELSE mask[g]
    BY Zenon, <1>0, <1>1 DEF SendSelf, hsmVars, TlbTypes
  <2>2. \A g \in Hart : need'[g] \subseteq need[g] /\ (event[h] = "TLB" => h \notin need'[h])
    <3>1. CASE event[h] = "TLB"
      BY <1>1, <3>1, CoversSelf DEF SendSelf, Fenced
    <3>2. CASE event[h] # "TLB"
      BY Zenon, <1>1, <3>2 DEF SendSelf
    <3> QED
      BY Zenon, <3>1, <3>2
  <2>4. ASSUME NEW g \in Hart, event[g] = "TLB", Plain(req[g]), NEW u \in need'[g]
        PROVE  (u \in mask'[g] /\ ~Counted(g, u)') \/ Queued(g, u)'
    <3>1. u \in need[g] /\ (Counted(g, u)' <=> Counted(g, u)) /\ (Queued(g, u)' <=> Queued(g, u))
      BY <2>1, <2>2, <2>4 DEF Counted, Queued
    <3>2. (u \in mask[g] /\ ~Counted(g, u)) \/ Queued(g, u)
      BY Zenon, <1>0, <2>4, <3>1 DEF NeedInv
    <3> QED
      BY Zenon, <2>1, <2>2, <2>4, <3>1, <3>2
  <2> QED
    BY Zenon, <2>1, <2>4 DEF NeedInv
<1>2. CASE InplaceUpdate(h)
  <2>1. PICK t \in mask[h] \ {h} :
              /\ callee' = [callee EXCEPT ![h] = t]
              /\ \/ event[h] # "TLB" /\ Go(h, "set_type") /\ UNCHANGED fifo
                 \/ event[h] = "TLB" /\ Go(h, "enqueue") /\ UNCHANGED fifo
                 \/ event[h] = "TLB" /\ Go(h, "count") /\ Merges(h, t)
    BY Zenon, <1>0, <1>2, InplaceCases
  <2>2. UNCHANGED <<need, event, req, mask>> /\ pc[h] = "send"
    BY <1>2 DEF InplaceUpdate
  <2>3. t \in Hart /\ callee'[h] = t /\ \A g \in Hart \ {h} : callee'[g] = callee[g]
    BY <1>0, <2>1 DEF HsmTypes, TlbTypes
  <2>4. CASE UNCHANGED fifo /\ event[h] # "TLB" /\ Go(h, "set_type")
    BY Zenon, <1>0, <2>2, <2>3, <2>4, NeedFrame
  <2>5. CASE UNCHANGED fifo /\ Go(h, "enqueue")
    BY Zenon, <1>0, <2>2, <2>3, <2>5, NeedFrame
  <2>6. CASE event[h] = "TLB" /\ Go(h, "count") /\ Merges(h, t)
    <3>1. PICK i \in DOMAIN fifo[t] :
             /\ UpdateCb(fifo[t][i], req[h]) # "UNCHANGED"
             /\ fifo' = [fifo EXCEPT ![t] = [fifo[t] EXCEPT ![i] = Merged(fifo[t][i], req[h])]]
      BY Zenon, <2>6 DEF Merges
    <3> DEFINE m == Merged(fifo[t][i], req[h])
    <3>2. fifo[t] \in Seq(Info) /\ fifo[t][i] \in Info /\ req[h] \in Info /\ req[h].smask = {h}
      BY SMTT(30), <1>0, <2>3, <2>6, <3>1 DEF TlbTypes, OwedInv
    <3>3. /\ Plain(req[h]) => Serves(m, req[h])
          /\ \A r : Serves(fifo[t][i], r) => Serves(m, r)
      BY Zenon, <3>1, <3>2, MergedServes
    <3>m. m.smask = fifo[t][i].smask \cup {h}
      BY <3>2, MergedInfo
    <3> HIDE DEF m
    <3>4. /\ DOMAIN fifo'[t] = DOMAIN fifo[t] /\ \A u \in Hart \ {t} : fifo'[u] = fifo[u]
          /\ \A j \in DOMAIN fifo[t] : fifo'[t][j] = IF j = i THEN m ELSE fifo[t][j]
      BY Zenon, <1>0, <2>3, <3>1, <3>2 DEF TlbTypes, m
    <3>5. Plain(req[h]) => \E j \in DOMAIN fifo'[t] : h \in fifo'[t][j].smask /\ Serves(fifo'[t][j], req[h])
      BY <3>1, <3>3, <3>m, <3>4
    <3>6. \A k \in DOMAIN fifo[t] : \E j \in DOMAIN fifo'[t] :
                /\ fifo[t][k].smask \subseteq fifo'[t][j].smask
                /\ \A r : Serves(fifo[t][k], r) => Serves(fifo'[t][j], r)
      BY Zenon, <3>1, <3>3, <3>m, <3>4
    <3> QED
      BY Zenon, <1>0, <1>n, <2>2, <2>3, <2>6, <3>4, <3>5, <3>6, QueueFence
  <2> QED
    BY <2>1, <2>4, <2>5, <2>6
<1>3. CASE Enqueue(h)
  <2>1. callee[h] \in Hart /\ event[h] = "TLB" /\ pc[h] = "enqueue" /\ req[h].smask = {h}
    BY Zenon, <1>0, <1>3 DEF Enqueue, SendInv, Targeting, TlbTypes, OwedInv
  <2>2. UNCHANGED <<need, event, req, mask>>
    BY Zenon, <1>3 DEF Enqueue
  <2>3. CASE UNCHANGED fifo /\ pc' = [pc EXCEPT ![h] = "full"] /\ callee' = [callee EXCEPT ![h] = NoHart]
    BY Zenon, <1>0, <2>2, <2>3, NeedFrame DEF HsmTypes
  <2>4. CASE /\ pc' = [pc EXCEPT ![h] = "count"] /\ UNCHANGED callee
             /\ fifo' = [fifo EXCEPT ![callee[h]] = Append(fifo[callee[h]], req[h])]
    <3> DEFINE t == callee[h]
               n == Len(fifo[t])
    <3>1. fifo[t] \in Seq(Info) /\ req[h] \in Info
      BY Zenon, <1>0, <2>1 DEF TlbTypes
    <3>2. fifo'[t] = Append(fifo[t], req[h]) /\ \A u \in Hart \ {t} : fifo'[u] = fifo[u]
      BY Zenon, <1>0, <2>1, <2>4 DEF TlbTypes
    <3>3. /\ DOMAIN fifo[t] = 1 .. n /\ DOMAIN fifo'[t] = 1 .. n + 1 /\ n \in Nat
          /\ fifo'[t][n + 1] = req[h] /\ \A j \in 1 .. n : fifo'[t][j] = fifo[t][j]
      BY <3>1, <3>2
    <3> HIDE DEF n
    <3>4. n + 1 \in DOMAIN fifo'[t] /\ \A j \in DOMAIN fifo'[t] : j \in 1 .. n \/ j = n + 1
      BY <3>3
    <3>6. Plain(req[h]) => \E j \in DOMAIN fifo'[t] : h \in fifo'[t][j].smask /\ Serves(fifo'[t][j], req[h])
      BY Zenon, <2>1, <3>3, <3>4, CoversSelf DEF Serves
    <3>7. \A k \in DOMAIN fifo[t] : k \in DOMAIN fifo'[t] /\ fifo'[t][k] = fifo[t][k]
      BY <3>3
    <3>8. \A k \in DOMAIN fifo[t] : \E j \in DOMAIN fifo'[t] :
                /\ fifo[t][k].smask \subseteq fifo'[t][j].smask
                /\ \A r : Serves(fifo[t][k], r) => Serves(fifo'[t][j], r)
      BY Zenon, <3>7
    <3> QED
      BY Zenon, <1>0, <1>n, <2>1, <2>2, <2>4, <3>2, <3>6, <3>8, QueueFence
  <2> QED
    BY Zenon, <1>3, <2>3, <2>4 DEF Enqueue
<1>4. CASE CountTarget(h)
  BY Zenon, <1>0, <1>4, NeedFrame DEF CountTarget
<1>5. CASE SetType(h)
  <2>1. UNCHANGED <<fifo, need, event, req>> /\ pc[h] = "set_type"
    BY Zenon, <1>5 DEF SetType
  <2>2. CASE ipi_type[callee[h]] = {}
    BY <1>0, <1>5, <2>1, <2>2, NeedFrame DEF SetType
  <2>3. CASE ipi_type[callee[h]] # {}
    <3>1. /\ pc' = [pc EXCEPT ![h] = "send"] /\ mask'[h] = mask[h] \ {callee[h]}
          /\ \A g \in Hart \ {h} : callee'[g] = callee[g] /\ mask'[g] = mask[g]
      BY <1>0, <1>5, <2>3 DEF SetType, HsmTypes, TlbTypes
    <3> QED
      BY Zenon, <1>0, <2>1, <3>1, NeedFrame
  <2> QED
    BY Zenon, <2>2, <2>3
<1>6. CASE RawSend(h)
  <2>1. /\ UNCHANGED <<fifo, need, event, req>> /\ pc[h] = "raise"
        /\ pc' = [pc EXCEPT ![h] = "send"] /\ mask'[h] = mask[h] \ {callee[h]}
        /\ \A g \in Hart \ {h} : callee'[g] = callee[g] /\ mask'[g] = mask[g]
    BY <1>0, <1>6 DEF RawSend, HsmTypes, TlbTypes
  <2> QED
    BY Zenon, <1>0, <2>1, NeedFrame
<1>7. CASE SyncDone(h)
  <2>1. /\ \A g \in Hart \ {h} : event'[g] = event[g] /\ req'[g] = req[g]
        /\ event'[h] = "none" /\ \A g \in Hart : pc'[g] = IF g = h THEN "smode" ELSE pc[g]
        /\ UNCHANGED <<fifo, need, callee, mask>>
    BY Zenon, <1>0, <1>7 DEF SyncDone, HsmTypes, TlbTypes
  <2>2. ASSUME NEW g \in Hart, event'[g] = "TLB", Plain(req'[g]), NEW u \in need[g]
        PROVE  (u \in mask[g] /\ ~Counted(g, u)') \/ Queued(g, u)'
    <3>1. g # h /\ event[g] = "TLB" /\ Plain(req[g])
      BY <2>1, <2>2
    <3>2. (Counted(g, u)' <=> Counted(g, u)) /\ (Queued(g, u)' <=> Queued(g, u))
      BY <2>1, <3>1 DEF Counted, Queued
    <3> QED
      BY Zenon, <1>0, <2>2, <3>1, <3>2 DEF NeedInv
  <2> QED
    BY Zenon, <2>1, <2>2 DEF NeedInv
<1>8. CASE Dequeue(h)
  BY Zenon, <1>8, DequeueFence
<1>9. CASE DequeueEmpty(h) \/ IpiExit(h) \/ IpiTrap(h)
  <2>1. \E l \in {"send", "smode", "hsm_exit", "ipi_xchg"} : pc' = [pc EXCEPT ![h] = l]
    BY Zenon, <1>9 DEF DequeueEmpty, IpiExit, IpiTrap, Back
  <2>2. UNCHANGED <<callee, fifo, need, event, req, mask>>
    BY <1>9 DEF DequeueEmpty, IpiExit, IpiTrap, tlbVars
  <2> QED
    BY Zenon, <1>0, <2>1, <2>2, NeedFrame
<1>10. CASE IpiProcess(h)
  <2>1. \E l \in {"tlb_process", "smode", "hsm_exit"} : pc' = [pc EXCEPT ![h] = l]
    BY Zenon, <1>10 DEF IpiProcess, Back
  <2>2. UNCHANGED <<callee, fifo, need, event, req, mask>>
    BY Zenon, <1>10 DEF IpiProcess
  <2> QED
    BY Zenon, <1>0, <2>1, <2>2, NeedFrame
<1>11. CASE ClearSmode(h)
  BY <1>0, <1>11, <1>s, NeedFrame DEF ClearSmode, hsmVars
<1>12. CASE Acknowledge(h)
  <2>1. \E l \in {"ack", "send", "smode", "tlb_process"} : pc' = [pc EXCEPT ![h] = l]
    BY <1>0, <1>12, <1>s DEF Acknowledge, TlbTypes
  <2>2. UNCHANGED <<callee, fifo, need, event, req, mask>>
    BY Zenon, <1>12 DEF Acknowledge
  <2> QED
    BY Zenon, <1>0, <2>1, <2>2, NeedFrame
<1>13. CASE IpiTlbInit(h)
  <2>1. fifo[h] = <<>>
    BY Zenon, <1>0, <1>13 DEF IpiTlbInit, DownInv, Down
  <2>2. UNCHANGED <<callee, fifo, need, event, req, mask>> /\ pc' = [pc EXCEPT ![h] = "start_finish"]
    BY <1>0, <1>13, <2>1 DEF IpiTlbInit, TlbTypes
  <2> QED
    BY Zenon, <1>0, <2>2, NeedFrame
<1> QED
  BY ZenonT(30), <1>1, <1>2, <1>3, <1>4, <1>5, <1>6, <1>7, <1>8, <1>9, <1>10, <1>11, <1>12, <1>13 DEF IpiStep

LEMMA FenceStep == FenceInv /\ [Next]_vars => FenceInv'
<1> SUFFICES ASSUME FenceInv, [Next]_vars PROVE FenceInv'
  BY Zenon
<1>0. SyncInv' /\ NeedInv
  BY Zenon, SyncStep DEF FenceInv
<1>1. CASE UNCHANGED vars
  <2>1. UNCHANGED <<pc, callee, mask, event, req, fifo, need>>
    BY Zenon, <1>1 DEF vars, hsmVars, tlbVars
  <2>2. NeedInv'
    BY <1>0, <2>1 DEF NeedInv, Counted, Queued
  <2> QED
    BY Zenon, <1>0, <2>2 DEF FenceInv
<1>2. CASE Call
  BY Zenon, <1>0, <1>2, CallFence DEF FenceInv
<1>3. ASSUME NEW h \in Hart, HsmStep(h), UNCHANGED tlbVars PROVE FenceInv'
  BY <1>0, <1>3, HsmStepFence DEF FenceInv
<1>4. ASSUME NEW h \in Hart, IpiStep(h) \/ IpiTrap(h) \/ ClearSmode(h) PROVE FenceInv'
  BY Zenon, <1>0, <1>4, IpiStepFence DEF FenceInv
<1> QED
  BY Zenon, <1>1, <1>2, <1>3, <1>4 DEF Next, Firmware

(* When sbi_tlb_request() returns, every target has fenced at least what   *)
(* was asked for, if that is a plain request: however it was merged in the *)
(* FIFOs with requests of other harts, plain or not.  The wait in          *)
(* tlb_sync() ends when no target owes h an answer, and then none has its  *)
(* request in the FIFO.                                                    *)
THEOREM FencesExecuted == Spec => []FenceDone
<1>1. Init => FenceInv
  BY Zenon, InitFence
<1>2. FenceInv /\ [Next]_vars => FenceInv'
  BY Zenon, FenceStep
<1>3. FenceInv => FenceDone
  <2> SUFFICES ASSUME FenceInv, NEW h \in Hart, Returning(h), Plain(req[h]), NEW u \in need[h] PROVE FALSE
    BY Zenon DEF FenceDone
  <2>0. TlbTypes /\ OwedInv /\ SyncBalance /\ NeedInv
    BY Zenon DEF FenceInv, SyncInv, Base, Types
  <2>1. pc[h] = "send" /\ mask[h] = {} /\ event[h] = "TLB" /\ tlb_sync[h] <= 0
    BY Zenon DEF Returning
  <2>2. u \in Hart /\ Queued(h, u)
    BY Zenon, <2>0, <2>1 DEF NeedInv, TlbTypes
  <2>3. tlb_sync[h] \in Int /\ Cardinality(Owed(h)) = tlb_sync[h] + 0
    BY Zenon, <2>0, <2>1 DEF SyncBalance, TlbTypes
  <2>4. Cardinality(Owed(h)) = 0
    BY SMTT(30), <2>1, <2>3, OwedFinite
  <2>5. Owed(h) = {}
    BY Zenon, <2>4, OwedFinite, FS_EmptySet
  <2>6. h \in Names(fifo[u])
    BY <2>2 DEF Queued, Names
  <2> QED
    BY Zenon, <2>2, <2>5, <2>6, NamedIs DEF Owed
<1> QED
  BY <1>1, <1>2, <1>3, PTL DEF Spec

-----------------------------------------------------------------------------
(* A FIFO is within its bound and holds requests, and so does req during a *)
(* call of sbi_tlb_request().                                              *)
QueueOK(q) == Len(q) <= Entries /\ \A i \in DOMAIN q : q[i] \in Entry
QueueInv ==
    \A h \in Hart : QueueOK(fifo[h]) /\ IF event[h] = "TLB" THEN req[h] \in Entry ELSE req[h] = NoEntry

(* sbi_fifo_enqueue(), sbi_fifo_dequeue() and sbi_fifo_inplace_update().   *)
LEMMA AppendQueue ==
    ASSUME NEW q \in Seq(Info), NEW e \in Entry, e \in Info, QueueOK(q), Len(q) < Entries
    PROVE  QueueOK(Append(q, e))
<1>1. /\ Append(q, e) \in Seq(Info) /\ Len(Append(q, e)) = Len(q) + 1
      /\ \A i \in 1 .. Len(q) : Append(q, e)[i] = q[i]
      /\ Append(q, e)[Len(q) + 1] = e
  BY AppendProperties
<1>2. Len(q) \in Nat /\ DOMAIN q = 1 .. Len(q) /\ DOMAIN Append(q, e) = 1 .. Len(q) + 1
  BY <1>1, LenProperties
<1>3. \A i \in 1 .. Len(q) : q[i] \in Entry
  BY Zenon, <1>2 DEF QueueOK
<1>4. \A i \in 1 .. Len(q) + 1 : Append(q, e)[i] \in Entry
  <2> SUFFICES ASSUME NEW i \in 1 .. Len(q) + 1 PROVE Append(q, e)[i] \in Entry
    BY Zenon
  <2>1. i \in 1 .. Len(q) \/ i = Len(q) + 1
    BY <1>2
  <2> QED
    BY Zenon, <1>1, <1>3, <2>1
<1>5. Len(Append(q, e)) <= Entries
  BY <1>1, <1>2, TlbAssumption
<1> QED
  BY Zenon, <1>2, <1>4, <1>5 DEF QueueOK

LEMMA TailQueue ==
    ASSUME NEW q \in Seq(Info), q # <<>>, QueueOK(q)
    PROVE  QueueOK(Tail(q))
<1>1. /\ Tail(q) \in Seq(Info) /\ Len(Tail(q)) = Len(q) - 1
      /\ \A i \in 1 .. Len(Tail(q)) : Tail(q)[i] = q[i + 1]
  BY HeadTailProperties
<1>2. Len(q) \in Nat /\ DOMAIN q = 1 .. Len(q) /\ DOMAIN Tail(q) = 1 .. Len(Tail(q))
  BY <1>1, LenProperties
<1>3. \A i \in 1 .. Len(Tail(q)) : i + 1 \in 1 .. Len(q)
  BY <1>1, <1>2
<1>4. \A i \in DOMAIN Tail(q) : Tail(q)[i] \in Entry
  BY Zenon, <1>1, <1>2, <1>3 DEF QueueOK
<1>5. Len(q) <= Entries
  BY Zenon DEF QueueOK
<1>6. Len(Tail(q)) <= Entries
  BY <1>1, <1>2, <1>5, TlbAssumption
<1> QED
  BY Zenon, <1>4, <1>6 DEF QueueOK

LEMMA MergeQueue ==
    ASSUME NEW q \in Seq(Info), NEW i \in DOMAIN q, NEW n \in Entry, QueueOK(q)
    PROVE  QueueOK([q EXCEPT ![i] = Merged(q[i], n)])
<1> DEFINE p == [q EXCEPT ![i] = Merged(q[i], n)]
<1>1. q[i] \in Entry
  BY Zenon DEF QueueOK
<1>2. Merged(q[i], n) \in Entry /\ Merged(q[i], n) \in Info
  <2>1. Merged(q[i], n) \in Entry
    BY Zenon, <1>1 DEF Merged, Entry
  <2>2. \A f \in Fence : f.kind \in Kind /\ f.asid \in Nat
    BY TlbAssumption DEF Kind
  <2> QED
    BY Zenon, <2>1, <2>2 DEF Entry, Info
<1>3. Len(q) \in Nat /\ DOMAIN q = 1 .. Len(q)
  BY Zenon, LenProperties
<1>4. p \in Seq(Info) /\ Len(p) = Len(q)
  BY Zenon, <1>2, <1>3, ExceptSeq
<1>5. \A j \in DOMAIN p : p[j] \in Entry
  BY Zenon, <1>2 DEF QueueOK
<1>6. Len(p) <= Entries
  BY Zenon, <1>4 DEF QueueOK
<1> QED
  BY Zenon, <1>5, <1>6 DEF QueueOK

(* A step on one FIFO, or on none.                                         *)
LEMMA QueueFrame ==
    ASSUME QueueInv, NEW t \in Hart, NEW q, QueueOK(q), fifo' = [fifo EXCEPT ![t] = q],
           fifo \in [Hart -> Seq(Info)], UNCHANGED <<event, req>>
    PROVE  QueueInv'
<1>1. \A h \in Hart : QueueOK(fifo'[h])
  BY Zenon DEF QueueInv
<1>2. \A h \in Hart : IF event[h] = "TLB" THEN req[h] \in Entry ELSE req[h] = NoEntry
  BY Zenon DEF QueueInv
<1> QED
  BY Zenon, <1>1, <1>2 DEF QueueInv, QueueOK

LEMMA QueueSame ==
    ASSUME QueueInv, UNCHANGED <<fifo, event, req>>
    PROVE  QueueInv'
  BY Zenon DEF QueueInv, QueueOK

LEMMA CallQueue ==
    ASSUME Base, QueueInv, Call
    PROVE  QueueInv'
<1>0. TlbTypes
  BY Zenon DEF Base, Types
<1>1. ASSUME NEW h \in Hart, NEW T, NEW ev, NEW e, SendMany(h, T, ev, e),
             IF ev = "TLB" THEN e \in Entry ELSE e = NoEntry
      PROVE  QueueInv'
  <2>1. event' = [event EXCEPT ![h] = ev] /\ req' = [req EXCEPT ![h] = e] /\ UNCHANGED fifo
    BY Zenon, <1>1 DEF SendMany, Set
  <2>2. \A g \in Hart : IF event'[g] = "TLB" THEN req'[g] \in Entry ELSE req'[g] = NoEntry
    BY Zenon, <1>0, <1>1, <2>1 DEF QueueInv, TlbTypes
  <2> QED
    BY Zenon, <2>1, <2>2 DEF QueueInv, QueueOK
<1>2. CASE \E c \in Fences : TlbRequest(c[1], c[2], c[3])
  <2>1. PICK c \in Fences : TlbRequest(c[1], c[2], c[3])
    BY Zenon, <1>2
  <2>2. c[1] \in Hart /\ c[3] \in Fence
    BY Zenon, TlbAssumption
  <2> DEFINE all == c[3].size > FlushLimit
             e == [kind |-> c[3].kind, asid |-> c[3].asid, start |-> IF all THEN 0 ELSE c[3].start,
                   size |-> IF all THEN FLUSH_ALL ELSE c[3].size, smask |-> {c[1]}]
  <2>3. c[3].start \in 0 .. MaxWord /\ c[3].size \in 0 .. MaxWord
        /\ 0 \in 0 .. MaxWord /\ FLUSH_ALL \in 0 .. MaxWord
    BY <2>2, TlbAssumption DEF FLUSH_ALL
  <2>4. e \in Entry
    BY Zenon, <2>2, <2>3 DEF Entry
  <2>5. SendMany(c[1], c[2], "TLB", e)
    BY Zenon, <2>1 DEF TlbRequest
  <2> QED
    BY Zenon, <1>1, <2>2, <2>4, <2>5
<1>3. CASE \E c \in Notices : SendSmode(c[1], c[2])
  <2>1. PICK c \in Notices : SendSmode(c[1], c[2])
    BY Zenon, <1>3
  <2>2. c[1] \in Hart
    BY Zenon, TlbAssumption
  <2>3. SendMany(c[1], c[2], "SMODE", NoEntry) /\ "SMODE" # "TLB"
    BY Zenon, <2>1 DEF SendSmode
  <2> QED
    BY Zenon, <1>1, <2>2, <2>3
<1>4. CASE UNCHANGED tlbVars
  BY Zenon, <1>4, QueueSame DEF tlbVars
<1> QED
  BY Zenon, <1>2, <1>3, <1>4 DEF Call

LEMMA IpiStepQueue ==
    ASSUME Base, QueueInv, NEW h \in Hart, IpiStep(h) \/ IpiTrap(h) \/ ClearSmode(h)
    PROVE  QueueInv'
<1>0. Types /\ TlbTypes /\ SendInv /\ fifo \in [Hart -> Seq(Info)] /\ req \in [Hart -> Info]
  BY Zenon DEF Base, Types, TlbTypes
<1>1. CASE InplaceUpdate(h)
  <2>1. PICK t \in mask[h] \ {h} : UNCHANGED fifo \/ (event[h] = "TLB" /\ Merges(h, t))
    BY Zenon, <1>0, <1>1, InplaceCases
  <2>2. UNCHANGED <<event, req>> /\ t \in Hart
    BY Zenon, <1>0, <1>1 DEF InplaceUpdate, TlbTypes
  <2>3. CASE UNCHANGED fifo
    BY Zenon, <2>2, <2>3, QueueSame
  <2>4. CASE event[h] = "TLB" /\ Merges(h, t)
    <3>1. PICK i \in DOMAIN fifo[t] :
            fifo' = [fifo EXCEPT ![t] = [fifo[t] EXCEPT ![i] = Merged(fifo[t][i], req[h])]]
      BY Zenon, <2>4 DEF Merges
    <3>2. fifo[t] \in Seq(Info) /\ QueueOK(fifo[t]) /\ req[h] \in Entry
      BY Zenon, <1>0, <2>2, <2>4 DEF QueueInv
    <3>3. QueueOK([fifo[t] EXCEPT ![i] = Merged(fifo[t][i], req[h])])
      BY Zenon, <3>2, MergeQueue
    <3> QED
      BY Zenon, <1>0, <2>2, <3>1, <3>3, QueueFrame
  <2> QED
    BY Zenon, <2>1, <2>3, <2>4
<1>2. CASE Enqueue(h)
  <2>1. pc[h] = "enqueue" /\ UNCHANGED <<event, req>>
    BY Zenon, <1>2 DEF Enqueue, At
  <2>2. event[h] = "TLB" /\ callee[h] \in Hart
    BY Zenon, <1>0, <2>1 DEF SendInv, Targeting, TlbTypes
  <2>3. CASE UNCHANGED fifo
    BY Zenon, <2>1, <2>3, QueueSame
  <2>4. CASE /\ Len(fifo[callee[h]]) < Entries
             /\ fifo' = [fifo EXCEPT ![callee[h]] = Append(fifo[callee[h]], req[h])]
    <3>1. fifo[callee[h]] \in Seq(Info) /\ QueueOK(fifo[callee[h]]) /\ req[h] \in Entry /\ req[h] \in Info
      BY Zenon, <1>0, <2>2 DEF QueueInv
    <3>2. QueueOK(Append(fifo[callee[h]], req[h]))
      BY Zenon, <2>4, <3>1, AppendQueue
    <3> QED
      BY Zenon, <1>0, <2>1, <2>2, <2>4, <3>2, QueueFrame
  <2> QED
    BY Zenon, <1>2, <2>3, <2>4 DEF Enqueue, Set
<1>3. CASE Dequeue(h)
  <2>1. /\ fifo[h] # <<>> /\ fifo' = [fifo EXCEPT ![h] = Tail(fifo[h])]
        /\ UNCHANGED <<event, req>>
    BY Zenon, <1>3 DEF Dequeue, Set
  <2>2. fifo[h] \in Seq(Info) /\ QueueOK(fifo[h])
    BY Zenon, <1>0 DEF QueueInv
  <2>3. QueueOK(Tail(fifo[h]))
    BY Zenon, <2>1, <2>2, TailQueue
  <2> QED
    BY Zenon, <1>0, <2>1, <2>3, QueueFrame
<1>4. CASE IpiTlbInit(h)
  <2>1. fifo' = [fifo EXCEPT ![h] = <<>>] /\ UNCHANGED <<event, req>>
    BY Zenon, <1>4 DEF IpiTlbInit, Set
  <2>2. QueueOK(<<>>)
    BY TlbAssumption DEF QueueOK
  <2> QED
    BY Zenon, <1>0, <2>1, <2>2, QueueFrame
<1>5. CASE SyncDone(h)
  <2>1. event' = [event EXCEPT ![h] = "none"] /\ req' = [req EXCEPT ![h] = NoEntry] /\ UNCHANGED fifo
    BY Zenon, <1>5 DEF SyncDone, Set
  <2>2. \A g \in Hart : IF event'[g] = "TLB" THEN req'[g] \in Entry ELSE req'[g] = NoEntry
    BY Zenon, <1>0, <2>1 DEF QueueInv, TlbTypes
  <2> QED
    BY Zenon, <2>1, <2>2 DEF QueueInv, QueueOK
<1>6. CASE SendSelf(h) \/ CountTarget(h) \/ SetType(h) \/ RawSend(h) \/ Acknowledge(h) \/ IpiProcess(h)
           \/ ClearSmode(h)
  <2>1. UNCHANGED <<fifo, event, req>>
    BY Zenon, <1>6 DEF SendSelf, CountTarget, SetType, RawSend, Acknowledge, IpiProcess, ClearSmode
  <2> QED
    BY Zenon, <2>1, QueueSame
<1>7. CASE DequeueEmpty(h) \/ IpiExit(h) \/ IpiTrap(h)
  <2>1. UNCHANGED <<fifo, event, req>>
    BY Zenon, <1>7 DEF DequeueEmpty, IpiExit, IpiTrap, tlbVars
  <2> QED
    BY Zenon, <2>1, QueueSame
<1> QED
  BY ZenonT(30), <1>1, <1>2, <1>3, <1>4, <1>5, <1>6, <1>7 DEF IpiStep

LEMMA QueueStep == Base /\ QueueInv /\ [Next]_vars => QueueInv'
<1> SUFFICES ASSUME Base, QueueInv, [Next]_vars PROVE QueueInv'
  BY Zenon
<1>1. CASE UNCHANGED vars
  <2>1. UNCHANGED <<fifo, event, req>>
    BY Zenon, <1>1 DEF vars, tlbVars
  <2> QED
    BY Zenon, <2>1, QueueSame
<1>2. CASE Call
  BY Zenon, <1>2, CallQueue
<1>3. ASSUME NEW h \in Hart, HsmStep(h), UNCHANGED tlbVars PROVE QueueInv'
  BY Zenon, <1>3, QueueSame DEF tlbVars
<1>4. ASSUME NEW h \in Hart, IpiStep(h) \/ IpiTrap(h) \/ ClearSmode(h) PROVE QueueInv'
  BY Zenon, <1>4, IpiStepQueue
<1> QED
  BY Zenon, <1>1, <1>2, <1>3, <1>4 DEF Next, Firmware

(* No FIFO of sbi_tlb.c overflows; each entry, also after tlb_update_cb()  *)
(* has merged another into it, has a type and an asid that were asked for  *)
(* and a range that fits the word; tlb_sync is between -1 and the number   *)
(* of harts.                                                               *)
THEOREM TypeCorrect == Spec => []TypeOK
<1>1. Init => SyncInv /\ QueueInv
  <2> SUFFICES ASSUME Init PROVE QueueInv
    BY Zenon, InitSync
  <2>1. \A h \in Hart : fifo[h] = <<>> /\ event[h] = "none" /\ req[h] = NoEntry
    BY Zenon DEF Init
  <2>2. QueueOK(<<>>)
    BY TlbAssumption DEF QueueOK
  <2>3. \A h \in Hart : QueueOK(fifo[h]) /\ event[h] # "TLB"
    BY Zenon, <2>1, <2>2
  <2> QED
    BY Zenon, <2>1, <2>3 DEF QueueInv
<1>2. SyncInv /\ QueueInv /\ [Next]_vars => (SyncInv /\ QueueInv)'
  BY Zenon, SyncStep, QueueStep DEF SyncInv
<1>3. SyncInv /\ QueueInv => TypeOK
  <2> SUFFICES ASSUME SyncInv, QueueInv PROVE TypeOK
    BY Zenon
  <2>1. HsmTypes /\ TlbTypes
    BY Zenon DEF SyncInv, Base, Types
  <2>2. tlb_sync \in [Hart -> -1 .. Cardinality(Hart)]
    <3> SUFFICES ASSUME NEW h \in Hart PROVE tlb_sync[h] \in -1 .. Cardinality(Hart)
      BY Zenon, <2>1 DEF TlbTypes
    <3>1. tlb_sync[h] \in Int
      BY Zenon, <2>1 DEF TlbTypes
    <3>2. Owed(h) \in SUBSET Hart
      BY Zenon DEF Owed
    <3>3. Cardinality(Owed(h)) \in Nat /\ Cardinality(Hart) \in Nat
      BY Zenon, OwedFinite, HartAssumption, FS_CardinalityType
    <3>4. Cardinality(Owed(h)) <= Cardinality(Hart)
      BY Zenon, <3>2, HartAssumption, FS_Subset
    <3>5. Cardinality(Owed(h)) = tlb_sync[h] + (IF pc[h] = "count" THEN 1 ELSE 0)
      BY Zenon DEF SyncInv, SyncBalance
    <3> QED
      BY <3>1, <3>3, <3>4, <3>5
  <2>3. req \in [Hart -> Entry \cup {NoEntry}]
    BY Zenon, <2>1 DEF QueueInv, TlbTypes
  <2>4. \A h \in Hart : Len(fifo[h]) <= Entries /\ \A i \in DOMAIN fifo[h] : fifo[h][i] \in Entry
    BY Zenon DEF QueueInv, QueueOK
  <2> QED
    BY Zenon, <2>1, <2>2, <2>3, <2>4 DEF TypeOK, HsmTypes, TlbTypes, HState, Label
<1> QED
  BY <1>1, <1>2, <1>3, PTL DEF Spec
=============================================================================
