--------------------------- MODULE SessionProofs ---------------------------
(***************************************************************************)
(* Proofs about Lib/runtime/session.c, for any number of sessions, any      *)
(* buffer and FIFO sizes and every way an empty FIFO can be read.          *)
(***************************************************************************)
EXTENDS SessionProperties, SequenceTheorems, TLAPS

(***************************************************************************)
(* The transport: the operations of the driver and the steps of the chip   *)
(* keep the types of the FIFOs and of the chip's state.                    *)
(***************************************************************************)

LEMMA EmptyFifos == <<>> \in Seq(DownFrame) /\ <<>> \in Seq(UpFrame)
  OBVIOUS

LEMMA NocInitTyped == NocInit => NocTypeOK
<1> SUFFICES ASSUME NocInit PROVE NocTypeOK
  OBVIOUS
<1>1. chip \in [busy : BOOLEAN, left : Nat, time : Nat]
  BY DEF NocInit
<1>2. irqPending \in BOOLEAN /\ irqEnabled \in BOOLEAN
  BY DEF NocInit
<1> QED
  BY <1>1, <1>2, EmptyFifos DEF NocInit, NocTypeOK

LEMMA WriteTyped ==
  ASSUME NocTypeOK, NEW frame \in DownFrame, WriteFrame(frame)
  PROVE  down' \in Seq(DownFrame)
  BY DEF NocTypeOK, WriteFrame

LEMMA AckTyped == AckIrq => irqPending' \in BOOLEAN
  BY DEF AckIrq

LEMMA HeadTyped ==
  ASSUME NocTypeOK
  PROVE  /\ down # <<>> => Head(down) \in DownFrame /\ Tail(down) \in Seq(DownFrame)
         /\ up # <<>> => Head(up) \in UpFrame /\ Tail(up) \in Seq(UpFrame)
  BY DEF NocTypeOK

LEMMA EmitTyped ==
  ASSUME NocTypeOK, NEW frame \in UpFrame, Emit(frame)
  PROVE  up' \in Seq(UpFrame) /\ answer' \in Seq(UpFrame)
  BY DEF NocTypeOK, Emit

LEMMA AnswerLength == NocTypeOK => Len(answer) + 1 \in Nat
  BY DEF NocTypeOK

\* Every step of the chip keeps the types.
LEMMA ChipTyped == ASSUME NocTypeOK, ChipStep PROVE NocTypeOK'
<1> USE NocAssumption
<1>1. CASE ChipTakesData
  BY <1>1, HeadTyped DEF ChipTakesData, NocTypeOK
<1>2. CASE ChipStarts
  <2>1. Head(down) \in DownFrame /\ Tail(down) \in Seq(DownFrame)
    BY <1>2, HeadTyped DEF ChipStarts
  <2>2. chip' \in [busy : BOOLEAN, left : Nat, time : Nat]
    <3>1. PICK n \in 0..MaxOut :
            chip' = [busy |-> TRUE, left |-> n,
                     time |-> IF Head(down).kind = "init"
                              THEN 0 ELSE chip.time + Head(down).steps]
      BY <1>2 DEF ChipStarts
    <3>2. chip.time \in Nat /\ Head(down).steps \in Nat
      BY <2>1 DEF NocTypeOK, DownFrame
    <3> QED
      BY <3>1, <3>2
  <2> QED
    BY <1>2, <2>1, <2>2 DEF ChipStarts, NocTypeOK
<1>3. CASE ChipEmitsWork
  <2> DEFINE frame == [kind |-> "work", seq |-> Len(answer) + 1]
  <2>1. frame \in UpFrame
    BY AnswerLength DEF UpFrame
  <2>2. up' \in Seq(UpFrame) /\ answer' \in Seq(UpFrame)
    BY <1>3, <2>1, EmitTyped DEF ChipEmitsWork
  <2>3. chip' \in [busy : BOOLEAN, left : Nat, time : Nat]
    <3>1. chip' = [chip EXCEPT !.left = @ - 1] /\ chip.left > 0
      BY <1>3 DEF ChipEmitsWork
    <3>2. chip \in [busy : BOOLEAN, left : Nat, time : Nat]
      BY DEF NocTypeOK
    <3>3. chip.left - 1 \in Nat
      BY <3>1, <3>2
    <3> QED
      BY <3>1, <3>2, <3>3
  <2>4. irqPending' \in BOOLEAN
    <3>1. irqPending' \in {irqPending \/ Len(up') = UpDepth, TRUE}
      BY <1>3 DEF ChipEmitsWork
    <3> QED
      BY <3>1, Zenon
  <2> QED
    BY <1>3, <2>2, <2>3, <2>4 DEF ChipEmitsWork, NocTypeOK
<1>4. CASE ChipCompletes
  <2> DEFINE frame == [kind |-> "complete", seq |-> Len(answer) + 1]
  <2>1. frame \in UpFrame
    BY AnswerLength DEF UpFrame
  <2>2. up' \in Seq(UpFrame) /\ answer' \in Seq(UpFrame)
    BY <1>4, <2>1, EmitTyped DEF ChipCompletes
  <2> QED
    BY <1>4, <2>2 DEF ChipCompletes, NocTypeOK
<1> QED
  BY <1>1, <1>2, <1>3, <1>4 DEF ChipStep

LEMMA RecoverTyped == ASSUME NocTypeOK, PlatformRecovers PROVE NocTypeOK'
<1>1. chip' \in [busy : BOOLEAN, left : Nat, time : Nat]
  BY DEF NocTypeOK, PlatformRecovers
<1>2. irqPending' \in BOOLEAN /\ irqEnabled' \in BOOLEAN
  BY DEF NocTypeOK, PlatformRecovers
<1> QED
  BY <1>1, <1>2, EmptyFifos DEF NocTypeOK, PlatformRecovers

(***************************************************************************)
(* The inductive invariant, first part: who owns what.                     *)
(***************************************************************************)

\* What is not g_active_session is cleared storage.
Detached ==
  \A x \in Sessions :
    x # owner => session[x] = ClearedSession /\ barrier[x] = ClearedBarrier

Attached == owner # None => session[owner].artifact

\* A call belongs to the owner, which is not faulted while it is inside; the
\* barrier is active exactly inside a control call.
Engaged ==
  /\ pc # "idle" => owner = call.session /\ ~session[owner].faulted
  /\ InCall => call.op \in ControlOps
  /\ pc = "submit" => call.op \in SubmitOps
  /\ \A x \in Sessions : barrier[x].active <=> InCall /\ x = owner

\* The handler runs inside a control call, for its session, and has not yet
\* completed the barrier.
IsrEngaged == isr # None => InCall /\ isr = owner /\ ~barrier[isr].completed

\* A session that timed out is faulted, owns the interrupt until it is
\* detached, and its barrier stays as the recheck found it.
TimedOut ==
  last.status = "TIMEOUT" =>
    owner = last.session /\ session[owner].faulted /\ ~barrier[owner].completed

Ownership ==
  TypeOK /\ Detached /\ Attached /\ Engaged /\ IsrEngaged /\ TimedOut

USE SessionAssumption, NocAssumption

(***************************************************************************)
(* Types of the records the code assigns.                                  *)
(***************************************************************************)

LEMMA ClearedTyped ==
  /\ ClearedSession \in SessionRecord
  /\ ClearedBarrier \in BarrierRecord
  /\ Len(ClearedBarrier.rx) <= RxCapacity
<1>1. ClearedSession \in SessionRecord
  BY DEF ClearedSession, SessionRecord, Modes
<1>2. ClearedBarrier \in BarrierRecord
  BY EmptyFifos DEF ClearedBarrier, BarrierRecord, Handlers, HandlerStatuses
<1>3. Len(ClearedBarrier.rx) = 0
  BY DEF ClearedBarrier
<1> QED
  BY <1>1, <1>2, <1>3

LEMMA StartedTyped ==
  ASSUME NEW handler \in Handlers
  PROVE  LET b == [ClearedBarrier EXCEPT !.handler = handler, !.active = TRUE]
         IN  b \in BarrierRecord /\ Len(b.rx) <= RxCapacity
<1> DEFINE b == [ClearedBarrier EXCEPT !.handler = handler, !.active = TRUE]
<1>1. b \in BarrierRecord
  BY ClearedTyped DEF BarrierRecord
<1>2. b.rx = ClearedBarrier.rx
  BY ClearedTyped DEF BarrierRecord
<1> QED
  BY <1>1, <1>2, ClearedTyped

LEMMA ClosedTyped ==
  ASSUME NEW b \in BarrierRecord, NEW status \in Statuses
  PROVE  /\ CloseBarrier(b, status) \in BarrierRecord
         /\ CloseBarrier(b, status).rx = b.rx
         /\ CloseBarrier(b, status).completed = b.completed
         /\ ~CloseBarrier(b, status).active
<1>1. (b.hardwareError \/ status = "TIMEOUT") \in BOOLEAN
  BY Zenon
<1>2. (IF status = "OK" THEN b.handler ELSE "none") \in Handlers
  BY DEF BarrierRecord, Handlers
<1> QED
  BY <1>1, <1>2 DEF CloseBarrier, BarrierRecord

LEMMA AfterTyped ==
  ASSUME NEW s \in SessionRecord, NEW status \in Statuses,
         call.op \in ControlOps, call.arg \in Nat
  PROVE  /\ SessionAfter(s, status) \in SessionRecord
         /\ SessionAfter(s, status).artifact = s.artifact
         /\ status = "OK" => SessionAfter(s, status).faulted = s.faulted
         /\ status # "OK" => SessionAfter(s, status).faulted
<1>1. CASE status # "OK"
  <2>1. SessionAfter(s, status) = [s EXCEPT !.faulted = TRUE]
    BY <1>1 DEF SessionAfter
  <2> QED
    BY <1>1, <2>1 DEF SessionRecord
<1>2. CASE status = "OK" /\ call.op = "reset"
  BY <1>2 DEF SessionAfter, AfterSuccess, SessionRecord, Modes
<1>3. CASE status = "OK" /\ call.op = "payload"
  BY <1>3 DEF SessionAfter, AfterSuccess, SessionRecord, Modes
<1>4. CASE status = "OK" /\ call.op = "until"
  BY <1>4 DEF SessionAfter, AfterSuccess, SessionRecord, Modes
<1> QED
  BY <1>1, <1>2, <1>3, <1>4 DEF ControlOps

LEMMA ReceivedTyped ==
  ASSUME NEW b \in BarrierRecord, NEW frame \in UpFrame,
         NEW status \in HandlerStatuses, Len(b.rx) <= RxCapacity
  PROVE  /\ Received(b, frame, status) \in BarrierRecord
         /\ Len(Received(b, frame, status).rx) <= RxCapacity
         /\ Received(b, frame, status).active = b.active
         /\ Received(b, frame, status).handler = b.handler
<1>1. CASE Handled(b, frame)
  BY <1>1 DEF Received, BarrierRecord
<1>2. CASE ~Handled(b, frame) /\ b.handler = "none" /\ Len(b.rx) >= RxCapacity
  BY <1>2 DEF Received, BarrierRecord
<1>3. CASE ~Handled(b, frame) /\ ~(b.handler = "none" /\ Len(b.rx) >= RxCapacity)
  <2>1. IsComplete(frame) \in BOOLEAN
    BY DEF IsComplete
  <2>2. CASE b.handler = "none"
    <3>1. Len(b.rx) < RxCapacity
      <4>1. Len(b.rx) \in Nat
        BY DEF BarrierRecord
      <4> QED
        BY <1>3, <2>2, <4>1
    <3>2. Append(b.rx, frame) \in Seq(UpFrame)
      BY DEF BarrierRecord
    <3>3. Len(Append(b.rx, frame)) = Len(b.rx) + 1
      BY DEF BarrierRecord
    <3>4. Received(b, frame, status) =
            [b EXCEPT !.rx = Append(b.rx, frame), !.completed = IsComplete(frame)]
      BY <1>3, <2>2 DEF Received
    <3>5. Len(Append(b.rx, frame)) <= RxCapacity
      <4>1. Len(b.rx) \in Nat
        BY DEF BarrierRecord
      <4> QED
        BY <3>1, <3>3, <4>1
    <3> QED
      BY <2>1, <3>2, <3>4, <3>5 DEF BarrierRecord
  <2>3. CASE b.handler # "none"
    <3>1. Received(b, frame, status) =
            [b EXCEPT !.rx = b.rx, !.completed = IsComplete(frame)]
      BY <1>3, <2>3 DEF Received
    <3> QED
      BY <2>1, <3>1 DEF BarrierRecord
  <2> QED
    BY <2>2, <2>3
<1> QED
  BY <1>1, <1>2, <1>3

LEMMA StatusTyped ==
  /\ \A b \in BarrierRecord : BarrierStatus(b) \in Statuses
  /\ \A b \in BarrierRecord : Recheck(b) \in Statuses
  /\ \A x \in Sessions : SubmitStatus(x) \in Statuses
  /\ \A x \in Sessions : DeinitStatus(x) \in Statuses
  /\ \A x, op, arg : ControlStatus(x, op, arg) \in Statuses
<1>1. \A b \in BarrierRecord : BarrierStatus(b) \in Statuses
  BY DEF BarrierStatus, BarrierRecord, Statuses, HandlerStatuses
<1>2. \A b \in BarrierRecord : Recheck(b) \in Statuses
  BY <1>1 DEF Recheck, Statuses
<1>3. \A x \in Sessions : SubmitStatus(x) \in Statuses
  BY DEF SubmitStatus, Statuses
<1>4. \A x \in Sessions : DeinitStatus(x) \in Statuses
  BY DEF DeinitStatus, Statuses
<1>5. \A x, op, arg : ControlStatus(x, op, arg) \in Statuses
  BY DEF ControlStatus, Statuses
<1> QED
  BY <1>1, <1>2, <1>3, <1>4, <1>5

(***************************************************************************)
(* Ownership is inductive: one lemma per action.                           *)
(***************************************************************************)

LEMMA InitOwnership == Init => Ownership
<1> SUFFICES ASSUME Init PROVE Ownership
  OBVIOUS
<1>1. NocTypeOK
  BY NocInitTyped DEF Init
<1>2. call \in [op : ControlOps \union SubmitOps, session : Sessions,
                arg : Nat, steps : Nat, handler : Handlers]
  BY DEF Init, ControlOps, Handlers
<1>3. last \in [op : Ops, session : Sessions, status : Statuses]
  BY DEF Init, Ops, Statuses
<1>4. TypeOK
  BY <1>1, <1>2, <1>3, ClearedTyped, EmptyFifos DEF Init, TypeOK
<1>5. Detached /\ Attached
  BY DEF Init, Detached, Attached
<1>6. Engaged /\ IsrEngaged /\ TimedOut
  BY DEF Init, Engaged, IsrEngaged, TimedOut, InCall, ClearedBarrier
<1> QED
  BY <1>4, <1>5, <1>6 DEF Ownership

LEMMA StutterOwnership == Ownership /\ UNCHANGED vars => Ownership'
  BY DEF Ownership, TypeOK, NocTypeOK, Detached, Attached, Engaged, IsrEngaged,
         TimedOut, InCall, vars, nocVars, mainVars

\* The chip and the platform touch nothing the core keeps.
LEMMA ChipOwnership ==
  ASSUME Ownership, Chip \/ Recover PROVE Ownership'
<1>1. NocTypeOK'
  BY ChipTyped, RecoverTyped DEF Ownership, TypeOK, Chip, Recover
<1>2. UNCHANGED <<owner, barrier, decoded, mainVars, isr>>
  BY DEF Chip, Recover
<1> QED
  BY <1>1, <1>2 DEF Ownership, TypeOK, Detached, Attached, Engaged, IsrEngaged,
                    TimedOut, InCall, mainVars

LEMMA InitSessionOwnership ==
  ASSUME Ownership, NEW x \in Sessions, InitSession(x) PROVE Ownership'
<1>1. CASE owner # None
  <2>1. last' = [op |-> "init", session |-> x, status |-> "BUSY"]
    BY <1>1 DEF InitSession, Return
  <2>2. last' \in [op : Ops, session : Sessions, status : Statuses]
    BY <2>1 DEF Ops, Statuses
  <2> QED
    BY <1>1, <2>1, <2>2
       DEF InitSession, Ownership, TypeOK, NocTypeOK, Detached, Attached,
           Engaged, IsrEngaged, TimedOut, InCall
<1>2. CASE owner = None
  <2>1. PICK registered \in BOOLEAN :
          /\ irqEnabled' = registered
          /\ epochStart' = (IF registered THEN chip.time ELSE epochStart)
          /\ owner' = (IF registered THEN x ELSE None)
          /\ session' = [session EXCEPT ![x] = InitialisedSession(registered)]
          /\ last' = [op |-> "init", session |-> x,
                      status |-> IF registered THEN "OK" ELSE "RUNTIME_ERROR"]
    BY <1>2 DEF InitSession, Return
  <2>2. /\ barrier' = [barrier EXCEPT ![x] = ClearedBarrier]
        /\ UNCHANGED <<down, up, irqPending, chip, answer, decoded, pc, call,
                       irqWasEnabled, isr>>
        /\ pc = "idle" /\ isr = None
    BY <1>2 DEF InitSession, Idle
  <2>3. InitialisedSession(registered) \in SessionRecord
    BY <2>1, ClearedTyped DEF InitialisedSession, SessionRecord
  <2>4. last' \in [op : Ops, session : Sessions, status : Statuses]
    BY <2>1 DEF Ops, Statuses
  <2>5. NocTypeOK' /\ epochStart' \in Nat
    BY <2>1, <2>2 DEF Ownership, TypeOK, NocTypeOK
  <2>6. session' \in [Sessions -> SessionRecord]
    BY <2>1, <2>3 DEF Ownership, TypeOK
  <2>7. /\ barrier' \in [Sessions -> BarrierRecord]
        /\ \A y \in Sessions : Len(barrier'[y].rx) <= RxCapacity
    BY <2>2, ClearedTyped DEF Ownership, TypeOK
  <2>8. TypeOK'
    BY <2>1, <2>2, <2>4, <2>5, <2>6, <2>7 DEF Ownership, TypeOK
  <2>9. Detached'
    <3>1. \A y \in Sessions : barrier'[y] = ClearedBarrier
      BY <1>2, <2>2 DEF Ownership, TypeOK, Detached
    <3>2. \A y \in Sessions : y # x => session'[y] = ClearedSession
      BY <1>2, <2>1 DEF Ownership, TypeOK, Detached
    <3>3. ~registered => session'[x] = ClearedSession
      BY <2>1 DEF Ownership, TypeOK, InitialisedSession, ClearedSession
    <3> QED
      BY <2>1, <3>1, <3>2, <3>3 DEF Detached
  <2>10. Attached'
    BY <2>1, ClearedTyped
       DEF Attached, Ownership, TypeOK, InitialisedSession, SessionRecord
  <2>11. Engaged'
    <3>1. \A y \in Sessions : ~barrier'[y].active
      BY <1>2, <2>2 DEF Ownership, TypeOK, Detached,
                        ClearedBarrier
    <3> QED
      BY <2>2, <3>1 DEF Engaged, InCall
  <2>12. IsrEngaged' /\ TimedOut'
    BY <2>1, <2>2 DEF IsrEngaged, TimedOut
  <2> QED
    BY <2>8, <2>9, <2>10, <2>11, <2>12 DEF Ownership
<1> QED
  BY <1>1, <1>2

\* From inside the handler a deinit is always refused.
LEMMA DeinitOwnership ==
  ASSUME Ownership, NEW x \in Sessions, DeinitSession(x) \/ NestedDeinit(x)
  PROVE  Ownership'
<1>1. Deinit(x)
  BY DEF DeinitSession, NestedDeinit
<1>2. /\ last' = [op |-> "deinit", session |-> x, status |-> DeinitStatus(x)]
      /\ UNCHANGED <<down, up, chip, answer, decoded, pc, call, irqWasEnabled,
                     isr, epochStart>>
  BY <1>1 DEF Deinit, Return
<1>3. last' \in [op : Ops, session : Sessions, status : Statuses]
  BY <1>2, StatusTyped DEF Ops
<1>4. last'.status # "TIMEOUT"
  BY <1>2 DEF DeinitStatus
<1>5. CASE DeinitStatus(x) # "OK"
  <2>1. UNCHANGED <<irqEnabled, irqPending, owner, session, barrier>>
    BY <1>1, <1>5 DEF Deinit
  <2> QED
    BY <1>2, <1>3, <1>4, <2>1
       DEF Ownership, TypeOK, NocTypeOK, Detached, Attached, Engaged,
           IsrEngaged, TimedOut, InCall
<1>6. CASE DeinitStatus(x) = "OK"
  <2>1. /\ irqEnabled' = FALSE
        /\ AckIrq
        /\ owner' = (IF owner = x THEN None ELSE owner)
        /\ session' = [session EXCEPT ![x] = ClearedSession]
        /\ barrier' = [barrier EXCEPT ![x] = ClearedBarrier]
    BY <1>1, <1>6 DEF Deinit
  <2>2. owner \in {None, x} /\ ~(owner = x /\ barrier[x].active)
    BY <1>6 DEF DeinitStatus
  <2>3. owner' = None
    BY <2>1, <2>2
  <2>4. ~InCall
    BY <2>2 DEF Ownership, Engaged, InCall, TypeOK
  <2>5. pc = "idle" /\ isr = None
    BY <2>4 DEF DeinitSession, NestedDeinit, Idle, Ownership, IsrEngaged
  <2>6. NocTypeOK'
    BY <1>2, <2>1, AckTyped DEF Ownership, TypeOK, NocTypeOK
  <2>7. session' \in [Sessions -> SessionRecord]
    BY <2>1, ClearedTyped DEF Ownership, TypeOK
  <2>8. /\ barrier' \in [Sessions -> BarrierRecord]
        /\ \A y \in Sessions : Len(barrier'[y].rx) <= RxCapacity
    BY <2>1, ClearedTyped DEF Ownership, TypeOK
  <2>9. TypeOK'
    BY <1>2, <1>3, <2>3, <2>6, <2>7, <2>8 DEF Ownership, TypeOK
  <2>10. Detached'
    BY <2>1, <2>2, <2>3 DEF Ownership, TypeOK, Detached
  <2>11. Attached'
    BY <2>3 DEF Attached
  <2>12. Engaged'
    <3>1. \A y \in Sessions : ~barrier'[y].active
      BY <2>3, <2>10 DEF Detached, TypeOK, ClearedBarrier
    <3> QED
      BY <1>2, <2>5, <3>1 DEF Engaged, InCall
  <2>13. IsrEngaged' /\ TimedOut'
    BY <1>2, <1>4, <2>5 DEF IsrEngaged, TimedOut
  <2> QED
    BY <2>9, <2>10, <2>11, <2>12, <2>13 DEF Ownership
<1> QED
  BY <1>5, <1>6

\* A call that is rejected changes only what it returned.
LEMMA RejectOwnership ==
  ASSUME Ownership, NEW x \in Sessions,
         \/ \E op \in SubmitOps : RejectSubmit(op, x)
         \/ \E op \in ControlOps, arg \in Nat : RejectControl(x, op, arg)
  PROVE  Ownership'
<1>1. /\ last' \in [op : Ops, session : Sessions, status : Statuses]
      /\ last'.status # "TIMEOUT"
  BY StatusTyped DEF RejectSubmit, RejectControl, Return, Ops, SubmitStatus,
                     ControlStatus
<1>2. UNCHANGED <<nocVars, owner, session, barrier, decoded, pc, call,
                  irqWasEnabled, isr, epochStart>>
  BY DEF RejectSubmit, RejectControl
<1> QED
  BY <1>1, <1>2
     DEF Ownership, TypeOK, NocTypeOK, Detached, Attached, Engaged, IsrEngaged,
         TimedOut, InCall, nocVars

LEMMA BeginSubmitOwnership ==
  ASSUME Ownership, NEW x \in Sessions, NEW op \in SubmitOps, NEW n \in {0, 1},
         BeginSubmit(op, x, n)
  PROVE  Ownership'
<1>1. /\ pc = "idle" /\ isr = None /\ pc' = "submit"
      /\ call' = [op |-> op, session |-> x, arg |-> n, steps |-> 0,
                  handler |-> "none"]
      /\ irqWasEnabled' = irqEnabled
      /\ UNCHANGED <<nocVars, owner, session, barrier, decoded, last, isr,
                     epochStart>>
  BY DEF BeginSubmit, Idle
<1>2. session[x].artifact /\ ~session[x].faulted
  BY DEF BeginSubmit, SubmitStatus
<1>3. owner = x
  BY <1>2 DEF Ownership, Detached, ClearedSession
<1>4. call' \in [op : ControlOps \union SubmitOps, session : Sessions,
                 arg : Nat, steps : Nat, handler : Handlers]
  BY <1>1 DEF Handlers
<1>5. TypeOK'
  BY <1>1, <1>4 DEF Ownership, TypeOK, NocTypeOK, nocVars
<1>6. Detached' /\ Attached' /\ IsrEngaged' /\ TimedOut'
  BY <1>1 DEF Ownership, Detached, Attached, IsrEngaged, TimedOut
<1>7. Engaged'
  BY <1>1, <1>2, <1>3 DEF Ownership, Engaged, InCall
<1> QED
  BY <1>5, <1>6, <1>7 DEF Ownership

LEMMA SubmitOwnership ==
  ASSUME Ownership, Submit PROVE Ownership'
<1>1. /\ pc = "submit" /\ isr = None /\ pc' = "idle"
      /\ irqEnabled' = irqWasEnabled
      /\ UNCHANGED <<up, irqPending, chip, answer, owner, session, barrier,
                     decoded, call, irqWasEnabled, isr, epochStart>>
  BY DEF Submit
<1>2. down' \in Seq(DownFrame)
  BY WriteTyped DEF Submit, Ownership, TypeOK, NocTypeOK, DataFrame, DownFrame
<1>3. /\ last' \in [op : Ops, session : Sessions, status : Statuses]
      /\ last'.status # "TIMEOUT"
  BY DEF Submit, Return, Ownership, TypeOK, Ops, Statuses
<1>4. NocTypeOK'
  BY <1>1, <1>2 DEF Ownership, TypeOK, NocTypeOK
<1>5. TypeOK'
  BY <1>1, <1>3, <1>4 DEF Ownership, TypeOK
<1>6. Detached' /\ Attached' /\ IsrEngaged' /\ TimedOut'
  BY <1>1, <1>3 DEF Ownership, Detached, Attached, IsrEngaged, TimedOut
<1>7. Engaged'
  BY <1>1 DEF Ownership, Engaged, InCall
<1> QED
  BY <1>5, <1>6, <1>7 DEF Ownership

\* No step count is negative, whatever target is asked for.
LEMMA StepsTyped ==
  ASSUME Ownership, NEW x \in Sessions, NEW op \in ControlOps, NEW arg \in Nat,
         ControlStatus(x, op, arg) = "OK"
  PROVE  Steps(x, op, arg) \in Nat
<1>1. session[x].completed \in Nat
  BY DEF Ownership, TypeOK, SessionRecord
<1>2. ~WrongMode(x, op, arg)
  BY DEF ControlStatus
<1> QED
  BY <1>1, <1>2 DEF Steps, WrongMode

LEMMA BeginControlOwnership ==
  ASSUME Ownership, NEW x \in Sessions, NEW op \in ControlOps, NEW arg \in Nat,
         NEW handler \in Handlers, BeginControl(x, op, arg, handler)
  PROVE  Ownership'
<1> DEFINE b == [ClearedBarrier EXCEPT !.handler = handler, !.active = TRUE]
<1>1. /\ pc = "idle" /\ isr = None /\ pc' = "write"
      /\ ControlStatus(x, op, arg) = "OK"
      /\ AckIrq
      /\ irqEnabled' = TRUE
      /\ barrier' = [barrier EXCEPT ![x] = b]
      /\ call' = [op |-> op, session |-> x, arg |-> arg,
                  steps |-> Steps(x, op, arg), handler |-> handler]
      /\ decoded' = <<>>
      /\ UNCHANGED <<down, up, chip, answer, owner, session, last,
                     irqWasEnabled, isr, epochStart>>
  BY DEF BeginControl, StartBarrier, Idle
<1>2. session[x].artifact /\ ~session[x].faulted
  BY <1>1 DEF ControlStatus
<1>3. owner = x
  BY <1>2 DEF Ownership, Detached, ClearedSession
<1>4. b \in BarrierRecord /\ Len(b.rx) <= RxCapacity /\ b.active
  BY StartedTyped, ClearedTyped DEF BarrierRecord
<1>5. call' \in [op : ControlOps \union SubmitOps, session : Sessions,
                 arg : Nat, steps : Nat, handler : Handlers]
  BY <1>1, StepsTyped
<1>6. NocTypeOK'
  BY <1>1, AckTyped DEF Ownership, TypeOK, NocTypeOK
<1>7. /\ barrier' \in [Sessions -> BarrierRecord]
      /\ \A y \in Sessions : Len(barrier'[y].rx) <= RxCapacity
  <2> HIDE DEF b
  <2> QED
    BY <1>1, <1>4 DEF Ownership, TypeOK
<1>8. TypeOK'
  BY <1>1, <1>5, <1>6, <1>7, EmptyFifos DEF Ownership, TypeOK
<1>9. Detached' /\ Attached' /\ IsrEngaged'
  BY <1>1, <1>3 DEF Ownership, TypeOK, Detached, Attached, IsrEngaged
<1>10. Engaged'
  <2> HIDE DEF b
  <2>1. \A y \in Sessions : barrier'[y].active <=> y = x
    BY <1>1, <1>3, <1>4 DEF Ownership, TypeOK, Engaged, InCall
  <2> QED
    BY <1>1, <1>2, <1>3, <2>1 DEF Engaged, InCall
<1>11. TimedOut'
  BY <1>1, <1>2, <1>3 DEF Ownership, TimedOut
<1> QED
  BY <1>8, <1>9, <1>10, <1>11 DEF Ownership

LEMMA WriteControlOwnership ==
  ASSUME Ownership, WriteControl PROVE Ownership'
<1>1. /\ pc = "write" /\ isr = None /\ pc' = "wait"
      /\ UNCHANGED <<up, irqPending, irqEnabled, chip, answer, owner, session,
                     barrier, decoded, call, last, irqWasEnabled, isr,
                     epochStart>>
  BY DEF WriteControl
<1>2. down' \in Seq(DownFrame)
  <2> DEFINE frame == [kind |-> IF call.op = "reset" THEN "init" ELSE "sync",
                       steps |-> call.steps]
  <2>1. frame \in DownFrame
    BY DEF Ownership, TypeOK, DownFrame
  <2> QED
    BY <2>1, WriteTyped DEF WriteControl, Ownership, TypeOK
<1>3. TypeOK'
  BY <1>1, <1>2 DEF Ownership, TypeOK, NocTypeOK
<1> QED
  BY <1>1, <1>3 DEF Ownership, Detached, Attached, Engaged, IsrEngaged,
                    TimedOut, InCall

LEMMA TimeLimitPassesOwnership ==
  ASSUME Ownership, TimeLimitPasses PROVE Ownership'
<1>1. TypeOK'
  BY DEF Ownership, TypeOK, NocTypeOK, TimeLimitPasses, nocVars
<1> QED
  BY <1>1 DEF Ownership, Detached, Attached, Engaged, IsrEngaged, TimedOut,
              InCall, TimeLimitPasses

\* The return of a control call.
LEMMA FinishOwnership ==
  ASSUME Ownership, InCall, isr = None, NEW status \in Statuses, Finish(status),
         status = "TIMEOUT" => ~barrier[call.session].completed
  PROVE  Ownership'
<1> DEFINE x == call.session
<1>1. /\ irqEnabled' = FALSE /\ pc' = "idle"
      /\ barrier' = [barrier EXCEPT ![x] = CloseBarrier(barrier[x], status)]
      /\ session' = [session EXCEPT ![x] = SessionAfter(session[x], status)]
      /\ last' = [op |-> call.op, session |-> x, status |-> status]
      /\ epochStart' = (IF call.op = "reset" /\ status = "OK"
                        THEN 0 ELSE epochStart)
      /\ UNCHANGED <<down, up, irqPending, chip, answer, owner, decoded, call,
                     irqWasEnabled, isr>>
  BY DEF Finish, Return
<1>2. /\ owner = x /\ x \in Sessions /\ call.op \in ControlOps
      /\ call.arg \in Nat /\ owner # None
  BY DEF Ownership, TypeOK, Engaged, InCall
<1>3. barrier[x] \in BarrierRecord /\ session[x] \in SessionRecord
  BY <1>2 DEF Ownership, TypeOK
<1> DEFINE b == CloseBarrier(barrier[x], status)
           s == SessionAfter(session[x], status)
<1>4. /\ b \in BarrierRecord /\ Len(b.rx) <= RxCapacity /\ ~b.active
      /\ b.completed = barrier[x].completed
  BY <1>2, <1>3, ClosedTyped DEF Ownership, TypeOK
<1>5. /\ s \in SessionRecord /\ s.artifact
      /\ status # "OK" => s.faulted
  BY <1>2, <1>3, AfterTyped DEF Ownership, Attached
<1> HIDE DEF b, s
<1>6. /\ barrier' \in [Sessions -> BarrierRecord]
      /\ \A y \in Sessions : Len(barrier'[y].rx) <= RxCapacity
      /\ barrier'[x] = b
      /\ \A y \in Sessions : y # x => barrier'[y] = barrier[y]
  BY <1>1, <1>2, <1>4 DEF Ownership, TypeOK, b
<1>7. /\ session' \in [Sessions -> SessionRecord]
      /\ session'[x] = s
      /\ \A y \in Sessions : y # x => session'[y] = session[y]
  BY <1>1, <1>2, <1>5 DEF Ownership, TypeOK, s
<1>8. last' \in [op : Ops, session : Sessions, status : Statuses]
  BY <1>1, <1>2 DEF Ops
<1>9. NocTypeOK'
  BY <1>1 DEF Ownership, TypeOK, NocTypeOK
<1>10. TypeOK'
  BY <1>1, <1>6, <1>7, <1>8, <1>9 DEF Ownership, TypeOK
<1>11. Detached' /\ Attached'
  BY <1>1, <1>2, <1>5, <1>6, <1>7 DEF Ownership, Detached, Attached
<1>12. Engaged'
  BY <1>1, <1>2, <1>4, <1>6 DEF Ownership, Engaged, InCall
<1>13. IsrEngaged'
  BY <1>1 DEF IsrEngaged
<1>14. TimedOut'
  BY <1>1, <1>2, <1>4, <1>5, <1>6, <1>7 DEF TimedOut
<1> QED
  BY <1>10, <1>11, <1>12, <1>13, <1>14 DEF Ownership

LEMMA PollOwnership ==
  ASSUME Ownership, PollSucceeds \/ Expire PROVE Ownership'
<1> DEFINE b == barrier[call.session]
<1>1. b \in BarrierRecord
  BY DEF Ownership, TypeOK
<1>2. BarrierStatus(b) \in Statuses /\ BarrierStatus(b) # "TIMEOUT"
  BY <1>1, StatusTyped DEF BarrierStatus, BarrierRecord, HandlerStatuses
<1>3. Recheck(b) \in Statuses /\ (Recheck(b) = "TIMEOUT" => ~b.completed)
  BY <1>1, <1>2, StatusTyped DEF Recheck
<1>4. CASE PollSucceeds
  BY <1>2, <1>4, FinishOwnership DEF PollSucceeds, InCall
<1>5. CASE Expire
  BY <1>3, <1>5, FinishOwnership DEF Expire, InCall
<1> QED
  BY <1>4, <1>5

LEMMA EnterIsrOwnership ==
  ASSUME Ownership, EnterIsr PROVE Ownership'
<1>1. /\ isr = None
      /\ AckIrq
      /\ irqEnabled' = FALSE
      /\ isr' = (IF /\ owner # None
                    /\ barrier[owner].active
                    /\ ~barrier[owner].completed
                 THEN owner ELSE None)
      /\ UNCHANGED <<down, up, chip, answer, owner, barrier, decoded, mainVars>>
  BY DEF EnterIsr
<1>2. NocTypeOK'
  BY <1>1, AckTyped DEF Ownership, TypeOK, NocTypeOK
<1>3. TypeOK'
  BY <1>1, <1>2 DEF Ownership, TypeOK, mainVars
<1>4. Detached' /\ Attached' /\ Engaged' /\ TimedOut'
  BY <1>1 DEF Ownership, Detached, Attached, Engaged, TimedOut, InCall, mainVars
<1>5. IsrEngaged'
  BY <1>1 DEF Ownership, TypeOK, Engaged, IsrEngaged, InCall, mainVars
<1> QED
  BY <1>3, <1>4, <1>5 DEF Ownership

\* A step of the running handler: what it does to the barrier it serves.
LEMMA DrainOwnership ==
  ASSUME Ownership, isr # None, NEW b \in BarrierRecord, Len(b.rx) <= RxCapacity,
         b.active, barrier' = [barrier EXCEPT ![isr] = b], LeaveOrLoop,
         NocTypeOK', decoded' \in Seq(UpFrame), UNCHANGED <<owner, mainVars>>
  PROVE  Ownership'
<1>1. /\ InCall /\ isr = owner /\ owner \in Sessions
      /\ isr' = (IF b.completed THEN None ELSE isr)
  BY DEF Ownership, TypeOK, IsrEngaged, LeaveOrLoop
<1>2. /\ barrier' \in [Sessions -> BarrierRecord]
      /\ \A y \in Sessions : Len(barrier'[y].rx) <= RxCapacity
      /\ barrier'[owner] = b
      /\ \A y \in Sessions : y # owner => barrier'[y] = barrier[y]
  BY <1>1 DEF Ownership, TypeOK
<1>3. TypeOK'
  BY <1>1, <1>2 DEF Ownership, TypeOK, mainVars
<1>4. Detached' /\ Attached'
  BY <1>2 DEF Ownership, Detached, Attached, mainVars
<1>5. Engaged'
  BY <1>1, <1>2 DEF Ownership, Engaged, InCall, mainVars
<1>6. IsrEngaged'
  BY <1>1, <1>2 DEF IsrEngaged, InCall, mainVars
<1>7. TimedOut'
  BY <1>1 DEF Ownership, Engaged, InCall, TimedOut, mainVars
<1> QED
  BY <1>3, <1>4, <1>5, <1>6, <1>7 DEF Ownership

LEMMA ReceiveOwnership ==
  ASSUME Ownership, isr # None, NEW frame \in UpFrame, Receive(frame),
         LeaveOrLoop, NocTypeOK', UNCHANGED <<owner, mainVars>>
  PROVE  Ownership'
<1>1. barrier[isr] \in BarrierRecord /\ Len(barrier[isr].rx) <= RxCapacity
  BY DEF Ownership, TypeOK
<1>2. PICK status \in HandlerResults(barrier[isr].handler, frame) :
        /\ barrier' = [barrier EXCEPT ![isr] = Received(barrier[isr], frame, status)]
        /\ decoded' = (IF /\ frame.kind = "work"
                          /\ barrier[isr].handler = "decode"
                          /\ barrier[isr].handlerStatus = "OK"
                          /\ status = "OK"
                       THEN Append(decoded, frame) ELSE decoded)
  BY DEF Receive
<1>3. status \in HandlerStatuses
  BY DEF HandlerResults, HandlerStatuses
<1>4. decoded' \in Seq(UpFrame)
  BY <1>2 DEF Ownership, TypeOK
<1> DEFINE b == Received(barrier[isr], frame, status)
<1>5. b \in BarrierRecord /\ Len(b.rx) <= RxCapacity /\ b.active = barrier[isr].active
  BY <1>1, <1>3, ReceivedTyped
<1>6. barrier[isr].active
  BY DEF Ownership, TypeOK, IsrEngaged, Engaged
<1> HIDE DEF b
<1> QED
  BY <1>2, <1>4, <1>5, <1>6, DrainOwnership DEF b

LEMMA IsrReadsOwnership ==
  ASSUME Ownership, IsrReadsFrame \/ IsrReadsIdle \/ IsrReadFails
  PROVE  Ownership'
<1>1. CASE IsrReadsFrame
  <2>1. Head(up) \in UpFrame /\ Tail(up) \in Seq(UpFrame)
    BY <1>1, HeadTyped DEF IsrReadsFrame, Ownership, TypeOK
  <2>2. NocTypeOK'
    BY <1>1, <2>1 DEF IsrReadsFrame, Ownership, TypeOK, NocTypeOK
  <2> QED
    BY <1>1, <2>1, <2>2, ReceiveOwnership DEF IsrReadsFrame
<1>2. CASE IsrReadsIdle
  <2>1. IdleFrame \in UpFrame
    BY DEF IdleFrame, UpFrame
  <2>2. NocTypeOK'
    BY <1>2 DEF IsrReadsIdle, Ownership, TypeOK, NocTypeOK, nocVars
  <2> QED
    BY <1>2, <2>1, <2>2, ReceiveOwnership DEF IsrReadsIdle
<1>3. CASE IsrReadFails
  <2> DEFINE b == [barrier[isr] EXCEPT !.hardwareError = TRUE, !.completed = TRUE]
  <2>1. /\ barrier[isr] \in BarrierRecord /\ Len(barrier[isr].rx) <= RxCapacity
        /\ barrier[isr].active /\ isr \in Sessions
    BY <1>3 DEF IsrReadFails, Ownership, TypeOK, IsrEngaged, Engaged
  <2>2. b \in BarrierRecord /\ Len(b.rx) <= RxCapacity /\ b.active
    BY <2>1 DEF BarrierRecord
  <2>3. barrier' = [barrier EXCEPT ![isr] = b]
    BY <1>3, <2>1 DEF IsrReadFails, Ownership, TypeOK
  <2>4. NocTypeOK' /\ decoded' \in Seq(UpFrame)
    BY <1>3 DEF IsrReadFails, Ownership, TypeOK, NocTypeOK, nocVars
  <2> HIDE DEF b
  <2> QED
    BY <1>3, <2>2, <2>3, <2>4, DrainOwnership DEF IsrReadFails
<1> QED
  BY <1>1, <1>2, <1>3

\* From inside the handler nothing can be sent: the barrier is active.
LEMMA NestedSendRefused ==
  ASSUME Ownership, NEW x \in Sessions, NestedSend(x)
  PROVE  SubmitStatus(x) # "OK" /\ down' = down
<1>1. owner # None /\ barrier[owner].active
  BY DEF NestedSend, Ownership, TypeOK, IsrEngaged, Engaged
<1>2. SubmitStatus(x) # "OK"
  BY <1>1 DEF SubmitStatus, Ownership, Detached, ClearedSession
<1> QED
  BY <1>2 DEF NestedSend

LEMMA NestedSendOwnership ==
  ASSUME Ownership, NEW x \in Sessions, NestedSend(x) PROVE Ownership'
<1>1. /\ last' \in [op : Ops, session : Sessions, status : Statuses]
      /\ last'.status # "TIMEOUT"
  BY StatusTyped DEF NestedSend, Return, Ops, SubmitOps, SubmitStatus
<1>2. UNCHANGED <<down, up, irqPending, irqEnabled, chip, answer, owner, session,
                  barrier, decoded, pc, call, irqWasEnabled, isr, epochStart>>
  BY NestedSendRefused DEF NestedSend
<1> QED
  BY <1>1, <1>2
     DEF Ownership, TypeOK, NocTypeOK, Detached, Attached, Engaged, IsrEngaged,
         TimedOut, InCall

LEMMA ApiCallOwnership ==
  ASSUME Ownership, NEW x \in Sessions, ApiCall(x) PROVE Ownership'
<1>1. CASE InitSession(x) \/ DeinitSession(x)
  BY <1>1, InitSessionOwnership, DeinitOwnership
<1>2. CASE \E op \in SubmitOps :
             RejectSubmit(op, x) \/ \E n \in {0, 1} : BeginSubmit(op, x, n)
  BY <1>2, RejectOwnership, BeginSubmitOwnership
<1>3. CASE \E op \in ControlOps, arg \in Nat :
             \/ RejectControl(x, op, arg)
             \/ \E handler \in Handlers : BeginControl(x, op, arg, handler)
  BY <1>3, RejectOwnership, BeginControlOwnership
<1>4. /\ 0 \in Nat
      /\ \A n \in 0..PayloadLimit + 1 : n \in Nat
      /\ \A t \in 0..MaxTime : t \in Nat
  OBVIOUS
<1> QED
  BY <1>1, <1>2, <1>3, <1>4
     DEF ApiCall, ResetModel, SyncWaitPayload, SyncWaitUntil,
         SyncWaitUntilWithRxHandler, ControlOps, Handlers

LEMMA NextOwnership == Ownership /\ [Next]_vars => Ownership'
<1> SUFFICES ASSUME Ownership, Next PROVE Ownership'
  BY StutterOwnership
<1>1. CASE \E x \in Sessions : ApiCall(x)
  BY <1>1, ApiCallOwnership
<1>2. CASE MainStep
  BY <1>2, SubmitOwnership, WriteControlOwnership, PollOwnership,
     TimeLimitPassesOwnership DEF MainStep
<1>3. CASE IsrStep
  BY <1>3, EnterIsrOwnership, IsrReadsOwnership DEF IsrStep
<1>4. CASE \E x \in Sessions : NestedSend(x) \/ NestedDeinit(x)
  BY <1>4, NestedSendOwnership, DeinitOwnership
<1>5. CASE Chip \/ Recover
  BY <1>5, ChipOwnership
<1> QED
  BY <1>1, <1>2, <1>3, <1>4, <1>5 DEF Next

\* Ownership of the interrupt, of the barrier and of the call is invariant.
THEOREM OwnershipInvariant == Spec => []Ownership
  BY InitOwnership, NextOwnership, PTL DEF Spec

\* Every variable keeps its type; no step count sent to the chip underflows
\* and no receive buffer is overrun.
THEOREM TypeCorrect == Spec => []TypeOK
<1>1. Ownership => TypeOK
  BY DEF Ownership
<1> QED
  BY <1>1, OwnershipInvariant, PTL

\* One session at a time is bound, and it is g_active_session.
THEOREM OneOwner == Spec => []SoleOwner
<1>1. Ownership => SoleOwner
  BY DEF Ownership, TypeOK, Detached, Attached, SoleOwner, ClearedSession
<1> QED
  BY <1>1, OwnershipInvariant, PTL

\* The handler works only for the call the main program is blocked in.
THEOREM HandlerConfined == Spec => []HandlerServesCaller
<1>1. Ownership => HandlerServesCaller
  BY DEF Ownership, TypeOK, Engaged, IsrEngaged, HandlerServesCaller, InCall
<1> QED
  BY <1>1, OwnershipInvariant, PTL

\* A timeout is never returned for a barrier that was completed.
THEOREM TimeoutsHonest == Spec => []HonestTimeout
<1>1. Ownership => HonestTimeout
  BY DEF Ownership, TimedOut, HonestTimeout
<1> QED
  BY <1>1, OwnershipInvariant, PTL

(***************************************************************************)
(* The inductive invariant, second part: where the request is.             *)
(***************************************************************************)

\* At most one request is outstanding: a control frame is the last thing
\* written, to a chip that has nothing else to answer, and a COMPLETE frame is
\* the last thing the chip has emitted.
OneRequest ==
  /\ \A i \in 1..Len(down) :
       IsControl(down[i]) => i = Len(down) /\ ~chip.busy /\ up = <<>>
  /\ \A i \in 1..Len(up) : IsComplete(up[i]) => i = Len(up) /\ ~chip.busy

\* Until the control frame is written, no interrupt can be taken.
NotYetAsked ==
  pc = "write" =>
    Quiet /\ ~irqPending /\ isr = None /\ ~barrier[owner].completed

\* A barrier that completed without an error has drained the answer.
Drained ==
  /\ InCall
  /\ barrier[owner].completed
  /\ ~barrier[owner].overflow
  /\ ~barrier[owner].hardwareError
  => Quiet

Requests == OneRequest /\ HealthyIsQuiet /\ NotYetAsked /\ Drained


(***************************************************************************)
(* The FIFOs.                                                              *)
(***************************************************************************)

LEMMA RequestTyped ==
  ASSUME Ownership
  PROVE  /\ down \in Seq(DownFrame) /\ up \in Seq(UpFrame)
         /\ chip \in [busy : BOOLEAN, left : Nat, time : Nat]
         /\ Len(down) \in Nat /\ Len(up) \in Nat
  BY DEF Ownership, TypeOK, NocTypeOK

LEMMA TailFacts ==
  ASSUME NEW S, NEW s \in Seq(S), s # <<>>
  PROVE  /\ Len(s) \in Nat /\ Len(s) >= 1
         /\ Head(s) = s[1]
         /\ Len(Tail(s)) = Len(s) - 1
         /\ \A i \in 1..Len(Tail(s)) : Tail(s)[i] = s[i + 1]
         /\ Len(s) = 1 => Tail(s) = <<>>
<1>1. Len(s) \in Nat /\ Len(s) >= 1
  BY EmptySeq
<1>2. Head(s) = s[1]
  OBVIOUS
<1>3. ASSUME Len(s) = 1 PROVE Tail(s) = <<>>
  <2>1. Tail(s) \in Seq(S) /\ Len(Tail(s)) = 0
    BY <1>3, HeadTailProperties
  <2> QED
    BY <2>1, EmptySeq
<1> QED
  BY <1>1, <1>2, <1>3, HeadTailProperties

\* A quiet chip stays quiet and raises no interrupt.
LEMMA ChipStaysQuiet ==
  ASSUME Ownership, ChipStep, Quiet
  PROVE  Quiet' /\ irqPending' = irqPending
<1>1. ~chip.busy /\ up = <<>> /\ \A i \in 1..Len(down) : ~IsControl(down[i])
  BY DEF Quiet, ControlWaiting
<1>2. ChipTakesData
  <2>1. ~ChipStarts
    BY <1>1, RequestTyped, TailFacts DEF ChipStarts
  <2> QED
    BY <1>1, <2>1 DEF ChipStep, ChipEmitsWork, ChipCompletes
<1>3. /\ down # <<>> /\ down' = Tail(down)
      /\ UNCHANGED <<up, irqPending, irqEnabled, chip, answer>>
  BY <1>2 DEF ChipTakesData
<1>4. \A i \in 1..Len(down') : ~IsControl(down'[i])
  <2> SUFFICES ASSUME NEW i \in 1..Len(down') PROVE ~IsControl(down'[i])
    OBVIOUS
  <2>1. down'[i] = down[i + 1] /\ i + 1 \in 1..Len(down)
    BY <1>3, RequestTyped, TailFacts
  <2> QED
    BY <1>1, <2>1
<1> QED
  BY <1>1, <1>3, <1>4 DEF Quiet, ControlWaiting

LEMMA ChipOneRequest ==
  ASSUME Ownership, OneRequest, ChipStep PROVE OneRequest'
<1>1. CASE ChipTakesData
  <2>1. /\ down # <<>> /\ down' = Tail(down)
        /\ UNCHANGED <<up, chip>>
    BY <1>1 DEF ChipTakesData
  <2>2. ASSUME NEW i \in 1..Len(down'), IsControl(down'[i])
        PROVE  i = Len(down') /\ ~chip'.busy /\ up' = <<>>
    <3>1. /\ down'[i] = down[i + 1] /\ i + 1 \in 1..Len(down)
          /\ Len(down') = Len(down) - 1
      BY <2>1, RequestTyped, TailFacts
    <3>2. i + 1 = Len(down) /\ ~chip.busy /\ up = <<>>
      BY <2>2, <3>1 DEF OneRequest
    <3>3. i = Len(down')
      BY <3>1, <3>2
    <3> QED
      BY <2>1, <3>2, <3>3
  <2> QED
    BY <2>1, <2>2 DEF OneRequest
<1>2. CASE ChipStarts
  <2>1. /\ down # <<>> /\ IsControl(Head(down)) /\ down' = Tail(down)
        /\ up' = up
    BY <1>2 DEF ChipStarts
  <2>2. Len(down) = 1 /\ up = <<>>
    <3>1. 1 \in 1..Len(down) /\ Head(down) = down[1]
      BY <2>1, RequestTyped, TailFacts
    <3> QED
      BY <2>1, <3>1 DEF OneRequest
  <2>3. down' = <<>> /\ up' = <<>>
    BY <2>1, <2>2, RequestTyped, TailFacts
  <2> QED
    BY <2>3 DEF OneRequest
<1>3. CASE ChipEmitsWork \/ ChipCompletes
  <2>1. PICK frame \in UpFrame :
          /\ chip.busy /\ down' = down /\ up' = Append(up, frame)
          /\ IsComplete(frame) => ~chip'.busy
    <3>1. CASE ChipEmitsWork
      <4> DEFINE frame == [kind |-> "work", seq |-> Len(answer) + 1]
      <4>1. frame \in UpFrame /\ ~IsComplete(frame)
        BY AnswerLength DEF UpFrame, IsComplete, Ownership, TypeOK
      <4> QED
        BY <3>1, <4>1 DEF ChipEmitsWork, Emit
    <3>2. CASE ChipCompletes
      <4> DEFINE frame == [kind |-> "complete", seq |-> Len(answer) + 1]
      <4>1. ~chip'.busy
        BY <3>2, RequestTyped DEF ChipCompletes
      <4>2. frame \in UpFrame
        BY AnswerLength DEF UpFrame, Ownership, TypeOK
      <4> QED
        BY <3>2, <4>1, <4>2 DEF ChipCompletes, Emit
    <3> QED
      BY <1>3, <3>1, <3>2
  <2>2. \A i \in 1..Len(down) : ~IsControl(down[i])
    BY <2>1 DEF OneRequest
  <2>3. \A i \in 1..Len(up) : ~IsComplete(up[i])
    BY <2>1 DEF OneRequest
  <2>4. ASSUME NEW i \in 1..Len(up'), IsComplete(up'[i])
        PROVE  i = Len(up') /\ ~chip'.busy
    <3>1. Len(up') = Len(up) + 1 /\ Len(up) \in Nat
      BY <2>1, RequestTyped, AppendProperties
    <3>2. i \notin 1..Len(up)
      BY <2>1, <2>3, <2>4, RequestTyped, AppendProperties
    <3>3. i = Len(up) + 1
      BY <3>1, <3>2
    <3> QED
      BY <2>1, <2>4, <3>1, <3>3, RequestTyped, AppendProperties
  <2> QED
    BY <2>1, <2>2, <2>4 DEF OneRequest
<1> QED
  BY <1>1, <1>2, <1>3 DEF ChipStep

\* The handler's read of a frame; a COMPLETE frame leaves nothing behind.
LEMMA ReadOneRequest ==
  ASSUME Ownership, OneRequest, up # <<>>, up' = Tail(up), down' = down,
         chip' = chip
  PROVE  OneRequest' /\ (IsComplete(Head(up)) => Quiet')
<1>1. \A i \in 1..Len(down) : ~IsControl(down[i])
  BY DEF OneRequest
<1>2. ASSUME NEW i \in 1..Len(up'), IsComplete(up'[i])
      PROVE  i = Len(up') /\ ~chip'.busy
  <2>1. /\ up'[i] = up[i + 1] /\ i + 1 \in 1..Len(up)
        /\ Len(up') = Len(up) - 1
    BY RequestTyped, TailFacts
  <2>2. i + 1 = Len(up) /\ ~chip.busy
    BY <1>2, <2>1 DEF OneRequest
  <2>3. ~chip'.busy
    BY <2>2
  <2>4. i = Len(up) - 1
    BY <2>2, RequestTyped
  <2> QED
    BY <2>1, <2>3, <2>4
<1>3. ASSUME IsComplete(Head(up)) PROVE up' = <<>> /\ ~chip.busy
  BY <1>3, RequestTyped, TailFacts DEF OneRequest
<1> QED
  BY <1>1, <1>2, <1>3 DEF OneRequest, Quiet, ControlWaiting

\* A frame is written only when nothing is outstanding.
LEMMA WriteOneRequest ==
  ASSUME Ownership, Quiet, NEW frame \in DownFrame, WriteFrame(frame),
         up' = up, chip' = chip
  PROVE  OneRequest' /\ (~IsControl(frame) => Quiet')
<1>1. ~chip.busy /\ up = <<>> /\ \A i \in 1..Len(down) : ~IsControl(down[i])
  BY DEF Quiet, ControlWaiting
<1>2. down' = Append(down, frame)
  BY DEF WriteFrame
<1>3. ASSUME NEW i \in 1..Len(down'), IsControl(down'[i])
      PROVE  i = Len(down') /\ down'[i] = frame
  <2>1. Len(down') = Len(down) + 1 /\ Len(down) \in Nat
    BY <1>2, RequestTyped, AppendProperties
  <2>2. i \notin 1..Len(down)
    BY <1>1, <1>2, <1>3, RequestTyped, AppendProperties
  <2>3. i = Len(down) + 1
    BY <2>1, <2>2
  <2> QED
    BY <1>2, <2>1, <2>3, RequestTyped, AppendProperties
<1> QED
  BY <1>1, <1>3 DEF OneRequest, Quiet, ControlWaiting

(***************************************************************************)
(* Requests is inductive, given Ownership: one lemma per kind of step.     *)
(***************************************************************************)

LEMMA InitRequests == Init => Requests
<1> SUFFICES ASSUME Init PROVE Requests
  OBVIOUS
<1>1. OneRequest
  BY DEF Init, NocInit, OneRequest
<1>2. HealthyIsQuiet /\ NotYetAsked /\ Drained
  BY DEF Init, HealthyIsQuiet, Healthy, NotYetAsked, Drained, InCall
<1> QED
  BY <1>1, <1>2 DEF Requests

\* A step that touches neither the FIFOs nor what the session knows of them.
LEMMA SameRequests ==
  ASSUME Requests,
         UNCHANGED <<down, up, chip, irqPending, owner, session, barrier, pc, isr>>
  PROVE  Requests'
  BY DEF Requests, OneRequest, HealthyIsQuiet, Healthy, NotYetAsked, Drained,
         InCall, Quiet, ControlWaiting

LEMMA ChipRequests ==
  ASSUME Ownership, Requests, Chip PROVE Requests'
<1>1. /\ ChipStep
      /\ UNCHANGED <<owner, barrier, session, pc, isr>>
  BY DEF Chip, mainVars
<1>2. OneRequest'
  BY <1>1, ChipOneRequest DEF Requests
<1>3. Quiet => Quiet' /\ irqPending' = irqPending
  BY <1>1, ChipStaysQuiet
<1> QED
  BY <1>1, <1>2, <1>3
     DEF Requests, HealthyIsQuiet, Healthy, NotYetAsked, Drained, InCall

LEMMA RecoverRequests ==
  ASSUME Requests, Recover PROVE Requests'
<1>1. /\ down' = <<>> /\ up' = <<>> /\ ~chip'.busy
      /\ pc = "idle"
      /\ UNCHANGED <<owner, barrier, session, pc, isr>>
  BY DEF Recover, PlatformRecovers, Idle, mainVars
<1>2. OneRequest' /\ Quiet'
  BY <1>1 DEF OneRequest, Quiet, ControlWaiting
<1> QED
  BY <1>1, <1>2 DEF Requests, HealthyIsQuiet, NotYetAsked, Drained, InCall

LEMMA InitSessionRequests ==
  ASSUME Requests, NEW x \in Sessions, InitSession(x) PROVE Requests'
<1>1. CASE owner # None
  BY <1>1, SameRequests DEF InitSession
<1>2. CASE owner = None
  <2>1. /\ Quiet /\ pc = "idle"
        /\ UNCHANGED <<down, up, chip, pc>>
    BY <1>2 DEF InitSession, Idle
  <2>2. OneRequest' /\ Quiet'
    BY <2>1 DEF Requests, OneRequest, Quiet, ControlWaiting
  <2> QED
    BY <2>1, <2>2 DEF Requests, HealthyIsQuiet, NotYetAsked, Drained, InCall
<1> QED
  BY <1>1, <1>2

\* A deinit that is accepted leaves no owner and no call.
LEMMA DeinitRequests ==
  ASSUME Ownership, Requests, NEW x \in Sessions,
         DeinitSession(x) \/ NestedDeinit(x)
  PROVE  Requests'
<1>1. Deinit(x)
  BY DEF DeinitSession, NestedDeinit
<1>2. CASE DeinitStatus(x) # "OK"
  BY <1>1, <1>2, SameRequests DEF Deinit
<1>3. CASE DeinitStatus(x) = "OK"
  <2>1. owner \in {None, x} /\ ~(owner = x /\ barrier[x].active)
    BY <1>3 DEF DeinitStatus
  <2>2. ~InCall
    BY <2>1 DEF Ownership, Engaged, InCall, TypeOK
  <2>3. owner' = None /\ UNCHANGED <<down, up, chip, pc>>
    BY <1>1, <1>3, <2>1 DEF Deinit
  <2>4. OneRequest'
    BY <2>3 DEF Requests, OneRequest
  <2> QED
    BY <2>2, <2>3, <2>4
       DEF Requests, HealthyIsQuiet, Healthy, NotYetAsked, Drained, InCall
<1> QED
  BY <1>2, <1>3

LEMMA BeginSubmitRequests ==
  ASSUME Requests, NEW x \in Sessions, NEW op \in SubmitOps, NEW n \in {0, 1},
         BeginSubmit(op, x, n)
  PROVE  Requests'
<1>1. /\ pc = "idle" /\ pc' = "submit"
      /\ UNCHANGED <<down, up, chip, owner, session>>
  BY DEF BeginSubmit, Idle, nocVars
<1> QED
  BY <1>1 DEF Requests, OneRequest, HealthyIsQuiet, Healthy, NotYetAsked,
              Drained, InCall, Quiet, ControlWaiting

\* What a healthy session is about to send finds the chip quiet.
LEMMA SubmitIsQuiet ==
  ASSUME Ownership, Requests, Submit PROVE Healthy /\ Quiet
<1>1. Healthy /\ ~InCall
  BY DEF Submit, Ownership, TypeOK, Engaged, Healthy, InCall
<1> QED
  BY <1>1 DEF Requests, HealthyIsQuiet

LEMMA SubmitRequests ==
  ASSUME Ownership, Requests, Submit PROVE Requests'
<1>1. /\ up' = up /\ chip' = chip /\ pc' = "idle"
      /\ call.arg # 0 => WriteFrame(DataFrame)
      /\ call.arg = 0 => down' = down
  BY DEF Submit
<1>2. OneRequest' /\ Quiet'
  <2>1. CASE call.arg = 0
    BY <1>1, <2>1, SubmitIsQuiet
       DEF Requests, OneRequest, Quiet, ControlWaiting
  <2>2. CASE call.arg # 0
    <3>1. DataFrame \in DownFrame /\ ~IsControl(DataFrame)
      BY DEF DataFrame, DownFrame, IsControl
    <3> QED
      BY <1>1, <2>2, <3>1, SubmitIsQuiet, WriteOneRequest
  <2> QED
    BY <2>1, <2>2
<1> QED
  BY <1>1, <1>2 DEF Requests, HealthyIsQuiet, NotYetAsked, Drained, InCall

\* The barrier opens on a quiet chip, so acknowledging leaves no interrupt.
LEMMA BeginControlRequests ==
  ASSUME Ownership, Requests, NEW x \in Sessions, NEW op \in ControlOps,
         NEW arg \in Nat, NEW handler \in Handlers,
         BeginControl(x, op, arg, handler)
  PROVE  Requests'
<1>1. /\ pc = "idle" /\ isr = None /\ pc' = "write" /\ isr' = None
      /\ ControlStatus(x, op, arg) = "OK"
      /\ AckIrq
      /\ UNCHANGED <<down, up, chip, owner>>
  BY DEF BeginControl, StartBarrier, Idle
<1>2. ~barrier'[x].completed
  <2>1. barrier' =
          [barrier EXCEPT ![x] =
             [ClearedBarrier EXCEPT !.handler = handler, !.active = TRUE]]
    BY DEF BeginControl, StartBarrier
  <2> QED
    BY <2>1 DEF ClearedBarrier, Ownership, TypeOK
<1>3. session[x].artifact /\ ~session[x].faulted
  BY <1>1 DEF ControlStatus
<1>4. owner = x
  BY <1>3 DEF Ownership, Detached, ClearedSession
<1>5. Quiet
  BY <1>1, <1>3, <1>4
     DEF Requests, HealthyIsQuiet, Healthy, InCall
<1>6. ~irqPending'
  BY <1>1, <1>5 DEF AckIrq, Quiet
<1>7. OneRequest' /\ Quiet'
  BY <1>1, <1>5 DEF Requests, OneRequest, Quiet, ControlWaiting
<1> QED
  BY <1>1, <1>2, <1>4, <1>6, <1>7
     DEF Requests, HealthyIsQuiet, NotYetAsked, Drained, InCall

LEMMA WriteControlRequests ==
  ASSUME Ownership, Requests, WriteControl PROVE Requests'
<1> DEFINE frame == [kind |-> IF call.op = "reset" THEN "init" ELSE "sync",
                     steps |-> call.steps]
<1>1. /\ pc = "write" /\ pc' = "wait" /\ WriteFrame(frame)
      /\ UNCHANGED <<up, chip, owner, barrier>>
  BY DEF WriteControl
<1>2. Quiet /\ ~barrier[owner].completed
  BY <1>1 DEF Requests, NotYetAsked
<1>3. frame \in DownFrame
  BY DEF Ownership, TypeOK, DownFrame
<1>4. OneRequest'
  BY <1>1, <1>2, <1>3, WriteOneRequest
<1> QED
  BY <1>1, <1>2, <1>4
     DEF Requests, HealthyIsQuiet, NotYetAsked, Drained, InCall

LEMMA TimeLimitPassesRequests ==
  ASSUME Requests, TimeLimitPasses PROVE Requests'
<1>1. /\ pc = "wait" /\ pc' = "expired"
      /\ UNCHANGED <<down, up, chip, owner, session, barrier>>
  BY DEF TimeLimitPasses, nocVars
<1> QED
  BY <1>1 DEF Requests, OneRequest, HealthyIsQuiet, NotYetAsked, Drained,
              InCall, Quiet, ControlWaiting

\* A call that does not fault its session has drained its answer.
LEMMA PollRequests ==
  ASSUME Ownership, Requests, PollSucceeds \/ Expire PROVE Requests'
<1> DEFINE x == call.session
           b == barrier[x]
<1>1. /\ InCall /\ owner = x /\ x \in Sessions
      /\ call.op \in ControlOps /\ call.arg \in Nat
      /\ session[x] \in SessionRecord /\ b \in BarrierRecord
  BY DEF PollSucceeds, Expire, InCall, Ownership, TypeOK, Engaged
<1>2. PICK status \in Statuses :
        /\ Finish(status)
        /\ status = "OK" => b.completed /\ BarrierStatus(b) = "OK"
  <2>1. BarrierStatus(b) \in Statuses /\ Recheck(b) \in Statuses
    BY <1>1, StatusTyped
  <2>2. CASE PollSucceeds
    BY <2>1, <2>2 DEF PollSucceeds
  <2>3. CASE Expire
    BY <2>1, <2>3 DEF Expire, Recheck
  <2> QED
    BY <2>2, <2>3
<1>3. /\ pc' = "idle"
      /\ session' = [session EXCEPT ![x] = SessionAfter(session[x], status)]
      /\ UNCHANGED <<down, up, chip, owner>>
  BY <1>2 DEF Finish
<1>4. status # "OK" => session'[x].faulted
  BY <1>1, <1>3, AfterTyped DEF Ownership, TypeOK
<1>5. status = "OK" => Quiet
  <2>1. BarrierStatus(b) = "OK" => ~b.overflow /\ ~b.hardwareError
    BY DEF BarrierStatus
  <2> QED
    BY <1>1, <1>2, <2>1 DEF Requests, Drained
<1>6. OneRequest' /\ (Quiet => Quiet')
  BY <1>3 DEF Requests, OneRequest, Quiet, ControlWaiting
<1> QED
  BY <1>1, <1>3, <1>4, <1>5, <1>6
     DEF Requests, HealthyIsQuiet, Healthy, NotYetAsked, Drained, InCall

\* Before the control frame is written there is no interrupt to take.
LEMMA EnterIsrRequests ==
  ASSUME Ownership, Requests, EnterIsr PROVE Requests'
<1>1. /\ irqPending
      /\ UNCHANGED <<down, up, chip, owner, session, barrier, pc>>
  BY DEF EnterIsr, mainVars
<1>2. pc # "write"
  BY <1>1 DEF Requests, NotYetAsked
<1> QED
  BY <1>1, <1>2 DEF Requests, OneRequest, HealthyIsQuiet, Healthy, NotYetAsked,
                    Drained, InCall, Quiet, ControlWaiting

\* The handler completes its barrier without an error only by reading COMPLETE.
LEMMA ReceiveCompletes ==
  ASSUME Ownership, isr # None, NEW frame \in UpFrame, Receive(frame)
  PROVE  LET b == barrier'[isr]
         IN  b.completed /\ ~b.overflow => IsComplete(frame)
<1> DEFINE old == barrier[isr]
<1>1. old \in BarrierRecord /\ ~old.completed /\ isr \in Sessions
  BY DEF Ownership, TypeOK, IsrEngaged
<1>2. PICK status \in HandlerResults(old.handler, frame) :
        barrier' = [barrier EXCEPT ![isr] = Received(old, frame, status)]
  BY DEF Receive
<1>3. barrier'[isr] = Received(old, frame, status)
  BY <1>1, <1>2 DEF Ownership, TypeOK
<1>4. IsComplete(frame) \in BOOLEAN
  BY DEF IsComplete
<1> HIDE DEF old
<1>5. CASE Handled(old, frame)
  BY <1>1, <1>3, <1>5 DEF Received, BarrierRecord
<1>6. CASE ~Handled(old, frame) /\ old.handler = "none" /\ Len(old.rx) >= RxCapacity
  BY <1>1, <1>3, <1>6 DEF Received, BarrierRecord
<1>7. CASE /\ ~Handled(old, frame)
           /\ ~(old.handler = "none" /\ Len(old.rx) >= RxCapacity)
  BY <1>1, <1>3, <1>4, <1>7 DEF Received, BarrierRecord
<1> QED
  BY <1>5, <1>6, <1>7

LEMMA IsrReadsRequests ==
  ASSUME Ownership, Requests, IsrReadsFrame \/ IsrReadsIdle \/ IsrReadFails
  PROVE  Requests'
<1>1. /\ isr # None /\ isr = owner /\ InCall /\ pc # "write"
      /\ UNCHANGED <<owner, session, pc>>
  BY DEF IsrReadsFrame, IsrReadsIdle, IsrReadFails, Ownership, IsrEngaged,
         Requests, NotYetAsked, mainVars
<1>2. SUFFICES OneRequest' /\ Drained'
  BY <1>1 DEF Requests, HealthyIsQuiet, NotYetAsked, InCall
<1>3. CASE IsrReadsFrame
  <2>1. /\ up # <<>> /\ up' = Tail(up) /\ down' = down /\ chip' = chip
        /\ Receive(Head(up))
    BY <1>3 DEF IsrReadsFrame
  <2>2. Head(up) \in UpFrame
    BY <2>1, HeadTyped DEF Ownership, TypeOK
  <2>3. OneRequest' /\ (IsComplete(Head(up)) => Quiet')
    BY <2>1, ReadOneRequest DEF Requests
  <2> QED
    BY <1>1, <2>1, <2>2, <2>3, ReceiveCompletes DEF Drained
<1>4. CASE IsrReadsIdle
  <2>1. Receive(IdleFrame) /\ UNCHANGED <<down, up, chip>>
    BY <1>4 DEF IsrReadsIdle, nocVars
  <2>2. IdleFrame \in UpFrame /\ ~IsComplete(IdleFrame)
    BY DEF IdleFrame, UpFrame, IsComplete
  <2>3. OneRequest'
    BY <2>1 DEF Requests, OneRequest
  <2> QED
    BY <1>1, <2>1, <2>2, <2>3, ReceiveCompletes DEF Drained
<1>5. CASE IsrReadFails
  <2>1. barrier'[isr].hardwareError /\ UNCHANGED <<down, up, chip>>
    BY <1>1, <1>5
       DEF IsrReadFails, nocVars, Ownership, TypeOK, BarrierRecord
  <2>2. OneRequest'
    BY <2>1 DEF Requests, OneRequest
  <2> QED
    BY <1>1, <2>1, <2>2 DEF Drained
<1> QED
  BY <1>3, <1>4, <1>5

\* Rejected calls and refused sends from a handler change none of it.
LEMMA RefusedRequests ==
  ASSUME Ownership, Requests, NEW x \in Sessions,
         \/ \E op \in SubmitOps : RejectSubmit(op, x)
         \/ \E op \in ControlOps, arg \in Nat : RejectControl(x, op, arg)
         \/ NestedSend(x)
  PROVE  Requests' /\ UNCHANGED <<down, decoded, barrier>>
<1>1. UNCHANGED <<down, up, chip, irqPending, owner, session, barrier, pc, isr,
                  decoded>>
  BY NestedSendRefused DEF RejectSubmit, RejectControl, NestedSend, nocVars
<1> QED
  BY <1>1, SameRequests

\* The steps of ApiCall, without the bounds on arguments.
LEMMA ApiCallCases ==
  ASSUME NEW x \in Sessions, ApiCall(x)
  PROVE  \/ InitSession(x)
         \/ DeinitSession(x)
         \/ \E op \in SubmitOps : RejectSubmit(op, x)
         \/ \E op \in SubmitOps, n \in {0, 1} : BeginSubmit(op, x, n)
         \/ \E op \in ControlOps, arg \in Nat : RejectControl(x, op, arg)
         \/ \E op \in ControlOps, arg \in Nat, handler \in Handlers :
              BeginControl(x, op, arg, handler)
<1>1. /\ 0 \in Nat
      /\ \A n \in 0..PayloadLimit + 1 : n \in Nat
      /\ \A t \in 0..MaxTime : t \in Nat
  OBVIOUS
<1> QED
  BY <1>1 DEF ApiCall, ResetModel, SyncWaitPayload, SyncWaitUntil,
              SyncWaitUntilWithRxHandler, ControlOps, Handlers

LEMMA NextRequests ==
  Ownership /\ Requests /\ [Next]_vars => Requests'
<1> SUFFICES ASSUME Ownership, Requests, [Next]_vars PROVE Requests'
  OBVIOUS
<1>1. CASE UNCHANGED vars
  BY <1>1, SameRequests DEF vars, nocVars, mainVars
<1>2. ASSUME NEW x \in Sessions, ApiCall(x) PROVE Requests'
  BY <1>2, ApiCallCases, InitSessionRequests, DeinitRequests, RefusedRequests,
     BeginSubmitRequests, BeginControlRequests
<1>3. CASE MainStep
  BY <1>3, SubmitRequests, WriteControlRequests, PollRequests,
     TimeLimitPassesRequests DEF MainStep
<1>4. CASE IsrStep
  BY <1>4, EnterIsrRequests, IsrReadsRequests DEF IsrStep
<1>5. CASE \E x \in Sessions : NestedSend(x) \/ NestedDeinit(x)
  BY <1>5, RefusedRequests, DeinitRequests
<1>6. CASE Chip \/ Recover
  BY <1>6, ChipRequests, RecoverRequests
<1> QED
  BY <1>1, <1>2, <1>3, <1>4, <1>5, <1>6 DEF Next

\* At most one request is ever outstanding, and a session knows when none is.
THEOREM RequestsInvariant == Spec => [](Ownership /\ Requests)
<1>1. Init => Ownership /\ Requests
  BY InitOwnership, InitRequests
<1>2. Ownership /\ Requests /\ [Next]_vars => (Ownership /\ Requests)'
  BY NextOwnership, NextRequests
<1> QED
  BY <1>1, <1>2, PTL DEF Spec

\* Between calls a session that is not faulted has left nothing in the chip or
\* in the FIFOs: the next COMPLETE frame is the answer to its own request.
THEOREM QuietBetweenCalls == Spec => []HealthyIsQuiet
<1>1. Ownership /\ Requests => HealthyIsQuiet
  BY DEF Requests
<1> QED
  BY <1>1, RequestsInvariant, PTL

(***************************************************************************)
(* Action properties.                                                      *)
(***************************************************************************)

LEMMA ApiCallWritesNothing ==
  ASSUME NEW x \in Sessions, ApiCall(x) PROVE down' = down
  BY ApiCallCases
     DEF InitSession, DeinitSession, Deinit, RejectSubmit, BeginSubmit,
         RejectControl, BeginControl, nocVars

LEMMA ChipOnlyRemoves ==
  ASSUME Ownership, Chip \/ Recover PROVE ~(Len(down') > Len(down))
<1>1. Len(down) \in Nat
  BY RequestTyped
<1>2. down' = down \/ (down # <<>> /\ down' = Tail(down)) \/ down' = <<>>
  BY DEF Chip, Recover, PlatformRecovers, ChipStep, ChipTakesData, ChipStarts,
         ChipEmitsWork, ChipCompletes
<1>3. down # <<>> => Len(Tail(down)) = Len(down) - 1
  BY RequestTyped, TailFacts
<1> QED
  BY <1>1, <1>2, <1>3

\* Frames are written by main only, for a session that is not faulted, to a
\* chip that has nothing else to do.
THEOREM WritesToQuietChip == Spec => WritesOnlyToQuietChip
<1> DEFINE Rule == Len(down') > Len(down) => Healthy /\ isr = None /\ Quiet
<1>1. Ownership /\ Requests /\ [Next]_vars => [Rule]_vars
  <2> SUFFICES ASSUME Ownership, Requests, Next, Len(down') > Len(down)
               PROVE  Healthy /\ isr = None /\ Quiet
    OBVIOUS
  <2>1. down' # down
    BY RequestTyped
  <2>2. CASE \E x \in Sessions : ApiCall(x)
    BY <2>1, <2>2, ApiCallWritesNothing
  <2>3. CASE Submit
    BY <2>3, SubmitIsQuiet DEF Submit
  <2>4. CASE WriteControl
    <3>1. pc = "write" /\ isr = None
      BY <2>4 DEF WriteControl
    <3>2. Healthy
      BY <3>1 DEF Ownership, TypeOK, Engaged, Healthy
    <3> QED
      BY <3>1, <3>2 DEF Requests, NotYetAsked
  <2>5. CASE PollSucceeds \/ TimeLimitPasses \/ Expire
    BY <2>1, <2>5
       DEF PollSucceeds, TimeLimitPasses, Expire, Finish, nocVars
  <2>6. CASE IsrStep
    BY <2>1, <2>6
       DEF IsrStep, EnterIsr, IsrReadsFrame, IsrReadsIdle, IsrReadFails, nocVars
  <2>7. CASE \E x \in Sessions : NestedSend(x) \/ NestedDeinit(x)
    BY <2>1, <2>7, RefusedRequests DEF NestedDeinit, Deinit
  <2>8. CASE Chip \/ Recover
    BY <2>8, ChipOnlyRemoves
  <2> QED
    BY <2>2, <2>3, <2>4, <2>5, <2>6, <2>7, <2>8 DEF Next, MainStep
<1> QED
  BY <1>1, RequestsInvariant, PTL DEF Spec, WritesOnlyToQuietChip

\* Once a call has returned, and until the next one, neither the receive
\* buffers nor the data of an RX handler change.
THEOREM NothingArrivesLate == Spec => NoLateDelivery
<1> DEFINE Same == /\ decoded' = decoded
                   /\ \A x \in Sessions :
                        Len(barrier'[x].rx) <= Len(barrier[x].rx)
           Rule == ~InCall /\ ~InCall' => Same
<1>1. Ownership /\ Requests /\ [Next]_vars => [Rule]_vars
  <2> SUFFICES ASSUME Ownership, Requests, Next, ~InCall, ~InCall' PROVE Same
    OBVIOUS
  <2>1. /\ isr = None
        /\ barrier \in [Sessions -> BarrierRecord]
        /\ \A x \in Sessions : Len(barrier[x].rx) \in Nat
    BY DEF Ownership, TypeOK, IsrEngaged, BarrierRecord
  <2>2. ASSUME UNCHANGED <<decoded, barrier>> PROVE Same
    BY <2>1, <2>2
  <2>3. ASSUME NEW x \in Sessions, decoded' = decoded,
               barrier' = [barrier EXCEPT ![x] = ClearedBarrier]
        PROVE  Same
    <3>1. Len(ClearedBarrier.rx) = 0
      BY DEF ClearedBarrier
    <3>2. ASSUME NEW y \in Sessions
          PROVE  barrier'[y] = barrier[y] \/ barrier'[y] = ClearedBarrier
      BY <2>1, <2>3
    <3> QED
      BY <2>1, <2>3, <3>1, <3>2
  <2>4. CASE \E x \in Sessions : ApiCall(x)
    <3>1. PICK x \in Sessions : ApiCall(x)
      BY <2>4
    <3>2. CASE InitSession(x)
      BY <2>2, <2>3, <3>2 DEF InitSession
    <3>3. CASE DeinitSession(x)
      BY <2>2, <2>3, <3>3 DEF DeinitSession, Deinit
    <3>4. ASSUME NEW op \in ControlOps, NEW arg \in Nat, NEW h \in Handlers,
                 BeginControl(x, op, arg, h)
          PROVE  FALSE
      BY <3>4 DEF BeginControl, InCall
    <3> HIDE DEF Same
    <3> QED
      BY <2>2, <3>1, <3>2, <3>3, <3>4, ApiCallCases
         DEF RejectSubmit, BeginSubmit, RejectControl
  <2>5. CASE MainStep
    BY <2>2, <2>5
       DEF MainStep, Submit, WriteControl, PollSucceeds, TimeLimitPasses,
           Expire, InCall
  <2>6. CASE EnterIsr
    BY <2>2, <2>6 DEF EnterIsr
  <2>7. CASE Chip \/ Recover
    BY <2>2, <2>7 DEF Chip, Recover
  <2> QED
    BY <2>1, <2>4, <2>5, <2>6, <2>7
       DEF Next, IsrStep, IsrReadsFrame, IsrReadsIdle, IsrReadFails, NestedSend,
           NestedDeinit
<1> QED
  BY <1>1, RequestsInvariant, PTL DEF Spec, NoLateDelivery
=============================================================================
