------------------------------- MODULE Session -------------------------------
(***************************************************************************)
(* Lib/runtime/session.c: the sessions through which bare-metal code drives *)
(* the PAICORE chip.  One session at a time owns the NoC interrupt.  A      *)
(* blocking call (model reset, or a synchronisation) opens an RX barrier,   *)
(* writes one control frame and polls until the interrupt handler has       *)
(* drained the answer up to its COMPLETE frame, or until a timeout.         *)
(*                                                                          *)
(* The main program and the interrupt handler share one core: main takes no *)
(* step while the handler runs.  The chip runs beside both.                 *)
(***************************************************************************)
EXTENDS Noc

CONSTANTS
  Sessions,      \* the caller-allocated rvrt_session_t objects
  None,          \* the NULL session pointer
  RxCapacity,    \* entries of a session's rx_frames buffer
  PayloadLimit,  \* largest control payload (0xFFFFFF in the code)
  MaxTime,       \* bound: the chip is not driven past this timestep
  EmptyRead,     \* how a read of the empty uplink FIFO ends
  ClockRuns      \* whether wait_rx_barrier can see its time limit pass

(***************************************************************************)
(* noc_fifo_read_frame_words() reads the FIFO without asking whether it     *)
(* holds a frame.  "stall": the read ends when a frame arrives; "idle": it  *)
(* returns words that are no frame; "error": it reports failure, as the     *)
(* host tests' mock does.                                                   *)
(***************************************************************************)
ASSUME SessionAssumption ==
  /\ None \notin Sessions
  /\ RxCapacity \in Nat \ {0}
  /\ PayloadLimit \in Nat
  /\ MaxTime \in Nat
  /\ EmptyRead \in {"stall", "idle", "error"}
  /\ ClockRuns \in BOOLEAN

VARIABLES
  owner,          \* g_active_session
  session,        \* the members of each session outside its RX barrier
  barrier,        \* session->rx_barrier of each session
  decoded,        \* frames the caller's RX handler accepted (its user_data)
  pc,             \* where the main program is
  call,           \* the call it is in, with its arguments
  last,           \* the call that returned last, with its status
  irqWasEnabled,  \* local irq_was_enabled of load_config and send_frames
  isr,            \* the session the running handler serves, or None
  epochStart      \* history: the chip's time when the owner's epoch began

mainVars == <<session, pc, call, last, irqWasEnabled, epochStart>>
vars == <<nocVars, owner, barrier, decoded, mainVars, isr>>

Modes == {"UNSET", "RAW", "TIMELINE"}
Statuses == {"OK", "TIMEOUT", "OVERFLOW", "HARDWARE_ERROR", "RUNTIME_ERROR",
             "SYNC_MODE_ERROR", "FAULTED", "BUSY"}
ControlOps == {"reset", "payload", "until"}
SubmitOps == {"load", "send"}
Ops == ControlOps \union SubmitOps \union {"init", "deinit"}
Handlers == {"none", "discard", "decode"}
HandlerStatuses == {"OK", "RUNTIME_ERROR"}

SessionRecord ==
  [artifact : BOOLEAN,   \* is an artifact bound?
   mode : Modes,         \* sync_mode
   completed : Nat,      \* completed_timesteps
   faulted : BOOLEAN]

BarrierRecord ==
  [active : BOOLEAN, completed : BOOLEAN, overflow : BOOLEAN,
   hardwareError : BOOLEAN,
   rx : Seq(UpFrame),             \* rx_frames[0 .. rx_count - 1]
   handler : Handlers,            \* rx_frame_handler
   handlerStatus : HandlerStatuses]  \* rx_frame_handler_status

ClearedSession ==
  [artifact |-> FALSE, mode |-> "UNSET", completed |-> 0, faulted |-> FALSE]

ClearedBarrier ==
  [active |-> FALSE, completed |-> FALSE, overflow |-> FALSE,
   hardwareError |-> FALSE, rx |-> <<>>, handler |-> "none",
   handlerStatus |-> "OK"]

Init ==
  /\ NocInit
  /\ owner = None
  /\ session = [x \in Sessions |-> ClearedSession]
  /\ barrier = [x \in Sessions |-> ClearedBarrier]
  /\ decoded = <<>>
  /\ pc = "idle"
  /\ \E x \in Sessions :
       /\ call = [op |-> "reset", session |-> x, arg |-> 0, steps |-> 0,
                  handler |-> "none"]
       /\ last = [op |-> "deinit", session |-> x, status |-> "OK"]
  /\ irqWasEnabled = FALSE
  /\ isr = None
  /\ epochStart = 0

Idle == pc = "idle" /\ isr = None
Return(op, x, status) ==
  last' = [op |-> op, session |-> x, status |-> status]

(***************************************************************************)
(* Attaching and detaching.                                                *)
(***************************************************************************)

\* The members rvrt_session_init leaves in the session's storage.
InitKeepsOnFailure(registered) == [ClearedSession EXCEPT !.artifact = TRUE]
InitialisedSession(registered) == [ClearedSession EXCEPT !.artifact = registered]

\* rvrt_session_init.  The caller keeps the contract of session.h: the
\* platform has cleared what an earlier owner left in the NoC.  A successful
\* registration leaves the interrupt enabled, with no barrier active.
InitSession(x) ==
  /\ Idle
  /\ IF owner # None
     THEN /\ Return("init", x, "BUSY")
          /\ UNCHANGED <<owner, session, barrier, irqEnabled, epochStart>>
     ELSE /\ Quiet
          /\ barrier' = [barrier EXCEPT ![x] = ClearedBarrier]
          /\ \E registered \in BOOLEAN :
               /\ irqEnabled' = registered
               /\ epochStart' = IF registered THEN chip.time ELSE epochStart
               /\ owner' = IF registered THEN x ELSE None
               /\ session' =
                    [session EXCEPT ![x] = InitialisedSession(registered)]
               /\ Return("init", x, IF registered THEN "OK"
                                                  ELSE "RUNTIME_ERROR")
  /\ UNCHANGED <<down, up, irqPending, chip, answer, decoded, pc, call,
                 irqWasEnabled, isr>>

DeinitStatus(x) ==
  IF owner \notin {None, x} \/ (owner = x /\ barrier[x].active)
  THEN "BUSY" ELSE "OK"

\* rvrt_session_deinit, from the main program or from inside an RX handler.
Deinit(x) ==
  /\ IF DeinitStatus(x) = "OK"
     THEN /\ irqEnabled' = FALSE
          /\ AckIrq
          /\ owner' = IF owner = x THEN None ELSE owner
          /\ session' = [session EXCEPT ![x] = ClearedSession]
          /\ barrier' = [barrier EXCEPT ![x] = ClearedBarrier]
     ELSE UNCHANGED <<irqEnabled, irqPending, owner, session, barrier>>
  /\ Return("deinit", x, DeinitStatus(x))
  /\ UNCHANGED <<down, up, chip, answer, decoded, pc, call, irqWasEnabled,
                 isr, epochStart>>

DeinitSession(x) == Idle /\ Deinit(x)

(***************************************************************************)
(* Submitting frames that are not answered: load_config and send_frames.   *)
(***************************************************************************)

SubmitStatusWithoutFault(x) ==
  IF ~session[x].artifact \/ barrier[x].active THEN "RUNTIME_ERROR" ELSE "OK"
SubmitStatus(x) ==
  IF ~session[x].artifact THEN "RUNTIME_ERROR"
  ELSE IF session[x].faulted THEN "FAULTED"
  ELSE IF barrier[x].active THEN "RUNTIME_ERROR"
  ELSE "OK"

RejectSubmit(op, x) ==
  /\ Idle
  /\ SubmitStatus(x) # "OK"
  /\ Return(op, x, SubmitStatus(x))
  /\ UNCHANGED <<nocVars, owner, session, barrier, decoded, pc, call,
                 irqWasEnabled, isr, epochStart>>

\* irq_was_enabled is read before the interrupt is disabled.  n = 0 stands
\* for no frame at all: an empty send, or a first configuration frame that the
\* artifact cannot deliver.
BeginSubmit(op, x, n) ==
  /\ Idle
  /\ SubmitStatus(x) = "OK"
  /\ pc' = "submit"
  /\ call' = [op |-> op, session |-> x, arg |-> n, steps |-> 0,
              handler |-> "none"]
  /\ irqWasEnabled' = irqEnabled
  /\ UNCHANGED <<nocVars, owner, session, barrier, decoded, last, isr,
                 epochStart>>

\* All frames are written with the interrupt disabled.  load_config fails
\* where the artifact cannot deliver the next frame.
Submit ==
  /\ pc = "submit"
  /\ isr = None
  /\ IF call.arg = 0 THEN UNCHANGED down ELSE WriteFrame(DataFrame)
  /\ irqEnabled' = irqWasEnabled
  /\ pc' = "idle"
  /\ \E status \in {"OK", "RUNTIME_ERROR"} :
       /\ call.op = "send" => status = "OK"
       /\ call.op = "load" /\ call.arg = 0 => status # "OK"
       /\ Return(call.op, call.session, status)
  /\ UNCHANGED <<up, irqPending, chip, answer, owner, session, barrier,
                 decoded, call, irqWasEnabled, isr, epochStart>>

(***************************************************************************)
(* Control barriers: reset_model, sync_wait_payload and sync_wait_until.   *)
(***************************************************************************)

\* The count of timesteps a control frame makes the chip execute.
Steps(x, op, arg) ==
  CASE op = "reset" -> 0
    [] op = "until" /\ session[x].mode = "TIMELINE" -> arg - session[x].completed
    [] OTHER -> arg

WrongModeAllowsPast(x, op, arg) ==
  \/ op = "payload" /\ session[x].mode = "TIMELINE"
  \/ op = "until" /\ session[x].mode = "RAW"
WrongMode(x, op, arg) ==
  \/ op = "payload" /\ session[x].mode = "TIMELINE"
  \/ op = "until" /\ session[x].mode = "RAW"
  \/ /\ op = "until"
     /\ session[x].mode = "TIMELINE"
     /\ arg <= session[x].completed

\* The order of the first two checks differs between the three functions; a
\* session in a cleared storage is neither faulted nor in a mode.
ControlStatus(x, op, arg) ==
  IF session[x].faulted THEN "FAULTED"
  ELSE IF WrongMode(x, op, arg) THEN "SYNC_MODE_ERROR"
  ELSE IF \/ ~session[x].artifact
          \/ barrier[x].active
          \/ Steps(x, op, arg) > PayloadLimit
       THEN "RUNTIME_ERROR"
  ELSE "OK"

RejectControl(x, op, arg) ==
  /\ Idle
  /\ ControlStatus(x, op, arg) # "OK"
  /\ Return(op, x, ControlStatus(x, op, arg))
  /\ UNCHANGED <<nocVars, owner, session, barrier, decoded, pc, call,
                 irqWasEnabled, isr, epochStart>>

\* start_rx_barrier runs with the interrupt disabled from its first statement
\* to its last: the handler sees all of it or nothing.
StartBarrierWithoutAck(x, handler) ==
  /\ barrier' = [barrier EXCEPT ![x] =
                   [ClearedBarrier EXCEPT !.handler = handler, !.active = TRUE]]
  /\ irqEnabled' = TRUE
  /\ UNCHANGED irqPending
StartBarrierKeepsFrames(x, handler) ==
  /\ AckIrq
  /\ barrier' = [barrier EXCEPT ![x] =
                   [ClearedBarrier EXCEPT !.handler = handler, !.active = TRUE,
                                          !.rx = barrier[x].rx]]
  /\ irqEnabled' = TRUE
StartBarrier(x, handler) ==
  /\ AckIrq
  /\ barrier' = [barrier EXCEPT ![x] =
                   [ClearedBarrier EXCEPT !.handler = handler, !.active = TRUE]]
  /\ irqEnabled' = TRUE

BeginControl(x, op, arg, handler) ==
  /\ Idle
  /\ ControlStatus(x, op, arg) = "OK"
  /\ op # "reset" => chip.time + Steps(x, op, arg) <= MaxTime
  /\ StartBarrier(x, handler)
  /\ call' = [op |-> op, session |-> x, arg |-> arg,
              steps |-> Steps(x, op, arg), handler |-> handler]
  /\ decoded' = <<>>
  /\ pc' = "write"
  /\ UNCHANGED <<down, up, chip, answer, owner, session, last, irqWasEnabled,
                 isr, epochStart>>

ResetModel(x) == BeginControl(x, "reset", 0, "discard")
SyncWaitPayload(x, n) == BeginControl(x, "payload", n, "none")
SyncWaitUntil(x, t) == BeginControl(x, "until", t, "none")
SyncWaitUntilWithRxHandler(x, t) == BeginControl(x, "until", t, "decode")

\* The control frame is written only after the barrier is active.
WriteControl ==
  /\ pc = "write"
  /\ isr = None
  /\ WriteFrame([kind |-> IF call.op = "reset" THEN "init" ELSE "sync",
                 steps |-> call.steps])
  /\ pc' = "wait"
  /\ UNCHANGED <<up, irqPending, irqEnabled, chip, answer, owner, session,
                 barrier, decoded, call, last, irqWasEnabled, isr, epochStart>>

(***************************************************************************)
(* What the call leaves behind: the end of wait_rx_barrier, the failure    *)
(* path of run_control_barrier, and the epilogue of the API function.  The *)
(* interrupt is disabled throughout.                                       *)
(***************************************************************************)

BarrierStatusOfHandler(b) == b.handlerStatus
BarrierStatus(b) ==
  IF b.overflow THEN "OVERFLOW"
  ELSE IF b.hardwareError THEN "HARDWARE_ERROR"
  ELSE b.handlerStatus

\* The session after the call: a failure faults it; a reset starts a new
\* synchronisation epoch; a synchronisation fixes the mode of the epoch.
AfterSuccessInOldEpoch(s) ==
  CASE call.op = "reset"   -> [s EXCEPT !.mode = "UNSET"]
    [] call.op = "payload" -> [s EXCEPT !.mode = "RAW"]
    [] call.op = "until"   -> [s EXCEPT !.mode = "TIMELINE",
                                        !.completed = call.arg]
AfterSuccess(s) ==
  CASE call.op = "reset"   -> [s EXCEPT !.mode = "UNSET", !.completed = 0]
    [] call.op = "payload" -> [s EXCEPT !.mode = "RAW"]
    [] call.op = "until"   -> [s EXCEPT !.mode = "TIMELINE",
                                        !.completed = call.arg]
SessionSurvivesTimeout(s, status) ==
  CASE status = "OK"      -> AfterSuccess(s)
    [] status = "TIMEOUT" -> s
    [] OTHER              -> [s EXCEPT !.faulted = TRUE]
SessionAfter(s, status) ==
  IF status = "OK" THEN AfterSuccess(s) ELSE [s EXCEPT !.faulted = TRUE]

CloseBarrierOnSuccess(b, status) ==
  [b EXCEPT !.active = status # "OK", !.hardwareError = @ \/ status = "TIMEOUT"]
CloseBarrier(b, status) ==
  [b EXCEPT !.active = FALSE,
            !.hardwareError = @ \/ status = "TIMEOUT",
            !.handler = IF status = "OK" THEN @ ELSE "none"]

FinishLeavesReceiverOn(status) ==
  /\ session' = [session EXCEPT ![call.session] = SessionAfter(@, status)]
  /\ Return(call.op, call.session, status)
  /\ pc' = "idle"
  /\ epochStart' = IF call.op = "reset" /\ status = "OK" THEN 0 ELSE epochStart
  /\ UNCHANGED <<nocVars, owner, barrier, decoded, call, irqWasEnabled, isr>>
Finish(status) ==
  LET x == call.session
  IN  /\ irqEnabled' = FALSE
      /\ barrier' = [barrier EXCEPT ![x] = CloseBarrier(@, status)]
      /\ session' = [session EXCEPT ![x] = SessionAfter(@, status)]
      /\ Return(call.op, x, status)
      /\ pc' = "idle"
      /\ epochStart' = IF call.op = "reset" /\ status = "OK"
                       THEN 0 ELSE epochStart
      /\ UNCHANGED <<down, up, irqPending, chip, answer, owner, decoded, call,
                     irqWasEnabled, isr>>

\* The polling loop sees completed.
PollSucceeds ==
  /\ pc = "wait"
  /\ isr = None
  /\ barrier[call.session].completed
  /\ Finish(BarrierStatus(barrier[call.session]))

\* The loop reads completed as false, then the clock past its limit.  The
\* handler may still run before the interrupt is disabled.
TimeLimitPasses ==
  /\ ClockRuns
  /\ pc = "wait"
  /\ isr = None
  /\ ~barrier[call.session].completed
  /\ pc' = "expired"
  /\ UNCHANGED <<nocVars, owner, session, barrier, decoded, call, last,
                 irqWasEnabled, isr, epochStart>>

\* Disable the interrupt, read completed again, and only then give up.
RecheckNothing(b) == "TIMEOUT"
Recheck(b) == IF b.completed THEN BarrierStatus(b) ELSE "TIMEOUT"

Expire ==
  /\ pc = "expired"
  /\ isr = None
  /\ Finish(Recheck(barrier[call.session]))

(***************************************************************************)
(* The interrupt handler, paicore_noc_handler.                             *)
(***************************************************************************)

\* Acknowledge and disable; return at once unless a barrier wants frames.
EnterIsr ==
  /\ irqEnabled
  /\ irqPending
  /\ isr = None
  /\ AckIrq
  /\ irqEnabled' = FALSE
  /\ isr' = IF /\ owner # None
               /\ barrier[owner].active
               /\ ~barrier[owner].completed
            THEN owner ELSE None
  /\ UNCHANGED <<down, up, chip, answer, owner, barrier, decoded, mainVars>>

\* Does receive_rx_barrier_frame pass the frame to the RX handler?
Handled(b, frame) == b.handler # "none" /\ ~IsComplete(frame)

\* receive_rx_barrier_frame on barrier b, where status is what the RX handler
\* returns if it is called.  After its first failure it is not called again.
ReceivedOneShort(b, frame, status) ==
  IF Handled(b, frame)
  THEN [b EXCEPT !.handlerStatus = IF @ = "OK" THEN status ELSE @]
  ELSE IF b.handler = "none" /\ Len(b.rx) + 1 >= RxCapacity
  THEN [b EXCEPT !.overflow = TRUE, !.hardwareError = TRUE, !.completed = TRUE]
  ELSE [b EXCEPT !.rx = IF b.handler = "none" THEN Append(@, frame) ELSE @,
                 !.completed = IsComplete(frame)]
Received(b, frame, status) ==
  IF Handled(b, frame)
  THEN [b EXCEPT !.handlerStatus = IF @ = "OK" THEN status ELSE @]
  ELSE IF b.handler = "none" /\ Len(b.rx) >= RxCapacity
  THEN [b EXCEPT !.overflow = TRUE, !.hardwareError = TRUE, !.completed = TRUE]
  ELSE [b EXCEPT !.rx = IF b.handler = "none" THEN Append(@, frame) ELSE @,
                 !.completed = IsComplete(frame)]

\* The runner's handlers ignore what is no work frame and may refuse a work
\* frame; the handler of a model reset accepts everything.
HandlerResults(handler, frame) ==
  IF handler = "decode" /\ frame.kind = "work"
  THEN {"OK", "RUNTIME_ERROR"} ELSE {"OK"}

Receive(frame) ==
  LET b == barrier[isr]
  IN  \E status \in HandlerResults(b.handler, frame) :
        /\ barrier' = [barrier EXCEPT ![isr] = Received(b, frame, status)]
        /\ decoded' = IF /\ frame.kind = "work"
                         /\ b.handler = "decode"
                         /\ b.handlerStatus = "OK"
                         /\ status = "OK"
                      THEN Append(decoded, frame) ELSE decoded

\* The drain loop runs until completed.
LeaveOrLoop == isr' = IF barrier'[isr].completed THEN None ELSE isr

IsrReadsFrame ==
  /\ isr # None
  /\ up # <<>>
  /\ up' = Tail(up)
  /\ Receive(Head(up))
  /\ LeaveOrLoop
  /\ UNCHANGED <<down, irqPending, irqEnabled, chip, answer, owner, mainVars>>

IsrReadsIdle ==
  /\ isr # None
  /\ up = <<>>
  /\ EmptyRead = "idle"
  /\ Receive(IdleFrame)
  /\ LeaveOrLoop
  /\ UNCHANGED <<nocVars, owner, mainVars>>

IsrReadFailsAndRetries ==
  /\ isr # None
  /\ up = <<>>
  /\ EmptyRead = "error"
  /\ barrier' = [barrier EXCEPT ![isr].hardwareError = TRUE]
  /\ LeaveOrLoop
  /\ UNCHANGED <<nocVars, owner, decoded, mainVars>>
IsrReadFails ==
  /\ isr # None
  /\ up = <<>>
  /\ EmptyRead = "error"
  /\ barrier' = [barrier EXCEPT ![isr].hardwareError = TRUE,
                                ![isr].completed = TRUE]
  /\ LeaveOrLoop
  /\ UNCHANGED <<nocVars, owner, decoded, mainVars>>

\* An RX handler that breaks its contract and calls the session API.
NestedSend(x) ==
  /\ isr # None
  /\ barrier[isr].handler = "decode"
  /\ IF SubmitStatus(x) = "OK"
     THEN WriteFrame(DataFrame) ELSE UNCHANGED down
  /\ Return("send", x, SubmitStatus(x))
  /\ UNCHANGED <<up, irqPending, irqEnabled, chip, answer, owner, session,
                 barrier, decoded, pc, call, irqWasEnabled, isr, epochStart>>

NestedDeinit(x) ==
  /\ isr # None
  /\ barrier[isr].handler = "decode"
  /\ Deinit(x)

(***************************************************************************)
(* The specification.                                                      *)
(***************************************************************************)

\* The board recovers the chip while no healthy session is using it.
Recover ==
  /\ Idle
  /\ owner # None => session[owner].faulted
  /\ PlatformRecovers
  /\ UNCHANGED <<owner, barrier, decoded, mainVars, isr>>

Chip == ChipStep /\ UNCHANGED <<owner, barrier, decoded, mainVars, isr>>

ApiCall(x) ==
  \/ InitSession(x)
  \/ DeinitSession(x)
  \/ \E op \in SubmitOps : 
       RejectSubmit(op, x) \/ \E n \in {0, 1} : BeginSubmit(op, x, n)
  \/ ResetModel(x)
  \/ RejectControl(x, "reset", 0)
  \/ \E n \in 0..PayloadLimit + 1 :
       SyncWaitPayload(x, n) \/ RejectControl(x, "payload", n)
  \/ \E t \in 0..MaxTime :
       \/ SyncWaitUntil(x, t)
       \/ SyncWaitUntilWithRxHandler(x, t)
       \/ RejectControl(x, "until", t)

MainStep ==
  Submit \/ WriteControl \/ PollSucceeds \/ TimeLimitPasses \/ Expire

IsrStep == EnterIsr \/ IsrReadsFrame \/ IsrReadsIdle \/ IsrReadFails

Next ==
  \/ \E x \in Sessions : ApiCall(x)
  \/ MainStep
  \/ IsrStep
  \/ \E x \in Sessions : NestedSend(x) \/ NestedDeinit(x)
  \/ Chip
  \/ Recover

Spec == Init /\ [][Next]_vars

\* The core keeps executing: a program that is inside a call goes on, and an
\* enabled pending interrupt is taken.  Nothing obliges a caller to call.
CoreFairness ==
  /\ WF_vars(Submit)
  /\ WF_vars(WriteControl)
  /\ WF_vars(PollSucceeds)
  /\ WF_vars(TimeLimitPasses)
  /\ WF_vars(Expire)
  /\ WF_vars(EnterIsr)
  /\ WF_vars(IsrReadsFrame)
  /\ WF_vars(IsrReadsIdle)
  /\ WF_vars(IsrReadFails)

\* The core runs; the chip may stop at any time.
CoreSpec == Spec /\ CoreFairness

\* The chip too answers whatever it was asked.
LiveSpec == CoreSpec /\ WF_vars(Chip)
=============================================================================
