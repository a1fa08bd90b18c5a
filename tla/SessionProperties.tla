------------------------- MODULE SessionProperties -------------------------
(***************************************************************************)
(* What Lib/runtime/session.c promises, over the specification Session.    *)
(***************************************************************************)
EXTENDS Session

InCall == pc \in {"write", "wait", "expired"}

\* The owner, if there is one and no barrier of it has failed.
Healthy == owner # None /\ ~session[owner].faulted

(***************************************************************************)
(* Invariants.                                                             *)
(***************************************************************************)

\* Every variable has its type: in particular no control frame carries a
\* negative step count (an underflow of the uint32_t delta in
\* sync_wait_until_impl), and the receive buffer never exceeds rx_capacity.
TypeOK ==
  /\ NocTypeOK
  /\ owner \in Sessions \union {None}
  /\ session \in [Sessions -> SessionRecord]
  /\ barrier \in [Sessions -> BarrierRecord]
  /\ \A x \in Sessions : Len(barrier[x].rx) <= RxCapacity
  /\ decoded \in Seq(UpFrame)
  /\ pc \in {"idle", "submit", "write", "wait", "expired"}
  /\ call \in [op : ControlOps \union SubmitOps, session : Sessions,
               arg : Nat, steps : Nat, handler : Handlers]
  /\ last \in [op : Ops, session : Sessions, status : Statuses]
  /\ irqWasEnabled \in BOOLEAN
  /\ isr \in Sessions \union {None}
  /\ epochStart \in Nat

\* A session has an artifact bound exactly while it is g_active_session: two
\* sessions are never initialised at once, a failed registration and a deinit
\* leave none behind, and the handler never dispatches into cleared storage.
SoleOwner == \A x \in Sessions : session[x].artifact <=> owner = x

\* The handler drains frames only on behalf of the call the main program is
\* blocked in, and an RX barrier is active exactly for the length of that
\* call: neither the caller's buffer nor its handler's user_data (a local of
\* run_sample) is reachable from the interrupt once the call has returned.
HandlerServesCaller ==
  /\ isr # None => InCall /\ isr = call.session
  /\ \A x \in Sessions :
       barrier[x].active <=> InCall /\ x = call.session /\ x = owner

\* TIMEOUT is returned only if the handler had not completed the barrier when
\* the interrupt was disabled: wait_rx_barrier reads completed once more.
HonestTimeout ==
  last.status = "TIMEOUT" => ~barrier[last.session].completed

\* Between calls, a session that is not faulted has left nothing behind: the
\* chip has executed every control frame and all of its answer was consumed.
\* So the next COMPLETE frame the handler reads answers the next control
\* frame, although COMPLETE carries no identification.
HealthyIsQuiet == Healthy /\ ~InCall => Quiet

\* session->completed_timesteps is how far the chip has really gone since the
\* epoch began, whatever resets, rejected targets and mode changes came
\* before; in raw-payload mode the session makes no such claim.
TimelineAgrees ==
  Healthy /\ ~InCall /\ session[owner].mode # "RAW"
    => session[owner].completed = chip.time - epochStart

\* rx is frames in their order, with idle words in between.
Interspersed(rx, frames) ==
  \E at \in [1..Len(frames) -> 1..Len(rx)] :
    /\ \A i, j \in 1..Len(frames) : i < j => at[i] < at[j]
    /\ \A i \in 1..Len(frames) : rx[at[i]] = frames[i]
    /\ \A k \in 1..Len(rx) :
         rx[k].kind = "idle" \/ \E i \in 1..Len(frames) : at[i] = k

\* A synchronisation that returns OK has delivered the whole answer of its
\* control frame in order: in the receive buffer up to and including COMPLETE,
\* or, frame by frame without COMPLETE, to the RX handler.
AnswerDelivered ==
  Idle /\ last.op \in {"payload", "until"} /\ last.status = "OK" =>
    IF call.handler = "decode"
    THEN decoded = SubSeq(answer, 1, Len(answer) - 1)
    ELSE Interspersed(barrier[last.session].rx, answer)

\* OVERFLOW is reported only for an answer that does not fit rx_frames.
OverflowIsReal ==
  last.status = "OVERFLOW" /\ EmptyRead # "idle" => Len(answer) > RxCapacity

(***************************************************************************)
(* Action properties.                                                      *)
(***************************************************************************)

\* A frame is written to the NoC only by main, for a session that is not
\* faulted, and only while nothing that was asked before is outstanding: not
\* from an RX handler, and not between a control frame and its COMPLETE.
WritesOnlyToQuietChip ==
  [][Len(down') > Len(down) => Healthy /\ isr = None /\ Quiet]_vars

\* While no control call is in progress, no frame reaches a receive buffer or
\* the data of an RX handler: rx_frames stays as it was returned until the
\* caller's next call, even if the chip answers late.
NoLateDelivery ==
  [][~InCall /\ ~InCall' =>
       /\ decoded' = decoded
       /\ \A x \in Sessions : Len(barrier'[x].rx) <= Len(barrier[x].rx)]_vars

(***************************************************************************)
(* The sessions implement the service of SyncService: frames, interrupts    *)
(* and the split of a call into start, write, poll and recheck are steps    *)
(* that its clients cannot see.                                            *)
(***************************************************************************)

ServerState ==
  IF pc = "write" \/ ControlWaiting THEN "asked"
  ELSE IF chip.busy THEN "working"
  ELSE IF InCall \/ \E i \in 1..Len(up) : IsComplete(up[i]) THEN "answered"
  ELSE "free"

Service == INSTANCE SyncService WITH
  Clients <- Sessions,
  Nobody  <- None,
  lease   <- owner,
  broken  <- owner # None /\ session[owner].faulted,
  waiting <- InCall,
  server  <- ServerState,
  request <- [reset |-> ServerState = "asked" /\ call.op = "reset",
              steps |-> IF ServerState = "asked" THEN call.steps ELSE 0],
  time    <- chip.time,
  base    <- epochStart,
  claim   <- IF owner = None \/ session[owner].mode = "RAW"
             THEN -1 ELSE session[owner].completed

\* Every behaviour of the sessions, the handler and the chip is one of the
\* service: a call returns OK only when the chip has executed the request of
\* this very call once, to the end, and then what the session says about the
\* timesteps executed is true.
ImplementsService == Service!ServiceSpec

(***************************************************************************)
(* Liveness.                                                               *)
(***************************************************************************)

\* session.h: timeout_ms is the "Maximum wall-clock wait": once the control
\* frame is written the call returns, whatever the chip does.
WaitReturns == pc \in {"wait", "expired"} ~> pc = "idle"

\* With no time limit at all, a chip that answers still gets every call to
\* return: no interrupt is lost between clearing the barrier, writing the
\* control frame and polling.
EveryCallAnswered == pc # "idle" ~> pc = "idle"
=============================================================================
