--------------------------- MODULE ServiceProofs ---------------------------
(***************************************************************************)
(* Proofs about what Lib/runtime/session.c tells its callers: how far the   *)
(* chip has gone, and that the sessions implement the service SyncService. *)
(***************************************************************************)
EXTENDS SessionProofs

USE SessionAssumption, NocAssumption

(***************************************************************************)
(* The inductive invariant, third part: what the chip was asked, and the   *)
(* time it has reached.                                                    *)
(***************************************************************************)

\* The request of the latest call has not been begun.
Requested == pc = "write" \/ ControlWaiting

\* The control frame that run_control_barrier writes for the latest call.
Request == [kind |-> IF call.op = "reset" THEN "init" ELSE "sync",
            steps |-> call.steps]

\* A control frame in the FIFO, even one left by a call that timed out, is
\* that of the latest call.
RequestIsTheCalls ==
  \A i \in 1..Len(down) : IsControl(down[i]) => down[i] = Request

\* Mode and step count of a call in progress are still what the checks of the
\* API function found.
Planned ==
  InCall => /\ ~WrongMode(owner, call.op, call.arg)
            /\ call.steps = Steps(owner, call.op, call.arg)

UnsetIsZero ==
  \A x \in Sessions : session[x].mode = "UNSET" => session[x].completed = 0

\* completed_timesteps is true until the chip begins the next request ...
CountHolds ==
  Healthy /\ (InCall => Requested) /\ session[owner].mode # "RAW"
    => session[owner].completed = chip.time - epochStart

\* ... and from then on the chip is where the call will say it is.
Executed ==
  InCall /\ ~Requested =>
    /\ call.op = "reset" => chip.time = 0
    /\ call.op = "until" => chip.time = epochStart + call.arg

Timeline ==
  RequestIsTheCalls /\ Planned /\ UnsetIsZero /\ CountHolds /\ Executed

Sound == Ownership /\ Requests /\ Timeline

(***************************************************************************)
(* The control frame in the downlink FIFO.                                 *)
(***************************************************************************)

LEMMA NothingWaits == Quiet => \A i \in 1..Len(down) : ~IsControl(down[i])
  BY DEF Quiet, ControlWaiting

\* A data frame that the chip takes hides no control frame.
LEMMA DataLeaves ==
  ASSUME Ownership, ChipTakesData
  PROVE  /\ ControlWaiting' <=> ControlWaiting
         /\ \A i \in 1..Len(down') :
              down'[i] = down[i + 1] /\ i + 1 \in 1..Len(down)
<1>1. down # <<>> /\ ~IsControl(Head(down)) /\ down' = Tail(down)
  BY DEF ChipTakesData
<1>2. /\ Len(down) \in Nat /\ Len(down) >= 1
      /\ Head(down) = down[1]
      /\ Len(down') = Len(down) - 1
      /\ \A i \in 1..Len(down') : down'[i] = down[i + 1]
  BY <1>1, RequestTyped, TailFacts
<1>3. \A i \in 1..Len(down') : i + 1 \in 1..Len(down)
  BY <1>2
<1>4. \A i \in 1..Len(down) : i = 1 \/ i - 1 \in 1..Len(down')
  BY <1>2
<1>5. ASSUME NEW i \in 1..Len(down), IsControl(down[i])
      PROVE  \E j \in 1..Len(down') : IsControl(down'[j])
  <2>1. i # 1
    BY <1>1, <1>2, <1>5
  <2>2. i - 1 \in 1..Len(down') /\ (i - 1) + 1 = i
    BY <1>2, <1>4, <2>1
  <2>3. down'[i - 1] = down[i]
    BY <1>2, <2>2
  <2> QED
    BY <1>5, <2>2, <2>3
<1>6. ASSUME NEW j \in 1..Len(down'), IsControl(down'[j])
      PROVE  \E i \in 1..Len(down) : IsControl(down[i])
  BY <1>2, <1>3, <1>6
<1> QED
  BY <1>2, <1>3, <1>5, <1>6 DEF ControlWaiting

\* The chip begins a request: it was the one frame in the FIFO.
LEMMA RequestLeaves ==
  ASSUME Ownership, Requests, ChipStarts
  PROVE  /\ down' = <<>> /\ up = <<>>
         /\ ControlWaiting /\ ~ControlWaiting'
         /\ pc # "write" /\ Requested
         /\ 1 \in 1..Len(down) /\ Head(down) = down[1] /\ IsControl(down[1])
<1>1. down # <<>> /\ IsControl(Head(down)) /\ down' = Tail(down)
  BY DEF ChipStarts
<1>2. 1 \in 1..Len(down) /\ Head(down) = down[1] /\ IsControl(down[1])
  BY <1>1, RequestTyped, TailFacts
<1>3. Len(down) = 1 /\ up = <<>>
  BY <1>2 DEF Requests, OneRequest
<1>4. down' = <<>>
  BY <1>1, <1>3, RequestTyped, TailFacts
<1>5. ControlWaiting /\ ~ControlWaiting'
  BY <1>2, <1>4 DEF ControlWaiting
<1>6. pc # "write"
  BY <1>5 DEF Requests, NotYetAsked, Quiet
<1> QED
  BY <1>2, <1>3, <1>4, <1>5, <1>6 DEF Requested

\* The request is written to a FIFO that holds no other.
LEMMA RequestEnters ==
  ASSUME Ownership, Requests, WriteControl
  PROVE  /\ ControlWaiting'
         /\ \A i \in 1..Len(down') : IsControl(down'[i]) => down'[i] = Request
<1>1. pc = "write" /\ WriteFrame(Request)
  BY DEF WriteControl, Request
<1>2. Quiet
  BY <1>1 DEF Requests, NotYetAsked
<1>3. down' = Append(down, Request) /\ Request \in DownFrame
  BY <1>1 DEF WriteFrame, Request, Ownership, TypeOK, DownFrame
<1>4. /\ Len(down') = Len(down) + 1 /\ Len(down) \in Nat
      /\ down'[Len(down) + 1] = Request
      /\ \A i \in 1..Len(down) : down'[i] = down[i]
  BY <1>3, RequestTyped, AppendProperties
<1>5. ASSUME NEW i \in 1..Len(down'), IsControl(down'[i])
      PROVE  down'[i] = Request
  <2>1. i \notin 1..Len(down)
    BY <1>2, <1>4, <1>5, NothingWaits
  <2> QED
    BY <1>4, <2>1
<1>6. IsControl(down'[Len(down) + 1]) /\ Len(down) + 1 \in 1..Len(down')
  BY <1>4 DEF Request, IsControl
<1> QED
  BY <1>5, <1>6 DEF ControlWaiting

(***************************************************************************)
(* Timeline is inductive, given Ownership and Requests: one lemma per kind *)
(* of step.                                                                *)
(***************************************************************************)

\* What every control call in progress is about.
LEMMA CallFacts ==
  ASSUME Ownership
  PROVE  /\ call.session \in Sessions /\ call.arg \in Nat /\ call.steps \in Nat
         /\ chip.time \in Nat /\ epochStart \in Nat
         /\ \A x \in Sessions : session[x] \in SessionRecord
         /\ owner # None => owner \in Sessions
         /\ pc # "idle" => owner = call.session /\ Healthy
         /\ InCall => call.op \in ControlOps
  BY DEF Ownership, TypeOK, NocTypeOK, Engaged, InCall, Healthy

LEMMA QuietIsNotRequested ==
  ASSUME Ownership, Requests
  PROVE  /\ Healthy /\ ~InCall => Quiet
         /\ pc = "write" => Quiet
  BY DEF Requests, HealthyIsQuiet, NotYetAsked

LEMMA InitTimeline == Init => Timeline
<1> SUFFICES ASSUME Init PROVE Timeline
  OBVIOUS
<1>1. down = <<>> /\ pc = "idle" /\ owner = None
  BY DEF Init, NocInit
<1>2. UnsetIsZero
  BY DEF Init, UnsetIsZero, ClearedSession
<1> QED
  BY <1>1, <1>2
     DEF Timeline, RequestIsTheCalls, Planned, CountHolds, Executed, InCall,
         Healthy

\* A step that is neither main's nor a step of the chip.
LEMMA SameTimeline ==
  ASSUME Timeline, UNCHANGED <<down, chip, owner, session, pc, call, epochStart>>
  PROVE  Timeline'
<1>1. Request' = Request /\ (ControlWaiting' <=> ControlWaiting)
  BY DEF Request, ControlWaiting
<1>2. RequestIsTheCalls'
  BY <1>1 DEF Timeline, RequestIsTheCalls
<1>3. Planned' /\ UnsetIsZero'
  BY DEF Timeline, Planned, UnsetIsZero, InCall, WrongMode, Steps
<1>4. CountHolds' /\ Executed'
  BY <1>1 DEF Timeline, CountHolds, Executed, Healthy, InCall, Requested
<1> QED
  BY <1>2, <1>3, <1>4 DEF Timeline

LEMMA ChipTimeline ==
  ASSUME Sound, Chip PROVE Timeline'
<1>1. /\ ChipStep
      /\ UNCHANGED <<owner, session, pc, call, epochStart>>
  BY DEF Chip, mainVars
<1>2. Planned' /\ UnsetIsZero'
  BY <1>1 DEF Sound, Timeline, Planned, UnsetIsZero, InCall, WrongMode, Steps
<1>3. CASE ChipTakesData
  <2>1. chip' = chip
    BY <1>3 DEF ChipTakesData
  <2>2. RequestIsTheCalls'
    BY <1>1, <1>3, DataLeaves
       DEF Sound, Timeline, RequestIsTheCalls, Request
  <2>3. CountHolds' /\ Executed'
    BY <1>1, <1>3, <2>1, DataLeaves
       DEF Sound, Timeline, CountHolds, Executed, Healthy, InCall, Requested
  <2> QED
    BY <1>2, <2>2, <2>3 DEF Timeline
<1>4. CASE ChipStarts
  <2>1. /\ down' = <<>> /\ ~ControlWaiting' /\ ~Quiet
        /\ pc # "write" /\ Requested
        /\ 1 \in 1..Len(down) /\ Head(down) = down[1] /\ IsControl(down[1])
    BY <1>4, RequestLeaves DEF Sound, Quiet
  <2>2. RequestIsTheCalls'
    BY <2>1 DEF RequestIsTheCalls
  <2>3. ~InCall => ~Healthy
    BY <2>1, QuietIsNotRequested DEF Sound
  <2>4. CountHolds'
    BY <1>1, <2>1, <2>3 DEF CountHolds, Healthy, InCall, Requested
  <2>5. Executed'
    <3>1. SUFFICES ASSUME InCall
                   PROVE  /\ call.op = "reset" => chip'.time = 0
                          /\ call.op = "until" => chip'.time = epochStart + call.arg
      BY <1>1 DEF Executed, InCall
    <3>2. /\ Head(down) = Request
          /\ ~WrongMode(owner, call.op, call.arg)
          /\ call.steps = Steps(owner, call.op, call.arg)
      BY <2>1, <3>1 DEF Sound, Timeline, RequestIsTheCalls, Planned
    <3>3. chip'.time = IF call.op = "reset" THEN 0 ELSE chip.time + call.steps
      BY <1>4, <3>2 DEF ChipStarts, Request
    <3>4. ASSUME call.op = "until" PROVE chip'.time = epochStart + call.arg
      <4>1. /\ session[owner] \in SessionRecord /\ chip.time \in Nat
            /\ epochStart \in Nat /\ call.arg \in Nat /\ Healthy
            /\ owner \in Sessions
        BY <3>1, CallFacts DEF Sound, InCall
      <4>2. session[owner].mode \in {"UNSET", "TIMELINE"}
        BY <3>2, <3>4, <4>1 DEF WrongMode, SessionRecord, Modes
      <4>3. session[owner].completed = chip.time - epochStart
        BY <2>1, <4>1, <4>2 DEF Sound, Timeline, CountHolds
      <4>4. CASE session[owner].mode = "TIMELINE"
        <5>1. call.steps = call.arg - session[owner].completed
          BY <3>2, <3>4, <4>4 DEF Steps
        <5> QED
          BY <3>3, <3>4, <4>1, <4>3, <5>1
      <4>5. CASE session[owner].mode = "UNSET"
        <5>1. session[owner].completed = 0
          BY <4>1, <4>5 DEF Sound, Timeline, UnsetIsZero
        <5>2. call.steps = call.arg
          BY <3>2, <3>4, <4>5 DEF Steps
        <5> QED
          BY <3>3, <3>4, <4>1, <4>3, <5>1, <5>2
      <4> QED
        BY <4>2, <4>4, <4>5
    <3> QED
      BY <3>3, <3>4
  <2> QED
    BY <1>2, <2>2, <2>4, <2>5 DEF Timeline
<1>5. CASE ChipEmitsWork \/ ChipCompletes
  <2>1. down' = down /\ chip'.time = chip.time
    BY <1>5, RequestTyped DEF ChipEmitsWork, ChipCompletes, Sound
  <2>2. RequestIsTheCalls'
    BY <1>1, <2>1 DEF Sound, Timeline, RequestIsTheCalls, Request
  <2>3. CountHolds' /\ Executed'
    BY <1>1, <2>1
       DEF Sound, Timeline, CountHolds, Executed, Healthy, InCall, Requested,
           ControlWaiting
  <2> QED
    BY <1>2, <2>2, <2>3 DEF Timeline
<1> QED
  BY <1>1, <1>3, <1>4, <1>5 DEF ChipStep

LEMMA RecoverTimeline ==
  ASSUME Sound, Recover PROVE Timeline'
<1>1. /\ down' = <<>> /\ ~Healthy /\ pc = "idle"
      /\ UNCHANGED <<owner, session, pc, call>>
  BY DEF Recover, PlatformRecovers, Idle, mainVars, Healthy
<1> QED
  BY <1>1 DEF Sound, Timeline, RequestIsTheCalls, Planned, UnsetIsZero,
              CountHolds, Executed, Healthy, InCall

\* An epoch begins wherever the chip's time is.
LEMMA InitSessionTimeline ==
  ASSUME Sound, NEW x \in Sessions, InitSession(x) PROVE Timeline'
<1>1. CASE owner # None
  BY <1>1, SameTimeline DEF InitSession, Sound
<1>2. CASE owner = None
  <2>1. PICK registered \in BOOLEAN :
          /\ epochStart' = (IF registered THEN chip.time ELSE epochStart)
          /\ owner' = (IF registered THEN x ELSE None)
          /\ session' = [session EXCEPT ![x] = InitialisedSession(registered)]
    BY <1>2 DEF InitSession
  <2>2. pc = "idle" /\ UNCHANGED <<down, chip, pc, call>>
    BY <1>2 DEF InitSession, Idle
  <2>3. /\ InitialisedSession(registered).mode = "UNSET"
        /\ InitialisedSession(registered).completed = 0
    BY DEF InitialisedSession, ClearedSession
  <2>4. /\ session'[x] = InitialisedSession(registered)
        /\ \A y \in Sessions : y # x => session'[y] = session[y]
    BY <2>1 DEF Sound, Ownership, TypeOK
  <2>5. RequestIsTheCalls' /\ Planned' /\ Executed'
    BY <2>2 DEF Sound, Timeline, RequestIsTheCalls, Request, Planned, Executed,
                InCall
  <2>6. UnsetIsZero'
    BY <2>3, <2>4 DEF Sound, Timeline, UnsetIsZero
  <2>7. CountHolds'
    BY <2>1, <2>2, <2>3, <2>4, CallFacts DEF CountHolds, Healthy, Sound
  <2> QED
    BY <2>5, <2>6, <2>7 DEF Timeline
<1> QED
  BY <1>1, <1>2

\* What a deinit does: nothing, or it leaves no owner.
LEMMA DeinitCases ==
  ASSUME Ownership, NEW x \in Sessions, DeinitSession(x) \/ NestedDeinit(x)
  PROVE  /\ UNCHANGED <<down, up, chip, answer, decoded, pc, call, isr, epochStart>>
         /\ last' = [op |-> "deinit", session |-> x, status |-> DeinitStatus(x)]
         /\ \/ /\ DeinitStatus(x) = "BUSY"
               /\ UNCHANGED <<owner, session, barrier, irqEnabled, irqPending>>
            \/ /\ ~InCall /\ owner \in {None, x} /\ owner' = None
               /\ session' = [session EXCEPT ![x] = ClearedSession]
               /\ barrier' = [barrier EXCEPT ![x] = ClearedBarrier]
<1>1. Deinit(x)
  BY DEF DeinitSession, NestedDeinit
<1>2. CASE DeinitStatus(x) = "OK"
  <2>1. owner \in {None, x} /\ ~(owner = x /\ barrier[x].active)
    BY <1>2 DEF DeinitStatus
  <2>2. ~InCall
    BY <2>1 DEF Ownership, Engaged, InCall, TypeOK
  <2> QED
    BY <1>1, <1>2, <2>1, <2>2 DEF Deinit, Return
<1>3. CASE DeinitStatus(x) # "OK"
  BY <1>1, <1>3 DEF Deinit, Return, DeinitStatus
<1> QED
  BY <1>2, <1>3

LEMMA DeinitTimeline ==
  ASSUME Sound, NEW x \in Sessions, DeinitSession(x) \/ NestedDeinit(x)
  PROVE  Timeline'
<1>1. UNCHANGED <<down, chip, pc, call, epochStart>>
  BY DeinitCases DEF Sound
<1>2. CASE UNCHANGED <<owner, session>>
  BY <1>1, <1>2, SameTimeline DEF Sound
<1>3. CASE /\ ~InCall /\ owner' = None
           /\ session' = [session EXCEPT ![x] = ClearedSession]
  <2>1. UnsetIsZero'
    BY <1>3 DEF Sound, Timeline, UnsetIsZero, ClearedSession, Ownership, TypeOK
  <2>2. ~InCall' /\ ~Healthy'
    BY <1>1, <1>3 DEF InCall, Healthy
  <2> QED
    BY <1>1, <2>1, <2>2
       DEF Sound, Timeline, RequestIsTheCalls, Request, Planned, CountHolds,
           Executed
<1> QED
  BY <1>2, <1>3, DeinitCases DEF Sound

LEMMA BeginSubmitTimeline ==
  ASSUME Sound, NEW x \in Sessions, NEW op \in SubmitOps, NEW n \in {0, 1},
         BeginSubmit(op, x, n)
  PROVE  Timeline'
<1>1. /\ pc = "idle" /\ pc' = "submit"
      /\ UNCHANGED <<down, chip, owner, session, epochStart>>
  BY DEF BeginSubmit, Idle, nocVars
<1>2. session[x].artifact /\ ~session[x].faulted
  BY DEF BeginSubmit, SubmitStatus
<1>3. Healthy /\ ~InCall /\ ~InCall'
  BY <1>1, <1>2 DEF Sound, Ownership, Detached, ClearedSession, TypeOK, Healthy,
                    InCall
<1>4. RequestIsTheCalls'
  BY <1>1, <1>3, QuietIsNotRequested, NothingWaits DEF Sound, RequestIsTheCalls
<1> QED
  BY <1>1, <1>3, <1>4
     DEF Sound, Timeline, Planned, UnsetIsZero, CountHolds, Executed, Healthy

\* A frame that is no request: load_config and send_frames.
LEMMA SubmitTimeline ==
  ASSUME Sound, Submit PROVE Timeline'
<1>1. /\ pc = "submit" /\ pc' = "idle"
      /\ UNCHANGED <<chip, owner, session, call, epochStart>>
  BY DEF Submit
<1>2. Quiet' /\ ~InCall /\ ~InCall'
  <2>1. CASE call.arg = 0
    BY <1>1, <2>1, SubmitIsQuiet
       DEF Submit, Sound, Quiet, ControlWaiting, InCall
  <2>2. CASE call.arg # 0
    <3>1. DataFrame \in DownFrame /\ ~IsControl(DataFrame)
      BY DEF DataFrame, DownFrame, IsControl
    <3> QED
      BY <1>1, <2>2, <3>1, SubmitIsQuiet, WriteOneRequest
         DEF Submit, Sound, InCall
  <2> QED
    BY <2>1, <2>2
<1>3. RequestIsTheCalls'
  BY <1>2 DEF Quiet, ControlWaiting, RequestIsTheCalls
<1> QED
  BY <1>1, <1>2, <1>3
     DEF Sound, Timeline, Planned, UnsetIsZero, CountHolds, Executed, Healthy

\* The RX barrier that start_rx_barrier leaves.
Opened(handler) == [ClearedBarrier EXCEPT !.handler = handler, !.active = TRUE]

\* What the start of a control call finds and leaves.
LEMMA BeginControlFacts ==
  ASSUME Sound, NEW x \in Sessions, NEW op \in ControlOps, NEW arg \in Nat,
         NEW handler \in Handlers, BeginControl(x, op, arg, handler)
  PROVE  /\ pc = "idle" /\ isr = None /\ pc' = "write" /\ InCall' /\ ~InCall
         /\ owner = x /\ Healthy /\ Quiet
         /\ ~WrongMode(x, op, arg) /\ Steps(x, op, arg) \in Nat
         /\ call' = [op |-> op, session |-> x, arg |-> arg,
                     steps |-> Steps(x, op, arg), handler |-> handler]
         /\ decoded' = <<>> /\ ~irqPending'
         /\ barrier'[x] = Opened(handler)
         /\ UNCHANGED <<down, up, chip, answer, owner, session, last, isr,
                        epochStart>>
<1>1. /\ pc = "idle" /\ isr = None /\ pc' = "write"
      /\ ControlStatus(x, op, arg) = "OK"
      /\ AckIrq
      /\ call' = [op |-> op, session |-> x, arg |-> arg,
                  steps |-> Steps(x, op, arg), handler |-> handler]
      /\ decoded' = <<>>
      /\ UNCHANGED <<down, up, chip, answer, owner, session, last, isr,
                     epochStart>>
  BY DEF BeginControl, StartBarrier, Idle
<1>2. session[x].artifact /\ ~session[x].faulted /\ ~WrongMode(x, op, arg)
  BY <1>1 DEF ControlStatus
<1>3. owner = x /\ Healthy /\ ~InCall /\ InCall'
  BY <1>1, <1>2 DEF Sound, Ownership, Detached, ClearedSession, TypeOK, Healthy,
                    InCall
<1>4. Quiet
  BY <1>3, QuietIsNotRequested DEF Sound
<1>5. ~irqPending'
  BY <1>1, <1>4 DEF AckIrq, Quiet
<1>6. Steps(x, op, arg) \in Nat
  BY <1>1, StepsTyped DEF Sound
<1>7. barrier'[x] = Opened(handler)
  BY DEF BeginControl, StartBarrier, Opened, Sound, Ownership, TypeOK
<1> QED
  BY <1>1, <1>2, <1>3, <1>4, <1>5, <1>6, <1>7

LEMMA BeginControlTimeline ==
  ASSUME Sound, NEW x \in Sessions, NEW op \in ControlOps, NEW arg \in Nat,
         NEW handler \in Handlers, BeginControl(x, op, arg, handler)
  PROVE  Timeline'
<1>1. /\ pc' = "write" /\ InCall' /\ ~InCall
      /\ owner = x /\ Quiet /\ ~WrongMode(x, op, arg)
      /\ call' = [op |-> op, session |-> x, arg |-> arg,
                  steps |-> Steps(x, op, arg), handler |-> handler]
      /\ UNCHANGED <<down, chip, owner, session, epochStart>>
  BY BeginControlFacts
<1>2. RequestIsTheCalls'
  BY <1>1, NothingWaits DEF RequestIsTheCalls
<1>3. Planned'
  <2>1. /\ call'.op = op /\ call'.arg = arg /\ call'.steps = Steps(x, op, arg)
    BY <1>1
  <2>2. /\ WrongMode(x, op, arg)' <=> WrongMode(x, op, arg)
        /\ Steps(x, op, arg)' = Steps(x, op, arg)
    BY <1>1 DEF WrongMode, Steps
  <2> QED
    BY <1>1, <2>1, <2>2 DEF Planned, WrongMode, Steps
<1>4. UnsetIsZero'
  BY <1>1 DEF Sound, Timeline, UnsetIsZero
<1>5. CountHolds' /\ Executed'
  BY <1>1 DEF Sound, Timeline, CountHolds, Executed, Healthy, Requested
<1> QED
  BY <1>2, <1>3, <1>4, <1>5 DEF Timeline

LEMMA WriteControlTimeline ==
  ASSUME Sound, WriteControl PROVE Timeline'
<1>1. /\ pc = "write" /\ pc' = "wait"
      /\ UNCHANGED <<chip, owner, session, call, epochStart>>
  BY DEF WriteControl
<1>2. RequestIsTheCalls' /\ ControlWaiting'
  BY <1>1, RequestEnters DEF Sound, RequestIsTheCalls, Request
<1>3. Planned' /\ UnsetIsZero'
  BY <1>1 DEF Sound, Timeline, Planned, UnsetIsZero, InCall, WrongMode, Steps
<1>4. CountHolds' /\ Executed'
  BY <1>1, <1>2
     DEF Sound, Timeline, CountHolds, Executed, Healthy, InCall, Requested
<1> QED
  BY <1>2, <1>3, <1>4 DEF Timeline

LEMMA TimeLimitPassesTimeline ==
  ASSUME Sound, TimeLimitPasses PROVE Timeline'
<1>1. /\ pc = "wait" /\ pc' = "expired"
      /\ UNCHANGED <<down, chip, owner, session, call, epochStart>>
  BY DEF TimeLimitPasses, nocVars
<1> QED
  BY <1>1 DEF Sound, Timeline, RequestIsTheCalls, Request, Planned, UnsetIsZero,
              CountHolds, Executed, Healthy, InCall, WrongMode, Steps, Requested,
              ControlWaiting

\* What the return of a control call finds and leaves: it succeeds only when
\* the chip has executed its request and the handler has read all of the answer.
LEMMA FinishFacts ==
  ASSUME Sound, PollSucceeds \/ Expire
  PROVE  \E status \in Statuses :
           /\ InCall /\ ~InCall' /\ pc' = "idle" /\ pc # "write" /\ isr = None
           /\ owner = call.session /\ Healthy /\ owner \in Sessions
           /\ last' = [op |-> call.op, session |-> owner, status |-> status]
           /\ session' =
                [session EXCEPT ![owner] = SessionAfter(session[owner], status)]
           /\ session'[owner] = SessionAfter(session[owner], status)
           /\ epochStart' = (IF call.op = "reset" /\ status = "OK"
                             THEN 0 ELSE epochStart)
           /\ barrier'[owner] = CloseBarrier(barrier[owner], status)
           /\ status = (IF barrier[owner].completed
                        THEN BarrierStatus(barrier[owner]) ELSE "TIMEOUT")
           /\ status = "OK" =>
                /\ Quiet /\ ~Requested
                /\ barrier[owner].completed /\ ~barrier[owner].overflow
                /\ ~barrier[owner].hardwareError
                /\ barrier[owner].handlerStatus = "OK"
           /\ UNCHANGED <<down, up, irqPending, chip, answer, owner, decoded,
                          call, isr>>
<1> DEFINE b == barrier[owner]
           status == IF b.completed THEN BarrierStatus(b) ELSE "TIMEOUT"
<1>1. /\ InCall /\ pc # "write" /\ isr = None
      /\ owner = call.session /\ owner \in Sessions
      /\ b \in BarrierRecord /\ Healthy
  BY DEF PollSucceeds, Expire, InCall, Sound, Ownership, TypeOK, Engaged, Healthy
<1>2. status \in Statuses
  BY <1>1, StatusTyped DEF Recheck
<1>3. Finish(status)
  BY <1>1 DEF PollSucceeds, Expire, Recheck
<1>4. ASSUME status = "OK"
      PROVE  /\ Quiet /\ ~Requested /\ b.completed
             /\ ~b.overflow /\ ~b.hardwareError /\ b.handlerStatus = "OK"
  <2>1. /\ b.completed /\ ~b.overflow /\ ~b.hardwareError
        /\ b.handlerStatus = "OK"
    BY <1>4 DEF BarrierStatus
  <2>2. Quiet
    BY <1>1, <2>1 DEF Sound, Requests, Drained
  <2> QED
    BY <1>1, <2>1, <2>2 DEF Quiet, Requested
<1>5. status = (IF b.completed THEN BarrierStatus(b) ELSE "TIMEOUT")
  OBVIOUS
<1> HIDE DEF status
<1>6. /\ pc' = "idle"
      /\ last' = [op |-> call.op, session |-> owner, status |-> status]
      /\ session' = [session EXCEPT ![owner] = SessionAfter(session[owner], status)]
      /\ barrier' = [barrier EXCEPT ![owner] = CloseBarrier(barrier[owner], status)]
      /\ epochStart' = (IF call.op = "reset" /\ status = "OK"
                        THEN 0 ELSE epochStart)
      /\ UNCHANGED <<down, up, irqPending, chip, answer, owner, decoded, call, isr>>
  BY <1>1, <1>3 DEF Finish, Return
<1>7. /\ session'[owner] = SessionAfter(session[owner], status)
      /\ barrier'[owner] = CloseBarrier(barrier[owner], status)
  BY <1>1, <1>6 DEF Sound, Ownership, TypeOK
<1>8. ~InCall'
  BY <1>6 DEF InCall
<1> QED
  BY <1>1, <1>2, <1>4, <1>5, <1>6, <1>7, <1>8

\* The two outcomes of a control call, for the members of the session.
LEMMA OutcomeFacts ==
  ASSUME Sound, InCall
  PROVE  LET s == session[owner]
         IN  /\ call.op \in ControlOps /\ s \in SessionRecord /\ call.arg \in Nat
             /\ SessionAfter(s, "OK").faulted = s.faulted
             /\ call.op = "reset" => /\ SessionAfter(s, "OK").mode = "UNSET"
                                     /\ SessionAfter(s, "OK").completed = 0
             /\ call.op = "payload" => SessionAfter(s, "OK").mode = "RAW"
             /\ call.op = "until" =>
                  /\ SessionAfter(s, "OK").mode = "TIMELINE"
                  /\ SessionAfter(s, "OK").completed = call.arg
             /\ \A status \in Statuses \ {"OK"} :
                  /\ SessionAfter(s, status).faulted
                  /\ SessionAfter(s, status).mode = s.mode
                  /\ SessionAfter(s, status).completed = s.completed
<1>1. call.op \in ControlOps /\ session[owner] \in SessionRecord /\ call.arg \in Nat
  BY CallFacts DEF Sound, InCall
<1>2. CASE call.op = "reset"
  BY <1>1, <1>2 DEF SessionAfter, AfterSuccess, SessionRecord, Modes
<1>3. CASE call.op = "payload"
  BY <1>1, <1>3 DEF SessionAfter, AfterSuccess, SessionRecord, Modes
<1>4. CASE call.op = "until"
  BY <1>1, <1>4 DEF SessionAfter, AfterSuccess, SessionRecord, Modes
<1> QED
  BY <1>1, <1>2, <1>3, <1>4 DEF ControlOps

LEMMA FinishTimeline ==
  ASSUME Sound, PollSucceeds \/ Expire PROVE Timeline'
<1>1. PICK status \in Statuses :
        /\ InCall /\ ~InCall' /\ Healthy /\ owner \in Sessions
        /\ session' =
             [session EXCEPT ![owner] = SessionAfter(session[owner], status)]
        /\ session'[owner] = SessionAfter(session[owner], status)
        /\ epochStart' = (IF call.op = "reset" /\ status = "OK"
                          THEN 0 ELSE epochStart)
        /\ status = "OK" => ~Requested
        /\ UNCHANGED <<down, chip, owner, call>>
  BY FinishFacts
<1>2. RequestIsTheCalls' /\ Planned' /\ Executed'
  BY <1>1 DEF Sound, Timeline, RequestIsTheCalls, Request, Planned, Executed
<1>3. \A y \in Sessions : y # owner => session'[y] = session[y]
  BY <1>1 DEF Sound, Ownership, TypeOK
<1>4. CASE status = "OK"
  <2>1. UnsetIsZero'
    BY <1>1, <1>3, <1>4, OutcomeFacts
       DEF Sound, Timeline, UnsetIsZero, ControlOps
  <2>2. CountHolds'
    BY <1>1, <1>4, OutcomeFacts, CallFacts
       DEF Sound, Timeline, Executed, CountHolds, ControlOps
  <2> QED
    BY <1>2, <2>1, <2>2 DEF Timeline
<1>5. CASE status # "OK"
  <2>1. UnsetIsZero'
    BY <1>1, <1>3, <1>5, OutcomeFacts DEF Sound, Timeline, UnsetIsZero
  <2>2. ~Healthy'
    BY <1>1, <1>5, OutcomeFacts DEF Healthy
  <2> QED
    BY <1>2, <2>1, <2>2 DEF Timeline, CountHolds
<1> QED
  BY <1>4, <1>5

\* Rejected calls, refused sends from a handler, and every step of the handler.
LEMMA OtherTimeline ==
  ASSUME Sound, NEW x \in Sessions,
         \/ \E op \in SubmitOps : RejectSubmit(op, x)
         \/ \E op \in ControlOps, arg \in Nat : RejectControl(x, op, arg)
         \/ NestedSend(x)
         \/ IsrStep
  PROVE  Timeline'
<1>1. UNCHANGED <<down, chip, owner, session, pc, call, epochStart>>
  BY NestedSendRefused
     DEF RejectSubmit, RejectControl, NestedSend, IsrStep, EnterIsr,
         IsrReadsFrame, IsrReadsIdle, IsrReadFails, nocVars, mainVars, Sound
<1> QED
  BY <1>1, SameTimeline DEF Sound

LEMMA NextTimeline == Sound /\ [Next]_vars => Timeline'
<1> SUFFICES ASSUME Sound, [Next]_vars PROVE Timeline'
  OBVIOUS
<1>1. CASE UNCHANGED vars
  BY <1>1, SameTimeline DEF vars, nocVars, mainVars, Sound
<1>2. ASSUME NEW x \in Sessions, ApiCall(x) PROVE Timeline'
  BY <1>2, ApiCallCases, InitSessionTimeline, DeinitTimeline, OtherTimeline,
     BeginSubmitTimeline, BeginControlTimeline
<1>3. CASE MainStep
  BY <1>3, SubmitTimeline, WriteControlTimeline, FinishTimeline,
     TimeLimitPassesTimeline DEF MainStep
<1>4. CASE IsrStep
  <2>1. call.session \in Sessions
    BY CallFacts DEF Sound
  <2> QED
    BY <1>4, <2>1, OtherTimeline
<1>5. CASE \E x \in Sessions : NestedSend(x) \/ NestedDeinit(x)
  BY <1>5, OtherTimeline, DeinitTimeline
<1>6. CASE Chip \/ Recover
  BY <1>6, ChipTimeline, RecoverTimeline
<1> QED
  BY <1>1, <1>2, <1>3, <1>4, <1>5, <1>6 DEF Next

\* Requests are those of the calls, and the sessions count them right.
THEOREM SoundInvariant == Spec => []Sound
<1>1. Init => Sound
  BY InitOwnership, InitRequests, InitTimeline DEF Sound
<1>2. Sound /\ [Next]_vars => Sound'
  BY NextOwnership, NextRequests, NextTimeline DEF Sound
<1> QED
  BY <1>1, <1>2, PTL DEF Spec

\* completed_timesteps is how far the chip has gone since the epoch began,
\* after any sequence of calls, resets, failures and mode changes.
THEOREM CountsTimesteps == Spec => []TimelineAgrees
<1>1. Sound => TimelineAgrees
  BY DEF Sound, Timeline, CountHolds, TimelineAgrees
<1> QED
  BY <1>1, SoundInvariant, PTL

(***************************************************************************)
(* The refinement: every step of the sessions, the handler and the chip is *)
(* a step of SyncService or none that its clients can see.                 *)
(***************************************************************************)

\* What the clients of the service see of the sessions.
Broken == owner # None /\ session[owner].faulted
Outstanding == [reset |-> ServerState = "asked" /\ call.op = "reset",
                steps |-> IF ServerState = "asked" THEN call.steps ELSE 0]
Claim == IF owner = None \/ session[owner].mode = "RAW"
         THEN -1 ELSE session[owner].completed

\* Nothing is asked of the chip, now or after the step.
LEMMA NothingOutstanding ==
  /\ ServerState # "asked" => Outstanding = Service!NoRequest
  /\ ServerState' # "asked" => Outstanding' = Service!NoRequest
<1>1. ASSUME ServerState # "asked" PROVE Outstanding = Service!NoRequest
  <2>1. (ServerState = "asked" /\ call.op = "reset") = FALSE
    BY <1>1
  <2>2. (IF ServerState = "asked" THEN call.steps ELSE 0) = 0
    BY <1>1
  <2> QED
    BY <2>1, <2>2, Zenon DEF Outstanding, Service!NoRequest
<1>2. ASSUME ServerState' # "asked" PROVE Outstanding' = Service!NoRequest
  <2>1. (ServerState' = "asked" /\ call'.op = "reset") = FALSE
    BY <1>2
  <2>2. (IF ServerState' = "asked" THEN call'.steps ELSE 0) = 0
    BY <1>2
  <2> QED
    BY <2>1, <2>2, Zenon DEF Outstanding, Service!NoRequest
<1> QED
  BY <1>1, <1>2

\* What a step that leaves the owner and its session alone leaves unseen.
LEMMA SameSession ==
  ASSUME UNCHANGED <<owner, session>>
  PROVE  Broken' = Broken /\ Claim' = Claim
  BY DEF Broken, Claim

\* InCall is a truth value: SMT does not see it of a defined formula.
LEMMA SameCall == ASSUME InCall' <=> InCall PROVE InCall' = InCall
  BY Zenon

LEMMA SameRequest ==
  ASSUME UNCHANGED call, ServerState' = ServerState
  PROVE  Outstanding' = Outstanding
  BY Zenon DEF Outstanding

LEMMA InitRefines == Init => Service!ServiceInit
<1> SUFFICES ASSUME Init PROVE Service!ServiceInit
  OBVIOUS
<1>1. down = <<>> /\ up = <<>> /\ ~chip.busy /\ chip.time = 0 /\ pc = "idle"
  BY DEF Init, NocInit
<1>2. ~ControlWaiting /\ ~InCall
  BY <1>1 DEF ControlWaiting, InCall
<1>3. ServerState = "free"
  BY <1>1, <1>2 DEF ServerState, InCall
<1>4. Outstanding = Service!NoRequest
  BY <1>3, NothingOutstanding
<1>5. owner = None /\ epochStart = 0 /\ Claim = -1
  BY DEF Init, Claim
<1>6. (owner # None /\ session[owner].faulted) = FALSE
  BY <1>5, Zenon
<1>7. InCall = FALSE
  BY <1>1 DEF InCall
<1> QED
  BY <1>1, <1>3, <1>4, <1>5, <1>6, <1>7, Zenon
     DEF Service!ServiceInit, Service!Unknown, Outstanding, Claim

\* The service is free on a quiet chip outside a call.
LEMMA QuietIsFree ==
  ASSUME Quiet, ~InCall PROVE ServerState = "free"
<1>1. pc # "write"
  BY DEF InCall
<1> QED
  BY <1>1 DEF ServerState, Quiet

\* A step no client can see.
LEMMA Unseen ==
  ASSUME UNCHANGED <<owner, session, chip, epochStart>>, InCall' <=> InCall,
         ServerState' = ServerState,
         ServerState = "asked" => UNCHANGED call
  PROVE  UNCHANGED Service!serviceVars
<1>1. Outstanding' = Outstanding
  BY NothingOutstanding, SameRequest
<1>2. InCall' = InCall
  BY SameCall
<1>3. chip'.time = chip.time
  OBVIOUS
<1> QED
  BY <1>1, <1>2, <1>3, SameSession, Zenon
     DEF Service!serviceVars, Broken, Claim, Outstanding

LEMMA ChipRefines ==
  ASSUME Sound, Chip PROVE [Service!ServiceNext]_(Service!serviceVars)
<1> USE DEF Service!ServiceNext
<1>1. /\ ChipStep
      /\ UNCHANGED <<owner, session, pc, call, epochStart>>
      /\ InCall' <=> InCall
  BY DEF Chip, mainVars, InCall
<1>2. CASE ChipTakesData
  <2>1. UNCHANGED <<up, chip>> /\ (ControlWaiting' <=> ControlWaiting)
    BY <1>2, DataLeaves DEF ChipTakesData, Sound
  <2>2. ServerState' = ServerState
    BY <1>1, <2>1 DEF ServerState, InCall
  <2> QED
    BY <1>1, <2>1, <2>2, Unseen
<1>3. CASE ChipStarts
  <2>1. /\ ControlWaiting /\ ~ControlWaiting' /\ pc # "write"
        /\ 1 \in 1..Len(down) /\ Head(down) = down[1] /\ IsControl(down[1])
    BY <1>3, RequestLeaves DEF Sound
  <2>2. Head(down) = Request
    BY <2>1 DEF Sound, Timeline, RequestIsTheCalls
  <2>3. /\ chip'.busy
        /\ chip'.time = IF call.op = "reset" THEN 0 ELSE chip.time + call.steps
    BY <1>3, <2>2 DEF ChipStarts, Request
  <2>4. ServerState = "asked" /\ ServerState' = "working"
    BY <1>1, <2>1, <2>3 DEF ServerState
  <2>5. chip'.time = IF Outstanding.reset THEN 0 ELSE chip.time + Outstanding.steps
    BY <2>3, <2>4 DEF Outstanding
  <2>6. Outstanding' = Service!NoRequest /\ InCall' = InCall
    BY <1>1, <2>4, NothingOutstanding, SameCall
  <2>7. Service!Execute
    BY <1>1, <2>4, <2>5, <2>6, SameSession, Zenon
       DEF Service!Execute, Outstanding, Broken, Claim
  <2> QED
    BY <2>7
<1>4. CASE ChipEmitsWork
  <2>1. /\ chip.busy /\ chip'.busy /\ chip'.time = chip.time /\ down' = down
    BY <1>4, RequestTyped DEF ChipEmitsWork, Sound
  <2>2. ~ControlWaiting /\ pc # "write"
    BY <2>1 DEF Sound, Requests, OneRequest, NotYetAsked, Quiet, ControlWaiting
  <2>3. ServerState = "working" /\ ServerState' = "working"
    BY <1>1, <2>1, <2>2 DEF ServerState, ControlWaiting
  <2>4. Outstanding' = Outstanding /\ InCall' = InCall
    BY <1>1, <2>3, NothingOutstanding, SameCall
  <2>5. UNCHANGED Service!serviceVars
    BY <1>1, <2>1, <2>3, <2>4, SameSession, Zenon
       DEF Service!serviceVars, Outstanding, Broken, Claim
  <2> QED
    BY <2>5
<1>5. CASE ChipCompletes
  <2> DEFINE frame == [kind |-> "complete", seq |-> Len(answer) + 1]
  <2>1. /\ chip.busy /\ ~chip'.busy /\ chip'.time = chip.time /\ down' = down
        /\ up' = Append(up, frame)
    BY <1>5, RequestTyped DEF ChipCompletes, Emit, Sound
  <2>2. ~ControlWaiting /\ pc # "write"
    BY <2>1 DEF Sound, Requests, OneRequest, NotYetAsked, Quiet, ControlWaiting
  <2>3. frame \in UpFrame /\ IsComplete(frame)
    BY AnswerLength DEF Sound, Ownership, TypeOK, UpFrame, IsComplete
  <2>4. \E i \in 1..Len(up') : IsComplete(up'[i])
    <3>1. /\ Len(up') = Len(up) + 1 /\ Len(up) \in Nat
          /\ up'[Len(up) + 1] = frame
      BY <2>1, <2>3, RequestTyped, AppendProperties DEF Sound
    <3>2. Len(up) + 1 \in 1..Len(up')
      BY <3>1
    <3> QED
      BY <2>3, <3>1, <3>2
  <2>5. ServerState = "working" /\ ServerState' = "answered"
    BY <1>1, <2>1, <2>2, <2>4 DEF ServerState, ControlWaiting
  <2>6. Outstanding' = Outstanding /\ InCall' = InCall
    BY <1>1, <2>5, NothingOutstanding, SameCall
  <2>7. Service!Answer
    BY <1>1, <2>1, <2>5, <2>6, SameSession, Zenon
       DEF Service!Answer, Outstanding, Broken, Claim
  <2> QED
    BY <2>7
<1> QED
  BY <1>1, <1>2, <1>3, <1>4, <1>5 DEF ChipStep

LEMMA RecoverRefines ==
  ASSUME Sound, Recover PROVE Service!Recover
<1>1. /\ pc = "idle" /\ pc' = "idle"
      /\ down' = <<>> /\ up' = <<>> /\ ~chip'.busy
      /\ chip'.time \in {0, chip.time}
      /\ UNCHANGED <<owner, session, pc, call, epochStart>>
  BY DEF Recover, PlatformRecovers, Idle, mainVars
<1>2. ~ControlWaiting' /\ ~InCall /\ ~InCall'
  BY <1>1 DEF ControlWaiting, InCall
<1>3. ServerState' = "free"
  <2>1. pc' # "write" /\ ~ControlWaiting' /\ ~chip'.busy /\ up' = <<>>
    BY <1>1, <1>2
  <2> QED
    BY <1>2, <2>1 DEF ServerState
<1>4. Outstanding' = Service!NoRequest /\ InCall' = InCall
  BY <1>2, <1>3, NothingOutstanding, SameCall
<1>5. owner = None \/ Broken
  BY DEF Recover, Broken
<1> QED
  BY <1>1, <1>2, <1>3, <1>4, <1>5, SameSession, Zenon
     DEF Service!Recover, Outstanding, Broken, Claim

LEMMA InitSessionRefines ==
  ASSUME Sound, NEW x \in Sessions, InitSession(x)
  PROVE  Service!Attach(x) \/ UNCHANGED Service!serviceVars
<1>1. CASE owner # None
  <2>1. UNCHANGED <<down, up, chip, owner, session, pc, call, epochStart>>
    BY <1>1 DEF InitSession
  <2>2. (InCall' <=> InCall) /\ ServerState' = ServerState
    BY <2>1 DEF ServerState, InCall, ControlWaiting
  <2> QED
    BY <2>1, <2>2, Unseen
<1>2. CASE owner = None
  <2>1. PICK registered \in BOOLEAN :
          /\ epochStart' = (IF registered THEN chip.time ELSE epochStart)
          /\ owner' = (IF registered THEN x ELSE None)
          /\ session' = [session EXCEPT ![x] = InitialisedSession(registered)]
    BY <1>2 DEF InitSession
  <2>2. /\ pc = "idle" /\ Quiet
        /\ UNCHANGED <<down, up, chip, pc, call>>
    BY <1>2 DEF InitSession, Idle
  <2>3. /\ ~InCall /\ ~InCall'
        /\ ServerState' = ServerState /\ ServerState = "free"
    BY <2>2, QuietIsFree DEF InCall, ServerState, ControlWaiting
  <2>4. session'[x] = InitialisedSession(registered)
    BY <2>1 DEF Sound, Ownership, TypeOK
  <2>5. /\ InitialisedSession(registered).mode = "UNSET"
        /\ InitialisedSession(registered).completed = 0
        /\ ~InitialisedSession(registered).faulted
    BY DEF InitialisedSession, ClearedSession
  <2>6. Outstanding' = Outstanding /\ InCall' = InCall
    BY <2>2, <2>3, SameRequest, SameCall
  <2>7. CASE registered
    <3>1. owner' = x /\ x # None /\ epochStart' = chip.time /\ Claim' = 0
      BY <2>1, <2>4, <2>5, <2>7 DEF Claim
    <3>2. (owner' # None /\ session'[owner'].faulted) = FALSE
      BY <2>4, <2>5, <3>1, Zenon
    <3> QED
      BY <1>2, <2>2, <2>3, <2>6, <3>1, <3>2, Zenon
         DEF Service!Attach, Outstanding, Claim
  <2>8. CASE ~registered
    <3>1. owner' = owner /\ epochStart' = epochStart /\ Claim' = Claim
      BY <1>2, <2>1, <2>8 DEF Claim
    <3>2. Broken' = Broken
      BY <1>2, <3>1, Zenon DEF Broken
    <3>3. UNCHANGED Service!serviceVars
      BY <2>2, <2>3, <2>6, <3>1, <3>2, Zenon
         DEF Service!serviceVars, Outstanding, Broken, Claim
    <3> QED
      BY <3>3
  <2> QED
    BY <2>1, <2>7, <2>8
<1> QED
  BY <1>1, <1>2

LEMMA DeinitRefines ==
  ASSUME Sound, NEW x \in Sessions, DeinitSession(x) \/ NestedDeinit(x)
  PROVE  Service!Detach \/ UNCHANGED Service!serviceVars
<1>1. /\ UNCHANGED <<down, up, chip, pc, call, epochStart>>
      /\ (InCall' <=> InCall) /\ ServerState' = ServerState
  BY DeinitCases DEF Sound, ServerState, InCall, ControlWaiting
<1>2. CASE UNCHANGED <<owner, session>>
  BY <1>1, <1>2, Unseen
<1>3. CASE ~InCall /\ owner' = None
  <2>1. CASE owner = None
    BY <1>1, <1>3, <2>1 DEF Service!serviceVars
  <2>2. CASE owner # None
    BY <1>1, <1>3, <2>2 DEF Service!Detach, Service!Unknown
  <2> QED
    BY <2>1, <2>2
<1> QED
  BY <1>2, <1>3, DeinitCases DEF Sound

LEMMA BeginSubmitRefines ==
  ASSUME Sound, NEW x \in Sessions, NEW op \in SubmitOps, NEW n \in {0, 1},
         BeginSubmit(op, x, n)
  PROVE  UNCHANGED Service!serviceVars
<1>1. /\ pc = "idle" /\ pc' = "submit"
      /\ UNCHANGED <<down, up, chip, owner, session, epochStart>>
  BY DEF BeginSubmit, Idle, nocVars
<1>2. session[x].artifact /\ ~session[x].faulted
  BY DEF BeginSubmit, SubmitStatus
<1>3. Healthy /\ ~InCall /\ ~InCall'
  BY <1>1, <1>2 DEF Sound, Ownership, Detached, ClearedSession, TypeOK, Healthy,
                    InCall
<1>4. ServerState = "free" /\ ServerState' = ServerState
  BY <1>1, <1>3, QuietIsNotRequested, QuietIsFree
     DEF Sound, ServerState, ControlWaiting, InCall
<1> QED
  BY <1>1, <1>3, <1>4, Unseen

LEMMA SubmitRefines ==
  ASSUME Sound, Submit PROVE UNCHANGED Service!serviceVars
<1>1. /\ pc = "submit" /\ pc' = "idle"
      /\ UNCHANGED <<up, chip, owner, session, call, epochStart>>
  BY DEF Submit
<1>2. Quiet /\ Quiet' /\ ~InCall /\ ~InCall'
  <2>1. CASE call.arg = 0
    BY <1>1, <2>1, SubmitIsQuiet
       DEF Submit, Sound, Quiet, ControlWaiting, InCall
  <2>2. CASE call.arg # 0
    <3>1. DataFrame \in DownFrame /\ ~IsControl(DataFrame)
      BY DEF DataFrame, DownFrame, IsControl
    <3> QED
      BY <1>1, <2>2, <3>1, SubmitIsQuiet, WriteOneRequest
         DEF Submit, Sound, InCall
  <2> QED
    BY <2>1, <2>2
<1>3. ServerState = "free" /\ ServerState' = "free"
  <2>1. pc' # "write" /\ ~ControlWaiting' /\ ~chip'.busy /\ up' = <<>>
    BY <1>1, <1>2 DEF Quiet
  <2> QED
    BY <1>2, <2>1, QuietIsFree DEF ServerState
<1> QED
  BY <1>1, <1>2, <1>3, Unseen

LEMMA BeginControlRefines ==
  ASSUME Sound, NEW x \in Sessions, NEW op \in ControlOps, NEW arg \in Nat,
         NEW handler \in Handlers, BeginControl(x, op, arg, handler)
  PROVE  Service!Ask
<1>1. /\ pc' = "write" /\ InCall' /\ ~InCall
      /\ owner = x /\ Healthy /\ Quiet /\ Steps(x, op, arg) \in Nat
      /\ call' = [op |-> op, session |-> x, arg |-> arg,
                  steps |-> Steps(x, op, arg), handler |-> handler]
      /\ UNCHANGED <<chip, owner, session, epochStart>>
  BY BeginControlFacts
<1>2. ServerState = "free" /\ ServerState' = "asked"
  BY <1>1, QuietIsFree DEF ServerState
<1>3. [reset |-> ServerState' = "asked" /\ call'.op = "reset",
       steps |-> IF ServerState' = "asked" THEN call'.steps ELSE 0]
        \in Service!Requests
  BY <1>1, <1>2 DEF Service!Requests
<1> QED
  BY <1>1, <1>2, <1>3 DEF Service!Ask, Healthy

LEMMA WriteControlRefines ==
  ASSUME Sound, WriteControl PROVE UNCHANGED Service!serviceVars
<1>1. /\ pc = "write" /\ pc' = "wait" /\ ControlWaiting'
      /\ UNCHANGED <<chip, owner, session, call, epochStart>>
  BY RequestEnters DEF WriteControl, Sound
<1>2. /\ ServerState = "asked" /\ ServerState' = "asked" /\ InCall /\ InCall'
  BY <1>1 DEF ServerState, InCall
<1> QED
  BY <1>1, <1>2, Unseen

LEMMA FinishRefines ==
  ASSUME Sound, PollSucceeds \/ Expire PROVE Service!Succeed \/ Service!Fail
<1>1. PICK status \in Statuses :
        /\ InCall /\ ~InCall' /\ pc' = "idle" /\ pc # "write" /\ Healthy
        /\ session'[owner] = SessionAfter(session[owner], status)
        /\ epochStart' = (IF call.op = "reset" /\ status = "OK"
                          THEN 0 ELSE epochStart)
        /\ status = "OK" => Quiet /\ ~Requested
        /\ UNCHANGED <<down, up, chip, owner, call>>
  BY FinishFacts
<1>2. (ControlWaiting' <=> ControlWaiting) /\ (Quiet' <=> Quiet)
  BY <1>1 DEF ControlWaiting, Quiet
<1>3. owner # None /\ ~session[owner].faulted
  BY <1>1 DEF Healthy
<1>4. CASE status = "OK"
  <2>1. ServerState = "answered" /\ ServerState' = "free"
    BY <1>1, <1>2, <1>4 DEF ServerState, Quiet
  <2>2. /\ call.op = "reset" => chip.time = 0
        /\ call.op = "until" => chip.time = epochStart + call.arg
    BY <1>1, <1>4 DEF Sound, Timeline, Executed
  <2>3. session'[owner].faulted = session[owner].faulted
    BY <1>1, <1>4, OutcomeFacts
  <2>4. chip.time \in Nat /\ epochStart \in Nat /\ call.arg \in Nat
        /\ call.op \in ControlOps
    BY <1>1, CallFacts DEF Sound
  <2>5. CASE call.op = "reset"
    <3>1. session'[owner].mode = "UNSET" /\ session'[owner].completed = 0
      BY <1>1, <1>4, <2>5, OutcomeFacts
    <3> QED
      BY <1>1, <1>3, <1>4, <2>1, <2>2, <2>3, <2>5, <3>1
         DEF Service!Succeed, Service!Unknown
  <2>6. CASE call.op = "payload"
    <3>1. session'[owner].mode = "RAW"
      BY <1>1, <1>4, <2>6, OutcomeFacts
    <3> QED
      BY <1>1, <1>3, <1>4, <2>1, <2>3, <2>6, <3>1
         DEF Service!Succeed, Service!Unknown
  <2>7. CASE call.op = "until"
    <3>1. /\ session'[owner].mode = "TIMELINE"
          /\ session'[owner].completed = chip.time - epochStart
      BY <1>1, <1>4, <2>2, <2>4, <2>7, OutcomeFacts
    <3> QED
      BY <1>1, <1>3, <1>4, <2>1, <2>3, <2>7, <3>1
         DEF Service!Succeed, Service!Unknown
  <2> QED
    BY <2>4, <2>5, <2>6, <2>7 DEF ControlOps
<1>5. CASE status # "OK"
  <2>1. /\ session'[owner].faulted
        /\ session'[owner].mode = session[owner].mode
        /\ session'[owner].completed = session[owner].completed
    BY <1>1, <1>5, OutcomeFacts
  <2>2. ServerState' \in IF ServerState = "answered"
                         THEN {"answered", "free"} ELSE {ServerState}
    BY <1>1, <1>2 DEF ServerState
  <2>3. ServerState' = "asked" <=> ServerState = "asked"
    BY <2>2
  <2> QED
    BY <1>1, <1>3, <1>5, <2>1, <2>2, <2>3 DEF Service!Fail
<1> QED
  BY <1>4, <1>5

\* The handler, a time limit that passes, and calls that are refused.
LEMMA OtherRefines ==
  ASSUME Sound, NEW x \in Sessions,
         \/ \E op \in SubmitOps : RejectSubmit(op, x)
         \/ \E op \in ControlOps, arg \in Nat : RejectControl(x, op, arg)
         \/ NestedSend(x)
         \/ TimeLimitPasses
         \/ IsrStep
  PROVE  UNCHANGED Service!serviceVars
<1>1. UNCHANGED <<down, chip, owner, session, call, epochStart>>
  BY NestedSendRefused
     DEF RejectSubmit, RejectControl, NestedSend, TimeLimitPasses, IsrStep,
         EnterIsr, IsrReadsFrame, IsrReadsIdle, IsrReadFails, nocVars, mainVars,
         Sound
<1>2. \/ UNCHANGED <<up, pc>>
      \/ InCall /\ InCall' /\ pc # "write" /\ pc' # "write"
  <2>1. CASE TimeLimitPasses
    BY <2>1 DEF TimeLimitPasses, InCall
  <2>2. CASE IsrReadsFrame
    BY <2>2 DEF IsrReadsFrame, mainVars, Sound, Ownership, IsrEngaged, Requests,
                NotYetAsked, InCall
  <2>3. CASE \/ \E op \in SubmitOps : RejectSubmit(op, x)
             \/ \E op \in ControlOps, arg \in Nat : RejectControl(x, op, arg)
             \/ NestedSend(x)
             \/ EnterIsr \/ IsrReadsIdle \/ IsrReadFails
    BY <2>3 DEF RejectSubmit, RejectControl, NestedSend, EnterIsr, IsrReadsIdle,
                IsrReadFails, nocVars, mainVars
  <2> QED
    BY <2>1, <2>2, <2>3 DEF IsrStep
<1>3. (InCall' <=> InCall) /\ ServerState' = ServerState
  BY <1>1, <1>2 DEF ServerState, InCall, ControlWaiting
<1> QED
  BY <1>1, <1>3, Unseen

LEMMA NextRefines ==
  Sound /\ [Next]_vars => [Service!ServiceNext]_(Service!serviceVars)
<1> SUFFICES ASSUME Sound, [Next]_vars
             PROVE  [Service!ServiceNext]_(Service!serviceVars)
  OBVIOUS
<1> USE DEF Service!ServiceNext
<1>1. CASE UNCHANGED vars
  <2>1. UNCHANGED <<down, up, chip, owner, session, pc, call, epochStart>>
    BY <1>1 DEF vars, nocVars, mainVars
  <2>2. (InCall' <=> InCall) /\ ServerState' = ServerState
    BY <2>1 DEF ServerState, InCall, ControlWaiting
  <2> QED
    BY <2>1, <2>2, Unseen
<1>2. ASSUME NEW x \in Sessions, ApiCall(x)
      PROVE  [Service!ServiceNext]_(Service!serviceVars)
  BY <1>2, ApiCallCases, InitSessionRefines, DeinitRefines, OtherRefines,
     BeginSubmitRefines, BeginControlRefines
<1>3. CASE MainStep
  <2>1. call.session \in Sessions
    BY CallFacts DEF Sound
  <2> QED
    BY <1>3, <2>1, SubmitRefines, WriteControlRefines, FinishRefines, OtherRefines
       DEF MainStep
<1>4. CASE IsrStep
  <2>1. call.session \in Sessions
    BY CallFacts DEF Sound
  <2> QED
    BY <1>4, <2>1, OtherRefines
<1>5. CASE \E x \in Sessions : NestedSend(x) \/ NestedDeinit(x)
  BY <1>5, OtherRefines, DeinitRefines
<1>6. CASE Chip \/ Recover
  BY <1>6, ChipRefines, RecoverRefines
<1> QED
  BY <1>1, <1>2, <1>3, <1>4, <1>5, <1>6 DEF Next

\* The sessions implement the service: a call succeeds only when the chip has
\* executed its own request, once and to the end.
THEOREM Refinement == Spec => ImplementsService
<1>1. Init => Service!ServiceInit
  BY InitRefines
<1>2. Sound /\ [Next]_vars => [Service!ServiceNext]_(Service!serviceVars)
  BY NextRefines
<1> QED
  BY <1>1, <1>2, SoundInvariant, PTL
     DEF Spec, ImplementsService, Service!ServiceSpec

(***************************************************************************)
(* The inductive invariant, fourth part: where the frames of the answer    *)
(* are.                                                                    *)
(***************************************************************************)

Own == barrier[owner]

\* How many frames of the answer the handler has read.
Taken == Len(answer) - Len(up)

\* The API function chose the handler: that of a model reset discards.
HandlerOfCall ==
  InCall =>
    /\ Own.handler = call.handler
    /\ call.handler = "discard" <=> call.op = "reset"

\* Nothing is answered before the chip begins the request.
Unanswered ==
  InCall /\ Requested =>
    /\ ~irqPending /\ isr = None /\ up = <<>> /\ decoded = <<>>
    /\ Own.rx = <<>> /\ Own.handlerStatus = "OK"
    /\ ~Own.completed /\ ~Own.overflow /\ ~Own.hardwareError

AnswerIsFrames == \A i \in 1..Len(answer) : answer[i].kind # "idle"

\* The uplink FIFO holds the rest of the answer.
RestInFifo ==
  /\ Taken >= 0
  /\ \A i \in 1..Len(up) : up[i] = answer[Taken + i]

\* What was read is in the receive buffer, with idle words in between ...
Buffered ==
  Own.handler = "none" /\ ~Own.overflow =>
    /\ Interspersed(Own.rx, SubSeq(answer, 1, Taken))
    /\ EmptyRead # "idle" => Len(Own.rx) = Taken

Overflowed ==
  Own.overflow =>
    /\ Own.completed
    /\ EmptyRead # "idle" => Len(answer) > RxCapacity

\* ... or, but for COMPLETE, was accepted by the RX handler.
Handed ==
  /\ Own.handler = "decode" /\ Own.handlerStatus = "OK" /\ ~Own.hardwareError
  => decoded = SubSeq(answer, 1, IF Own.completed THEN Taken - 1 ELSE Taken)

Reading ==
  InCall /\ ~Requested => RestInFifo /\ Buffered /\ Overflowed /\ Handed

\* After an overflow the chip is left alone, so its answer is still there.
OverflowKept ==
  last.status = "OVERFLOW" =>
    /\ owner = last.session /\ session[owner].faulted /\ ~ControlWaiting
    /\ EmptyRead # "idle" => Len(answer) > RxCapacity

\* What a synchronisation delivered stays until the next call.
DeliveryKept ==
  pc = "idle" /\ last.op \in {"payload", "until"} /\ last.status = "OK" =>
    /\ owner = last.session /\ ~session[owner].faulted
    /\ IF call.handler = "decode"
       THEN decoded = SubSeq(answer, 1, Len(answer) - 1)
       ELSE Interspersed(Own.rx, answer)

Answers ==
  /\ HandlerOfCall
  /\ Unanswered
  /\ AnswerIsFrames
  /\ Reading
  /\ OverflowKept
  /\ DeliveryKept

(***************************************************************************)
(* Sequences: what reading one more frame does.                            *)
(***************************************************************************)

LEMMA NothingInterspersed == Interspersed(<<>>, <<>>)
<1> DEFINE at == [i \in 1..0 |-> 0]
<1>1. Len(<<>>) = 0 /\ 1..0 = {}
  OBVIOUS
<1>2. at \in [1..Len(<<>>) -> 1..Len(<<>>)]
  BY <1>1
<1> QED
  BY <1>1, <1>2 DEF Interspersed

\* A frame that is read is put at the end of what was read before.
LEMMA InterspersedFrame ==
  ASSUME NEW S, NEW rx \in Seq(S), NEW frames \in Seq(S), NEW f \in S,
         Interspersed(rx, frames)
  PROVE  Interspersed(Append(rx, f), Append(frames, f))
<1> DEFINE m == Len(frames)
           n == Len(rx)
           rxNext == Append(rx, f)
           framesNext == Append(frames, f)
<1>1. PICK at \in [1..m -> 1..n] :
        /\ \A i, j \in 1..m : i < j => at[i] < at[j]
        /\ \A i \in 1..m : rx[at[i]] = frames[i]
        /\ \A k \in 1..n : rx[k].kind = "idle" \/ \E i \in 1..m : at[i] = k
  BY DEF Interspersed
<1>2. /\ Len(rxNext) = n + 1 /\ Len(framesNext) = m + 1
      /\ rxNext[n + 1] = f /\ framesNext[m + 1] = f
      /\ \A k \in 1..n : rxNext[k] = rx[k]
      /\ \A i \in 1..m : framesNext[i] = frames[i]
      /\ m \in Nat /\ n \in Nat
  BY AppendProperties
<1> HIDE DEF m, n, rxNext, framesNext
<1> DEFINE new == [i \in 1..m + 1 |-> IF i = m + 1 THEN n + 1 ELSE at[i]]
<1>3. /\ new[m + 1] = n + 1
      /\ \A i \in 1..m : new[i] = at[i] /\ new[i] \in 1..n
  BY <1>2
<1>4. new \in [1..m + 1 -> 1..n + 1]
  BY <1>2
<1> HIDE DEF new
<1>5. \A i, j \in 1..m + 1 : i < j => new[i] < new[j]
  <2> SUFFICES ASSUME NEW i \in 1..m + 1, NEW j \in 1..m + 1, i < j
               PROVE  new[i] < new[j]
    OBVIOUS
  <2>1. i \in 1..m
    BY <1>2
  <2>2. CASE j = m + 1
    BY <1>2, <1>3, <2>1, <2>2
  <2>3. CASE j # m + 1
    <3>1. j \in 1..m
      BY <1>2, <2>3
    <3> QED
      BY <1>1, <1>3, <2>1, <3>1
  <2> QED
    BY <2>2, <2>3
<1>6. \A i \in 1..m + 1 : rxNext[new[i]] = framesNext[i]
  <2> SUFFICES ASSUME NEW i \in 1..m + 1
               PROVE  rxNext[new[i]] = framesNext[i]
    OBVIOUS
  <2>1. CASE i = m + 1
    BY <1>2, <1>3, <2>1
  <2>2. CASE i \in 1..m
    BY <1>1, <1>2, <1>3, <2>2
  <2>3. i = m + 1 \/ i \in 1..m
    BY <1>2
  <2> QED
    BY <2>1, <2>2, <2>3
<1>7. \A k \in 1..n + 1 : \/ rxNext[k].kind = "idle"
                          \/ \E i \in 1..m + 1 : new[i] = k
  <2> SUFFICES ASSUME NEW k \in 1..n + 1
               PROVE  \/ rxNext[k].kind = "idle"
                      \/ \E i \in 1..m + 1 : new[i] = k
    OBVIOUS
  <2>1. CASE k = n + 1
    <3>1. m + 1 \in 1..m + 1
      BY <1>2
    <3> QED
      BY <1>3, <2>1, <3>1
  <2>2. CASE k \in 1..n
    <3>1. \A i \in 1..m : i \in 1..m + 1
      BY <1>2
    <3> QED
      BY <1>1, <1>2, <1>3, <2>2, <3>1
  <2> QED
    BY <1>2, <2>1, <2>2
<1>8. Interspersed(rxNext, framesNext)
  <2>1. new \in [1..Len(framesNext) -> 1..Len(rxNext)]
    BY <1>2, <1>4
  <2>2. \A i, j \in 1..Len(framesNext) : i < j => new[i] < new[j]
    BY <1>2, <1>5
  <2>3. \A i \in 1..Len(framesNext) : rxNext[new[i]] = framesNext[i]
    BY <1>2, <1>6
  <2>4. \A k \in 1..Len(rxNext) : \/ rxNext[k].kind = "idle"
                                  \/ \E i \in 1..Len(framesNext) : new[i] = k
    BY <1>2, <1>7
  <2> QED
    BY <2>1, <2>2, <2>3, <2>4, Zenon DEF Interspersed
<1> QED
  BY <1>8 DEF rxNext, framesNext

\* So is an idle word, which is no frame of the answer.
LEMMA InterspersedIdle ==
  ASSUME NEW rx \in Seq(UpFrame), NEW frames, Len(frames) \in Nat,
         Interspersed(rx, frames)
  PROVE  Interspersed(Append(rx, IdleFrame), frames)
<1> DEFINE m == Len(frames)
           n == Len(rx)
           rxNext == Append(rx, IdleFrame)
<1>1. PICK at \in [1..m -> 1..n] :
        /\ \A i, j \in 1..m : i < j => at[i] < at[j]
        /\ \A i \in 1..m : rx[at[i]] = frames[i]
        /\ \A k \in 1..n : rx[k].kind = "idle" \/ \E i \in 1..m : at[i] = k
  BY DEF Interspersed
<1>2. IdleFrame \in UpFrame /\ IdleFrame.kind = "idle"
  BY DEF IdleFrame, UpFrame
<1>3. /\ Len(rxNext) = n + 1 /\ n \in Nat
      /\ rxNext[n + 1] = IdleFrame
      /\ \A k \in 1..n : rxNext[k] = rx[k]
  BY <1>2, AppendProperties
<1> HIDE DEF m, n, rxNext
<1>4. at \in [1..m -> 1..n + 1]
  BY <1>3
<1>5. \A i \in 1..m : rxNext[at[i]] = frames[i]
  BY <1>1, <1>3
<1>6. \A k \in 1..n + 1 : \/ rxNext[k].kind = "idle"
                          \/ \E i \in 1..m : at[i] = k
  <2> SUFFICES ASSUME NEW k \in 1..n + 1
               PROVE  \/ rxNext[k].kind = "idle"
                      \/ \E i \in 1..m : at[i] = k
    OBVIOUS
  <2>1. k = n + 1 \/ k \in 1..n
    BY <1>3
  <2> QED
    BY <1>1, <1>2, <1>3, <2>1
<1>7. Interspersed(rxNext, frames)
  <2>1. at \in [1..Len(frames) -> 1..Len(rxNext)]
    BY <1>3, <1>4 DEF m
  <2>2. \A k \in 1..Len(rxNext) : \/ rxNext[k].kind = "idle"
                                  \/ \E i \in 1..Len(frames) : at[i] = k
    BY <1>3, <1>6 DEF m
  <2>3. /\ \A i, j \in 1..Len(frames) : i < j => at[i] < at[j]
        /\ \A i \in 1..Len(frames) : rxNext[at[i]] = frames[i]
    BY <1>1, <1>5 DEF m
  <2> QED
    BY <2>1, <2>2, <2>3, Zenon DEF Interspersed
<1> QED
  BY <1>7 DEF rxNext

\* What was read of an answer, when one more frame is read of it.
LEMMA ReadOneMore ==
  ASSUME NEW S, NEW s \in Seq(S), NEW n \in Nat, n + 1 <= Len(s)
  PROVE  /\ SubSeq(s, 1, n) \in Seq(S)
         /\ Len(SubSeq(s, 1, n)) = n
         /\ SubSeq(s, 1, n + 1) = Append(SubSeq(s, 1, n), s[n + 1])
<1>1. \A i \in 1..n : s[i] \in S
  BY ElementOfSeq
<1>2. /\ SubSeq(s, 1, n) \in Seq(S)
      /\ Len(SubSeq(s, 1, n)) = n
  BY <1>1, SubSeqProperties
<1>3. SubSeq(s, 1, n + 1) = SubSeq(s, 1, n) \o <<s[n + 1]>>
  <2>1. 1 \in 1..Len(s) /\ n + 1 \in 1..Len(s)
    OBVIOUS
  <2>2. SubSeq(s, 1, n + 1) = SubSeq(s, 1, (n + 1) - 1) \o <<s[n + 1]>>
    BY <2>1, SubSeqRecursiveSecond
  <2> QED
    BY <2>2
<1>4. Append(SubSeq(s, 1, n), s[n + 1]) = SubSeq(s, 1, n) \o <<s[n + 1]>>
  <2>1. s[n + 1] \in S
    BY ElementOfSeq
  <2> QED
    BY <1>2, <2>1, AppendIsConcat
<1> QED
  BY <1>2, <1>3, <1>4

\* What was read does not change when the chip emits another frame.
LEMMA EmitAfterRead ==
  ASSUME NEW S, NEW s \in Seq(S), NEW f \in S, NEW n \in Int, n <= Len(s)
  PROVE  SubSeq(Append(s, f), 1, n) = SubSeq(s, 1, n)
<1>1. CASE n < 1
  BY <1>1, SubSeqEmpty
<1>2. CASE n >= 1
  <2>1. Append(s, f) = s \o <<f>> /\ <<f>> \in Seq(S)
    BY AppendIsConcat
  <2>2. 1 \in 1..Len(s) /\ n \in 1..Len(s)
    BY <1>2
  <2> QED
    BY <2>1, <2>2, SubSeqOfConcat1
<1> QED
  BY <1>1, <1>2

(***************************************************************************)
(* Answers is inductive, given the parts before it.                        *)
(***************************************************************************)

Whole == Sound /\ Answers

LEMMA AnswerTyped ==
  ASSUME Ownership
  PROVE  /\ answer \in Seq(UpFrame) /\ up \in Seq(UpFrame)
         /\ decoded \in Seq(UpFrame)
         /\ Len(answer) \in Nat /\ Len(up) \in Nat /\ Taken \in Int
         /\ Taken <= Len(answer) /\ Len(answer) - Taken = Len(up)
<1>1. answer \in Seq(UpFrame) /\ up \in Seq(UpFrame) /\ decoded \in Seq(UpFrame)
  BY DEF Ownership, TypeOK, NocTypeOK
<1>2. Len(answer) \in Nat /\ Len(up) \in Nat
  BY <1>1
<1> QED
  BY <1>1, <1>2 DEF Taken

LEMMA InitAnswers == Init => Answers
<1> SUFFICES ASSUME Init PROVE Answers
  OBVIOUS
<1>1. pc = "idle" /\ answer = <<>> /\ last.status = "OK" /\ last.op = "deinit"
  BY DEF Init, NocInit
<1> QED
  BY <1>1 DEF Answers, HandlerOfCall, Unanswered, AnswerIsFrames, Reading,
              OverflowKept, DeliveryKept, InCall

\* A step that is about neither the call nor its answer.
LEMMA SameReading ==
  ASSUME Answers, ControlWaiting' <=> ControlWaiting,
         UNCHANGED <<up, irqPending, answer, owner, barrier, decoded, pc, call, isr>>
  PROVE  HandlerOfCall' /\ Unanswered' /\ AnswerIsFrames' /\ Reading'
<1>1. (InCall' <=> InCall) /\ (Requested' <=> Requested) /\ Own' = Own
  BY DEF InCall, Requested, Own
<1>2. HandlerOfCall' /\ Unanswered' /\ AnswerIsFrames'
  BY <1>1 DEF Answers, HandlerOfCall, Unanswered, AnswerIsFrames
<1>3. Reading'
  <2>1. /\ (RestInFifo' <=> RestInFifo) /\ (Buffered' <=> Buffered)
        /\ (Overflowed' <=> Overflowed) /\ (Handed' <=> Handed)
    BY <1>1 DEF RestInFifo, Buffered, Overflowed, Handed, Taken
  <2> QED
    BY <1>1, <2>1 DEF Answers, Reading
<1> QED
  BY <1>2, <1>3

\* A step that ends outside a control call, where nothing is read.
LEMMA OutOfCall ==
  ASSUME Answers, ~InCall', answer' = answer
  PROVE  HandlerOfCall' /\ Unanswered' /\ AnswerIsFrames' /\ Reading'
  BY DEF Answers, HandlerOfCall, Unanswered, AnswerIsFrames, Reading

\* The result of a call that is no finished synchronisation.
LEMMA OtherResult ==
  ASSUME last'.status # "OVERFLOW",
         last'.op \notin {"payload", "until"} \/ last'.status # "OK"
  PROVE  OverflowKept' /\ DeliveryKept'
  BY DEF OverflowKept, DeliveryKept

\* While the owner is sound the last result was no overflow of its own.
LEMMA SoundOwnerKeeps ==
  ASSUME Whole, Healthy, last' = last PROVE OverflowKept'
  BY DEF Whole, Answers, OverflowKept, Healthy

LEMMA StutterAnswers ==
  ASSUME Answers, UNCHANGED vars PROVE Answers'
<1>1. UNCHANGED <<down, up, irqPending, answer, owner, session, barrier, decoded,
                  pc, call, isr, last>>
  BY DEF vars, nocVars, mainVars
<1>2. ControlWaiting' <=> ControlWaiting
  BY <1>1 DEF ControlWaiting
<1>3. OverflowKept' /\ DeliveryKept'
  BY <1>1, <1>2 DEF Answers, OverflowKept, DeliveryKept, Own
<1> QED
  BY <1>1, <1>2, <1>3, SameReading DEF Answers

\* Calls that are refused or that change no answer.
LEMMA RefusedAnswers ==
  ASSUME Whole, NEW x \in Sessions,
         \/ \E op \in SubmitOps : RejectSubmit(op, x)
         \/ \E op \in ControlOps, arg \in Nat : RejectControl(x, op, arg)
         \/ NestedSend(x)
  PROVE  Answers'
<1>1. /\ UNCHANGED <<down, up, irqPending, answer, owner, session, barrier,
                     decoded, pc, call, isr>>
      /\ last'.status \notin {"OK", "OVERFLOW"}
  BY NestedSendRefused
     DEF RejectSubmit, RejectControl, NestedSend, nocVars, Return, SubmitStatus,
         ControlStatus, Whole, Sound
<1>2. ControlWaiting' <=> ControlWaiting
  BY <1>1 DEF ControlWaiting
<1> QED
  BY <1>1, <1>2, SameReading, OtherResult DEF Whole, Answers

LEMMA InitSessionAnswers ==
  ASSUME Whole, NEW x \in Sessions, InitSession(x) PROVE Answers'
<1>1. last'.op = "init" /\ last'.status # "OVERFLOW"
  BY DEF InitSession, Return
<1>2. ~InCall' /\ answer' = answer
  BY DEF InitSession, Idle, InCall
<1> QED
  BY <1>1, <1>2, OutOfCall, OtherResult DEF Whole, Answers

LEMMA DeinitAnswers ==
  ASSUME Whole, NEW x \in Sessions, DeinitSession(x) \/ NestedDeinit(x)
  PROVE  Answers'
<1>1. /\ UNCHANGED <<down, up, answer, decoded, pc, call, isr>>
      /\ last'.op = "deinit" /\ last'.status # "OVERFLOW"
  BY DeinitCases DEF Whole, Sound, DeinitStatus
<1>2. CASE UNCHANGED <<owner, session, barrier, irqPending>>
  <2>1. ControlWaiting' <=> ControlWaiting
    BY <1>1 DEF ControlWaiting
  <2> QED
    BY <1>1, <1>2, <2>1, SameReading, OtherResult DEF Whole, Answers
<1>3. CASE ~InCall
  <2>1. ~InCall'
    BY <1>1, <1>3 DEF InCall
  <2> QED
    BY <1>1, <2>1, OutOfCall, OtherResult DEF Whole, Answers
<1> QED
  BY <1>2, <1>3, DeinitCases DEF Whole, Sound

LEMMA SubmitAnswers ==
  ASSUME Whole,
         \/ Submit
         \/ \E x \in Sessions, op \in SubmitOps, n \in {0, 1} : BeginSubmit(op, x, n)
  PROVE  Answers'
<1>1. CASE Submit
  <2>1. /\ ~InCall' /\ answer' = answer
        /\ last'.op \notin {"payload", "until"} /\ last'.status # "OVERFLOW"
    BY <1>1 DEF Submit, InCall, Return, Whole, Sound, Ownership, Engaged, SubmitOps
  <2> QED
    BY <2>1, OutOfCall, OtherResult DEF Whole, Answers
<1>2. ASSUME NEW x \in Sessions, NEW op \in SubmitOps, NEW n \in {0, 1},
             BeginSubmit(op, x, n)
      PROVE  Answers'
  <2>1. /\ pc' = "submit" /\ ~InCall' /\ last' = last /\ answer' = answer
    BY <1>2 DEF BeginSubmit, nocVars, InCall
  <2>2. session[x].artifact /\ ~session[x].faulted
    BY <1>2 DEF BeginSubmit, SubmitStatus
  <2>3. Healthy
    BY <2>2 DEF Whole, Sound, Ownership, Detached, ClearedSession, TypeOK, Healthy
  <2>4. DeliveryKept'
    BY <2>1 DEF DeliveryKept
  <2> QED
    BY <2>1, <2>3, <2>4, OutOfCall, SoundOwnerKeeps DEF Whole, Answers
<1> QED
  BY <1>1, <1>2

LEMMA BeginControlAnswers ==
  ASSUME Whole, NEW x \in Sessions, NEW op \in ControlOps, NEW arg \in Nat,
         NEW handler \in Handlers, handler = "discard" <=> op = "reset",
         BeginControl(x, op, arg, handler)
  PROVE  Answers'
<1>1. /\ isr = None /\ isr' = None /\ pc' = "write" /\ InCall'
      /\ owner = x /\ owner' = x /\ Healthy /\ Quiet /\ up' = up
      /\ call' = [op |-> op, session |-> x, arg |-> arg,
                  steps |-> Steps(x, op, arg), handler |-> handler]
      /\ decoded' = <<>> /\ ~irqPending' /\ answer' = answer /\ last' = last
      /\ barrier'[x] = Opened(handler)
  BY BeginControlFacts DEF Whole
<1>2. /\ Own'.handler = handler /\ Own'.rx = <<>> /\ Own'.handlerStatus = "OK"
      /\ ~Own'.completed /\ ~Own'.overflow /\ ~Own'.hardwareError
  BY <1>1 DEF Own, Opened, ClearedBarrier
<1>3. HandlerOfCall'
  BY <1>1, <1>2 DEF HandlerOfCall
<1>4. Unanswered'
  BY <1>1, <1>2 DEF Unanswered, Quiet
<1>5. AnswerIsFrames' /\ Reading' /\ DeliveryKept'
  BY <1>1 DEF Whole, Answers, AnswerIsFrames, Reading, Requested, DeliveryKept
<1> QED
  BY <1>1, <1>3, <1>4, <1>5, SoundOwnerKeeps DEF Answers

LEMMA WriteControlAnswers ==
  ASSUME Whole, WriteControl PROVE Answers'
<1>1. /\ pc = "write" /\ pc' = "wait" /\ ControlWaiting'
      /\ UNCHANGED <<up, irqPending, answer, owner, session, barrier, decoded, call,
                     last, isr>>
  BY RequestEnters DEF WriteControl, Whole, Sound
<1>2. InCall /\ InCall' /\ Requested /\ Requested' /\ Own' = Own
  BY <1>1 DEF InCall, Requested, Own
<1>3. Healthy
  BY <1>1, CallFacts DEF Whole, Sound
<1>4. HandlerOfCall' /\ Unanswered' /\ AnswerIsFrames'
  BY <1>1, <1>2 DEF Whole, Answers, HandlerOfCall, Unanswered, AnswerIsFrames
<1>5. Reading' /\ DeliveryKept'
  BY <1>1, <1>2 DEF Reading, DeliveryKept
<1> QED
  BY <1>1, <1>3, <1>4, <1>5, SoundOwnerKeeps DEF Answers

LEMMA TimeLimitPassesAnswers ==
  ASSUME Whole, TimeLimitPasses PROVE Answers'
<1>1. /\ pc = "wait" /\ pc' = "expired"
      /\ UNCHANGED <<down, up, irqPending, answer, owner, session, barrier, decoded,
                     call, last, isr>>
  BY DEF TimeLimitPasses, nocVars
<1>2. InCall /\ InCall' /\ (Requested' <=> Requested) /\ Own' = Own
  BY <1>1 DEF InCall, Requested, ControlWaiting, Own
<1>3. Healthy
  BY <1>1, CallFacts DEF Whole, Sound
<1>4. HandlerOfCall' /\ Unanswered' /\ AnswerIsFrames'
  BY <1>1, <1>2 DEF Whole, Answers, HandlerOfCall, Unanswered, AnswerIsFrames
<1>5. Reading'
  <2>1. /\ (RestInFifo' <=> RestInFifo) /\ (Buffered' <=> Buffered)
        /\ (Overflowed' <=> Overflowed) /\ (Handed' <=> Handed)
    BY <1>1, <1>2 DEF RestInFifo, Buffered, Overflowed, Handed, Taken
  <2> QED
    BY <1>2, <2>1 DEF Whole, Answers, Reading
<1>6. DeliveryKept'
  BY <1>1 DEF DeliveryKept
<1> QED
  BY <1>1, <1>3, <1>4, <1>5, <1>6, SoundOwnerKeeps DEF Answers

LEMMA RecoverAnswers ==
  ASSUME Whole, Recover PROVE Answers'
<1>1. /\ pc = "idle" /\ down' = <<>> /\ answer' = answer
      /\ UNCHANGED <<owner, session, barrier, decoded, pc, call, last>>
  BY DEF Recover, PlatformRecovers, Idle, mainVars
<1>2. owner # None => session[owner].faulted
  BY DEF Recover
<1>3. ~InCall' /\ ~ControlWaiting'
  BY <1>1 DEF InCall, ControlWaiting
<1>4. OverflowKept'
  BY <1>1, <1>3 DEF Whole, Answers, OverflowKept
<1>5. last.session \in Sessions
  BY DEF Whole, Sound, Ownership, TypeOK
<1>6. DeliveryKept'
  BY <1>1, <1>2, <1>5 DEF Whole, Answers, DeliveryKept
<1> QED
  BY <1>1, <1>3, <1>4, <1>6, OutOfCall DEF Whole, Answers

\* Nothing can interrupt a call whose request was not begun.
LEMMA EnterIsrAnswers ==
  ASSUME Whole, EnterIsr PROVE Answers'
<1>1. /\ irqPending
      /\ UNCHANGED <<down, up, answer, owner, session, barrier, decoded, pc, call,
                     last>>
  BY DEF EnterIsr, mainVars
<1>2. /\ (InCall' <=> InCall) /\ (Requested' <=> Requested) /\ Own' = Own
      /\ (ControlWaiting' <=> ControlWaiting)
  BY <1>1 DEF InCall, Requested, ControlWaiting, Own
<1>3. HandlerOfCall' /\ AnswerIsFrames'
  BY <1>1, <1>2 DEF Whole, Answers, HandlerOfCall, AnswerIsFrames
<1>4. Unanswered'
  BY <1>1, <1>2 DEF Whole, Answers, Unanswered
<1>5. Reading'
  <2>1. /\ (RestInFifo' <=> RestInFifo) /\ (Buffered' <=> Buffered)
        /\ (Overflowed' <=> Overflowed) /\ (Handed' <=> Handed)
    BY <1>1, <1>2 DEF RestInFifo, Buffered, Overflowed, Handed, Taken
  <2> QED
    BY <1>2, <2>1 DEF Whole, Answers, Reading
<1>6. OverflowKept' /\ DeliveryKept'
  BY <1>1, <1>2 DEF Whole, Answers, OverflowKept, DeliveryKept
<1> QED
  BY <1>3, <1>4, <1>5, <1>6 DEF Answers

\* The chip begins the request of the call: nothing of its answer is read yet.
LEMMA ChipStartsAnswers ==
  ASSUME Whole, Chip, ChipStarts PROVE Answers'
<1>1. /\ down' = <<>> /\ up = <<>> /\ up' = <<>> /\ answer' = <<>>
      /\ ControlWaiting /\ ~ControlWaiting' /\ pc # "write" /\ Requested
      /\ UNCHANGED <<owner, session, barrier, decoded, pc, call, last, isr>>
  BY RequestLeaves DEF Whole, Sound, ChipStarts, Chip, mainVars
<1>2. (InCall' <=> InCall) /\ ~Requested' /\ Own' = Own
  BY <1>1 DEF InCall, Requested, Own
<1>3. HandlerOfCall' /\ Unanswered' /\ AnswerIsFrames'
  BY <1>1, <1>2 DEF Whole, Answers, HandlerOfCall, Unanswered, AnswerIsFrames
<1>4. Reading'
  <2> SUFFICES ASSUME InCall
               PROVE  RestInFifo' /\ Buffered' /\ Overflowed' /\ Handed'
    BY <1>2 DEF Reading
  <2>1. /\ decoded = <<>> /\ Own.rx = <<>>
        /\ ~Own.completed /\ ~Own.overflow /\ ~Own.hardwareError
    BY <1>1 DEF Whole, Answers, Unanswered
  <2>2. Taken' = 0 /\ SubSeq(<<>>, 1, 0) = <<>> /\ Len(<<>>) = 0
    BY <1>1, SubSeqEmpty DEF Taken
  <2>3. RestInFifo'
    BY <1>1, <2>2 DEF RestInFifo
  <2>4. Buffered'
    BY <1>1, <1>2, <2>1, <2>2, NothingInterspersed DEF Buffered
  <2>5. Overflowed' /\ Handed'
    BY <1>1, <1>2, <2>1, <2>2 DEF Overflowed, Handed
  <2> QED
    BY <2>3, <2>4, <2>5
<1>5. OverflowKept'
  BY <1>1 DEF Whole, Answers, OverflowKept
<1>6. DeliveryKept'
  <2>1. last.session \in Sessions
    BY DEF Whole, Sound, Ownership, TypeOK
  <2>2. pc = "idle" => ~Healthy
    BY <1>1, QuietIsNotRequested DEF Whole, Sound, Quiet, InCall
  <2> QED
    BY <1>1, <2>1, <2>2 DEF Whole, Answers, DeliveryKept, Healthy
<1> QED
  BY <1>3, <1>4, <1>5, <1>6 DEF Answers

\* The chip emits a frame: it comes last in the answer and in the FIFO.
LEMMA ChipEmitsAnswers ==
  ASSUME Whole, Chip, ChipEmitsWork \/ ChipCompletes PROVE Answers'
<1>1. PICK frame \in UpFrame :
        /\ frame.kind # "idle"
        /\ up' = Append(up, frame) /\ answer' = Append(answer, frame)
  <2>1. CASE ChipEmitsWork
    <3> DEFINE frame == [kind |-> "work", seq |-> Len(answer) + 1]
    <3>1. frame \in UpFrame
      BY AnswerTyped DEF UpFrame, Whole, Sound
    <3> QED
      BY <2>1, <3>1 DEF ChipEmitsWork, Emit
  <2>2. CASE ChipCompletes
    <3> DEFINE frame == [kind |-> "complete", seq |-> Len(answer) + 1]
    <3>1. frame \in UpFrame
      BY AnswerTyped DEF UpFrame, Whole, Sound
    <3> QED
      BY <2>2, <3>1 DEF ChipCompletes, Emit
  <2> QED
    BY <2>1, <2>2
<1>2. /\ chip.busy /\ down' = down
      /\ UNCHANGED <<owner, session, barrier, decoded, pc, call, last, isr>>
  BY DEF ChipEmitsWork, ChipCompletes, Chip, mainVars
<1>3. ~Quiet /\ ~ControlWaiting /\ pc # "write"
  BY <1>2 DEF Whole, Sound, Requests, OneRequest, NotYetAsked, Quiet, ControlWaiting
<1>4. /\ (InCall' <=> InCall) /\ ~Requested /\ ~Requested' /\ Own' = Own
      /\ ~ControlWaiting'
  BY <1>2, <1>3 DEF InCall, Requested, ControlWaiting, Own
<1>5. /\ answer \in Seq(UpFrame) /\ up \in Seq(UpFrame)
      /\ Len(answer) \in Nat /\ Len(up) \in Nat /\ Taken \in Int
      /\ Taken <= Len(answer) /\ Len(answer) - Taken = Len(up)
  BY AnswerTyped DEF Whole, Sound
<1>6. /\ Len(answer') = Len(answer) + 1 /\ Len(up') = Len(up) + 1
      /\ answer'[Len(answer) + 1] = frame /\ up'[Len(up) + 1] = frame
      /\ \A i \in 1..Len(answer) : answer'[i] = answer[i]
      /\ \A i \in 1..Len(up) : up'[i] = up[i]
  BY <1>1, <1>5, AppendProperties
<1>7. Taken' = Taken
  BY <1>5, <1>6 DEF Taken
<1>8. AnswerIsFrames'
  <2> SUFFICES ASSUME NEW i \in 1..Len(answer') PROVE answer'[i].kind # "idle"
    BY DEF AnswerIsFrames
  <2>1. i \in 1..Len(answer) \/ i = Len(answer) + 1
    BY <1>5, <1>6
  <2> QED
    BY <1>1, <1>6, <2>1 DEF Whole, Answers, AnswerIsFrames
<1>9. HandlerOfCall' /\ Unanswered'
  BY <1>2, <1>4 DEF Whole, Answers, HandlerOfCall, Unanswered
<1>10. Reading'
  <2> SUFFICES ASSUME InCall
               PROVE  RestInFifo' /\ Buffered' /\ Overflowed' /\ Handed'
    BY <1>4 DEF Reading
  <2>1. RestInFifo /\ Buffered /\ Overflowed /\ Handed
    BY <1>4 DEF Whole, Answers, Reading
  <2>2. RestInFifo'
    <3>1. ASSUME NEW i \in 1..Len(up') PROVE up'[i] = answer'[Taken + i]
      <4>1. CASE i \in 1..Len(up)
        <5>1. Taken + i \in 1..Len(answer)
          BY <1>5, <2>1, <4>1 DEF RestInFifo
        <5> QED
          BY <1>6, <2>1, <4>1, <5>1 DEF RestInFifo
      <4>2. CASE i = Len(up) + 1
        <5>1. Taken + i = Len(answer) + 1
          BY <1>5, <4>2
        <5> QED
          BY <1>6, <4>2, <5>1
      <4> QED
        BY <1>5, <1>6, <4>1, <4>2
    <3> QED
      BY <1>7, <2>1, <3>1 DEF RestInFifo
  <2>3. SubSeq(answer', 1, Taken) = SubSeq(answer, 1, Taken)
    BY <1>1, <1>5, EmitAfterRead
  <2>4. Buffered'
    BY <1>4, <1>7, <2>1, <2>3 DEF Buffered
  <2>5. Overflowed'
    BY <1>4, <1>5, <1>6, <2>1 DEF Overflowed
  <2>6. Handed'
    <3> DEFINE n == IF Own.completed THEN Taken - 1 ELSE Taken
    <3>1. n \in Int /\ n <= Len(answer)
      BY <1>5
    <3>2. SubSeq(answer', 1, n) = SubSeq(answer, 1, n)
      <4> HIDE DEF n
      <4> QED
        BY <1>1, <1>5, <3>1, EmitAfterRead
    <3> QED
      BY <1>2, <1>4, <1>7, <2>1, <3>2 DEF Handed
  <2> QED
    BY <2>2, <2>4, <2>5, <2>6
<1>11. OverflowKept'
  BY <1>2, <1>4, <1>5, <1>6 DEF Whole, Answers, OverflowKept
<1>12. DeliveryKept'
  <2>1. last.session \in Sessions
    BY DEF Whole, Sound, Ownership, TypeOK
  <2>2. pc = "idle" => ~Healthy
    BY <1>3, QuietIsNotRequested DEF Whole, Sound, InCall
  <2> QED
    BY <1>2, <2>1, <2>2 DEF Whole, Answers, DeliveryKept, Healthy
<1> QED
  BY <1>8, <1>9, <1>10, <1>11, <1>12 DEF Answers

LEMMA ChipAnswers ==
  ASSUME Whole, Chip PROVE Answers'
<1>1. CASE ChipTakesData
  <2>1. /\ ControlWaiting' <=> ControlWaiting
        /\ UNCHANGED <<up, irqPending, answer, owner, session, barrier, decoded,
                       pc, call, last, isr>>
    BY <1>1, DataLeaves DEF Whole, Sound, ChipTakesData, Chip, mainVars
  <2>2. OverflowKept' /\ DeliveryKept'
    BY <2>1 DEF Whole, Answers, OverflowKept, DeliveryKept, Own
  <2> QED
    BY <2>1, <2>2, SameReading DEF Whole, Answers
<1> QED
  BY <1>1, ChipStartsAnswers, ChipEmitsAnswers DEF Chip, ChipStep

(***************************************************************************)
(* The handler.                                                            *)
(***************************************************************************)

\* receive_rx_barrier_frame, member by member.
LEMMA ReceivedCases ==
  ASSUME NEW b \in BarrierRecord, NEW frame \in UpFrame,
         NEW status \in HandlerStatuses
  PROVE  LET r == Received(b, frame, status)
         IN  /\ r.handler = b.handler
             /\ \/ /\ b.handler # "none" /\ ~IsComplete(frame)
                   /\ r.completed = b.completed /\ r.overflow = b.overflow
                   /\ r.hardwareError = b.hardwareError
                   /\ r.handlerStatus = (IF b.handlerStatus = "OK"
                                         THEN status ELSE b.handlerStatus)
                \/ /\ b.handler = "none" /\ Len(b.rx) >= RxCapacity
                   /\ r.overflow /\ r.completed /\ r.hardwareError
                \/ /\ b.handler = "none" /\ ~(Len(b.rx) >= RxCapacity)
                   /\ r.rx = Append(b.rx, frame) /\ r.overflow = b.overflow
                \/ /\ b.handler # "none" /\ IsComplete(frame)
                   /\ r.completed /\ r.overflow = b.overflow
                   /\ r.hardwareError = b.hardwareError
                   /\ r.handlerStatus = b.handlerStatus
<1> DEFINE r == Received(b, frame, status)
<1>1. IsComplete(frame) \in BOOLEAN
  BY DEF IsComplete
<1>2. CASE Handled(b, frame)
  BY <1>1, <1>2 DEF Received, BarrierRecord, Handled
<1>3. CASE ~Handled(b, frame) /\ b.handler = "none" /\ Len(b.rx) >= RxCapacity
  BY <1>1, <1>3 DEF Received, BarrierRecord, Handled
<1>4. CASE b.handler = "none" /\ ~(Len(b.rx) >= RxCapacity)
  BY <1>1, <1>4 DEF Received, BarrierRecord, Handled
<1>5. CASE ~Handled(b, frame) /\ b.handler # "none"
  BY <1>1, <1>5 DEF Received, BarrierRecord, Handled
<1> QED
  BY <1>2, <1>3, <1>4, <1>5 DEF Handled

\* What the running handler finds: its call has begun to be answered.
LEMMA HandlerFinds ==
  ASSUME Whole, isr # None
  PROVE  /\ isr = owner /\ owner \in Sessions /\ InCall /\ pc # "idle"
         /\ ~Requested /\ Healthy
         /\ Own \in BarrierRecord /\ ~Own.completed /\ ~Own.overflow
         /\ RestInFifo /\ Buffered /\ Overflowed /\ Handed
<1>1. isr = owner /\ owner \in Sessions /\ InCall /\ ~Own.completed
  BY DEF Whole, Sound, Ownership, TypeOK, IsrEngaged, Own
<1>2. ~Requested
  BY <1>1 DEF Whole, Answers, Unanswered
<1>3. RestInFifo /\ Buffered /\ Overflowed /\ Handed
  BY <1>1, <1>2 DEF Whole, Answers, Reading
<1>4. ~Own.overflow
  BY <1>1, <1>3 DEF Overflowed
<1>5. Own \in BarrierRecord /\ pc # "idle"
  BY <1>1 DEF Whole, Sound, Ownership, TypeOK, Own, InCall
<1>6. Healthy
  BY <1>5, CallFacts DEF Whole, Sound
<1> QED
  BY <1>1, <1>2, <1>3, <1>4, <1>5, <1>6

\* What the handler leaves outside the barrier it serves.
LEMMA HandlerStep ==
  ASSUME Whole, isr # None, UNCHANGED <<down, answer, owner, mainVars>>,
         Own'.handler = Own.handler, RestInFifo', Buffered', Overflowed', Handed'
  PROVE  Answers'
<1>1. UNCHANGED <<session, pc, call, last>>
  BY DEF mainVars
<1>2. InCall /\ ~Requested /\ Healthy /\ pc # "idle"
  BY HandlerFinds
<1>3. InCall' /\ ~Requested'
  BY <1>1, <1>2 DEF InCall, Requested, ControlWaiting
<1>4. HandlerOfCall' /\ Unanswered' /\ AnswerIsFrames'
  BY <1>1, <1>2, <1>3
     DEF Whole, Answers, HandlerOfCall, Unanswered, AnswerIsFrames
<1>5. Reading' /\ DeliveryKept'
  BY <1>1, <1>2 DEF Reading, DeliveryKept
<1> QED
  BY <1>1, <1>2, <1>4, <1>5, SoundOwnerKeeps DEF Answers

\* The handler reads the next frame of the answer.
LEMMA IsrReadsFrameAnswers ==
  ASSUME Whole, IsrReadsFrame PROVE Answers'
<1> DEFINE f == Head(up)
<1>1. /\ isr # None /\ up # <<>> /\ up' = Tail(up)
      /\ UNCHANGED <<down, answer, owner, mainVars>>
  BY DEF IsrReadsFrame
<1>2. /\ isr = owner /\ owner \in Sessions
      /\ Own \in BarrierRecord /\ ~Own.completed /\ ~Own.overflow
      /\ RestInFifo /\ Buffered /\ Overflowed /\ Handed
  BY <1>1, HandlerFinds
<1>3. PICK status \in HandlerResults(Own.handler, f) :
        /\ barrier' = [barrier EXCEPT ![owner] = Received(Own, f, status)]
        /\ decoded' = (IF /\ f.kind = "work"
                          /\ Own.handler = "decode"
                          /\ Own.handlerStatus = "OK"
                          /\ status = "OK"
                       THEN Append(decoded, f) ELSE decoded)
  BY <1>2 DEF IsrReadsFrame, Receive, Own
<1>4. status \in HandlerStatuses
  BY <1>3 DEF HandlerResults, HandlerStatuses
<1>5. Own' = Received(Own, f, status)
  BY <1>1, <1>2, <1>3 DEF Whole, Sound, Ownership, TypeOK, Own
<1>6. /\ answer \in Seq(UpFrame) /\ up \in Seq(UpFrame)
      /\ Len(answer) \in Nat /\ Len(up) \in Nat
      /\ Len(answer) - Taken = Len(up) /\ Taken \in Nat
  BY <1>2, AnswerTyped DEF Whole, Sound, RestInFifo
<1>7. /\ Len(up) >= 1 /\ f = up[1] /\ Len(up') = Len(up) - 1
      /\ \A i \in 1..Len(up') : up'[i] = up[i + 1]
  BY <1>1, <1>6, TailFacts
<1>8. f = answer[Taken + 1] /\ Taken + 1 \in 1..Len(answer)
  <2>1. 1 \in 1..Len(up)
    BY <1>6, <1>7
  <2> QED
    BY <1>2, <1>6, <1>7, <2>1 DEF RestInFifo
<1>9. f \in UpFrame /\ f.kind \in {"work", "complete"}
  <2>1. f \in UpFrame
    BY <1>6, <1>8, ElementOfSeq
  <2> QED
    BY <1>8, <2>1 DEF Whole, Answers, AnswerIsFrames, UpFrame
<1>10. Taken' = Taken + 1
  BY <1>1, <1>6, <1>7 DEF Taken
<1>11. RestInFifo'
  <2>1. ASSUME NEW i \in 1..Len(up') PROVE up'[i] = answer[Taken + 1 + i]
    <3>1. i + 1 \in 1..Len(up) /\ Taken + (i + 1) = Taken + 1 + i
      BY <1>6, <1>7
    <3> QED
      BY <1>2, <1>7, <3>1 DEF RestInFifo
  <2> QED
    BY <1>1, <1>6, <1>10, <2>1 DEF RestInFifo
<1>12. /\ SubSeq(answer, 1, Taken) \in Seq(UpFrame)
       /\ SubSeq(answer, 1, Taken + 1) = Append(SubSeq(answer, 1, Taken), f)
  BY <1>6, <1>8, ReadOneMore
<1>13. Buffered'
  <2> SUFFICES ASSUME Own'.handler = "none", ~Own'.overflow
               PROVE  /\ Interspersed(Own'.rx, SubSeq(answer, 1, Taken + 1))
                      /\ EmptyRead # "idle" => Len(Own'.rx) = Taken + 1
    BY <1>1, <1>10 DEF Buffered
  <2>1. Own.handler = "none" /\ Own'.rx = Append(Own.rx, f)
    BY <1>2, <1>4, <1>5, <1>9, ReceivedCases
  <2>2. Own.rx \in Seq(UpFrame)
    BY <1>2 DEF BarrierRecord
  <2>3. /\ Interspersed(Own.rx, SubSeq(answer, 1, Taken))
        /\ EmptyRead # "idle" => Len(Own.rx) = Taken
    BY <1>2, <2>1 DEF Buffered
  <2>4. Interspersed(Own'.rx, SubSeq(answer, 1, Taken + 1))
    <3> DEFINE read == SubSeq(answer, 1, Taken)
    <3>1. read \in Seq(UpFrame) /\ Interspersed(Own.rx, read)
      BY <1>12, <2>3
    <3>2. f \in UpFrame
      BY <1>9
    <3> HIDE DEF f, read
    <3>3. Interspersed(Append(Own.rx, f), Append(read, f))
      BY <2>2, <3>1, <3>2, InterspersedFrame
    <3> QED
      BY <1>12, <2>1, <3>3 DEF read
  <2>5. Len(Own'.rx) = Len(Own.rx) + 1
    BY <1>9, <2>1, <2>2, AppendProperties
  <2> QED
    BY <2>3, <2>4, <2>5
<1>14. Overflowed'
  <2> SUFFICES ASSUME Own'.overflow
               PROVE  /\ Own'.completed
                      /\ EmptyRead # "idle" => Len(answer) > RxCapacity
    BY <1>1 DEF Overflowed
  <2>1. /\ Own'.completed /\ Own.handler = "none"
        /\ Len(Own.rx) >= RxCapacity
    BY <1>2, <1>4, <1>5, <1>9, ReceivedCases
  <2>2. EmptyRead # "idle" => Len(Own.rx) = Taken
    BY <1>2, <2>1 DEF Buffered
  <2> QED
    BY <1>6, <1>8, <2>1, <2>2
<1>15. Handed'
  <2> DEFINE n == IF Own'.completed THEN (Taken + 1) - 1 ELSE Taken + 1
  <2> SUFFICES ASSUME Own'.handler = "decode", Own'.handlerStatus = "OK",
                      ~Own'.hardwareError
               PROVE  decoded' = SubSeq(answer, 1, n)
    BY <1>1, <1>10 DEF Handed
  <2>1. Own.handler = "decode" /\ Own.handlerStatus = "OK" /\ ~Own.hardwareError
    BY <1>2, <1>4, <1>5, <1>9, ReceivedCases DEF HandlerStatuses
  <2>2. decoded = SubSeq(answer, 1, Taken)
    BY <1>2, <2>1 DEF Handed
  <2>3. CASE IsComplete(f)
    <3>1. Own'.completed
      BY <1>2, <1>4, <1>5, <1>9, <2>1, <2>3, ReceivedCases
    <3>2. decoded' = decoded /\ n = Taken
      BY <1>3, <1>6, <2>3, <3>1 DEF IsComplete
    <3> QED
      BY <2>2, <3>2
  <2>4. CASE ~IsComplete(f)
    <3>1. f.kind = "work"
      BY <1>9, <2>4 DEF IsComplete
    <3>2. ~Own'.completed /\ status = "OK"
      BY <1>2, <1>4, <1>5, <1>9, <2>1, <2>4, ReceivedCases
    <3>3. decoded' = Append(decoded, f) /\ n = Taken + 1
      BY <1>3, <2>1, <3>1, <3>2
    <3> QED
      BY <1>12, <2>2, <3>3
  <2> QED
    BY <2>3, <2>4
<1>16. Own'.handler = Own.handler
  BY <1>2, <1>4, <1>5, <1>9, ReceivedCases
<1> QED
  BY <1>1, <1>11, <1>13, <1>14, <1>15, <1>16, HandlerStep

\* The handler reads an idle word for a frame.
LEMMA IsrReadsIdleAnswers ==
  ASSUME Whole, IsrReadsIdle PROVE Answers'
<1>1. /\ isr # None /\ EmptyRead = "idle"
      /\ UNCHANGED <<down, up, answer, owner, mainVars>>
  BY DEF IsrReadsIdle, nocVars
<1>2. /\ isr = owner /\ owner \in Sessions
      /\ Own \in BarrierRecord /\ ~Own.completed /\ ~Own.overflow
      /\ RestInFifo /\ Buffered /\ Overflowed /\ Handed
  BY <1>1, HandlerFinds
<1>3. /\ IdleFrame \in UpFrame /\ ~IsComplete(IdleFrame)
      /\ IdleFrame.kind = "idle"
  BY DEF IdleFrame, UpFrame, IsComplete
<1>4. PICK status \in HandlerStatuses :
        /\ barrier' = [barrier EXCEPT ![owner] = Received(Own, IdleFrame, status)]
        /\ decoded' = decoded
  <2>1. HandlerResults(Own.handler, IdleFrame) \subseteq HandlerStatuses
    BY DEF HandlerResults, HandlerStatuses
  <2> QED
    BY <1>2, <1>3, <2>1 DEF IsrReadsIdle, Receive, Own
<1>5. Own' = Received(Own, IdleFrame, status)
  BY <1>1, <1>2, <1>4 DEF Whole, Sound, Ownership, TypeOK, Own
<1>6. Taken' = Taken
  BY <1>1 DEF Taken
<1>7. RestInFifo'
  BY <1>1, <1>2, <1>6 DEF RestInFifo
<1>8. Buffered'
  <2> SUFFICES ASSUME Own'.handler = "none", ~Own'.overflow
               PROVE  Interspersed(Own'.rx, SubSeq(answer, 1, Taken))
    BY <1>1, <1>6 DEF Buffered
  <2>1. Own.handler = "none" /\ Own'.rx = Append(Own.rx, IdleFrame)
    BY <1>2, <1>3, <1>5, ReceivedCases
  <2>2. Own.rx \in Seq(UpFrame)
    BY <1>2 DEF BarrierRecord
  <2>3. Interspersed(Own.rx, SubSeq(answer, 1, Taken))
    BY <1>2, <2>1 DEF Buffered
  <2>4. Len(SubSeq(answer, 1, Taken)) \in Nat
    <3>1. answer \in Seq(UpFrame) /\ Taken \in Nat /\ Taken <= Len(answer)
      BY <1>2, AnswerTyped DEF Whole, Sound, RestInFifo
    <3>2. \A i \in 1..Taken : answer[i] \in UpFrame
      BY <3>1, ElementOfSeq
    <3>3. SubSeq(answer, 1, Taken) \in Seq(UpFrame)
      BY <3>1, <3>2, SubSeqProperties
    <3> QED
      BY <3>3
  <2> QED
    BY <2>1, <2>2, <2>3, <2>4, InterspersedIdle
<1>9. Overflowed'
  BY <1>1, <1>2, <1>3, <1>5, ReceivedCases DEF Overflowed
<1>10. Handed'
  <2> SUFFICES ASSUME Own'.handler = "decode", Own'.handlerStatus = "OK",
                      ~Own'.hardwareError
               PROVE  decoded = SubSeq(answer, 1, IF Own'.completed
                                                  THEN Taken - 1 ELSE Taken)
    BY <1>1, <1>4, <1>6 DEF Handed
  <2>1. /\ Own.handler = "decode" /\ Own.handlerStatus = "OK"
        /\ ~Own.hardwareError /\ ~Own'.completed
    BY <1>2, <1>3, <1>5, ReceivedCases DEF HandlerStatuses
  <2> QED
    BY <1>2, <2>1 DEF Handed
<1>11. Own'.handler = Own.handler
  BY <1>2, <1>3, <1>5, ReceivedCases
<1> QED
  BY <1>1, <1>7, <1>8, <1>9, <1>10, <1>11, HandlerStep

\* A read that fails ends the call with an error.
LEMMA IsrReadFailsAnswers ==
  ASSUME Whole, IsrReadFails PROVE Answers'
<1>1. /\ isr # None
      /\ UNCHANGED <<down, up, answer, owner, decoded, mainVars>>
  BY DEF IsrReadFails, nocVars
<1>2. /\ isr = owner /\ owner \in Sessions
      /\ Own \in BarrierRecord /\ ~Own.completed /\ ~Own.overflow
      /\ RestInFifo /\ Buffered /\ Overflowed /\ Handed
  BY <1>1, HandlerFinds
<1>3. /\ Own'.hardwareError /\ Own'.overflow = Own.overflow
      /\ Own'.rx = Own.rx /\ Own'.handler = Own.handler
  BY <1>1, <1>2
     DEF IsrReadFails, Whole, Sound, Ownership, TypeOK, BarrierRecord, Own
<1>4. Taken' = Taken
  BY <1>1 DEF Taken
<1>5. RestInFifo' /\ Buffered' /\ Overflowed' /\ Handed'
  BY <1>1, <1>2, <1>3, <1>4 DEF RestInFifo, Buffered, Overflowed, Handed
<1> QED
  BY <1>1, <1>3, <1>5, HandlerStep

\* The call returns what was read for it.
LEMMA FinishAnswers ==
  ASSUME Whole, PollSucceeds \/ Expire PROVE Answers'
<1>1. PICK status \in Statuses :
        /\ InCall /\ ~InCall' /\ pc' = "idle"
        /\ owner = call.session /\ Healthy /\ owner \in Sessions
        /\ last' = [op |-> call.op, session |-> owner, status |-> status]
        /\ session'[owner] = SessionAfter(session[owner], status)
        /\ Own' = CloseBarrier(Own, status)
        /\ status = (IF Own.completed THEN BarrierStatus(Own) ELSE "TIMEOUT")
        /\ status = "OK" =>
             /\ Quiet /\ ~Requested /\ Own.completed /\ ~Own.overflow
             /\ ~Own.hardwareError /\ Own.handlerStatus = "OK"
        /\ UNCHANGED <<up, answer, owner, decoded, call>>
  BY FinishFacts DEF Whole, Own
<1>2. Own \in BarrierRecord /\ (Own').rx = Own.rx
  BY <1>1, ClosedTyped DEF Whole, Sound, Ownership, TypeOK, Own
<1>3. OverflowKept'
  <2> SUFFICES ASSUME status = "OVERFLOW"
               PROVE  /\ session'[owner].faulted /\ ~ControlWaiting'
                      /\ EmptyRead # "idle" => Len(answer) > RxCapacity
    BY <1>1 DEF OverflowKept
  <2>1. Own.overflow
    BY <1>1, <1>2 DEF BarrierStatus, BarrierRecord, HandlerStatuses
  <2>2. ~Requested
    BY <1>1, <2>1 DEF Whole, Answers, Unanswered
  <2>3. ~ControlWaiting'
    BY <1>1, <2>2, FinishFacts DEF Whole, Requested, ControlWaiting
  <2>4. session'[owner].faulted
    BY <1>1, OutcomeFacts DEF Whole
  <2> QED
    BY <1>1, <2>1, <2>2, <2>3, <2>4 DEF Whole, Answers, Reading, Overflowed
<1>4. DeliveryKept'
  <2> SUFFICES ASSUME status = "OK", call.op # "reset"
               PROVE  /\ ~session'[owner].faulted
                      /\ IF call.handler = "decode"
                         THEN decoded = SubSeq(answer, 1, Len(answer) - 1)
                         ELSE Interspersed(Own.rx, answer)
    BY <1>1, <1>2 DEF DeliveryKept
  <2>1. ~session'[owner].faulted
    BY <1>1, OutcomeFacts DEF Whole, Healthy
  <2>2. /\ RestInFifo /\ Buffered /\ Overflowed /\ Handed
        /\ Own.handler = call.handler /\ call.handler # "discard"
    BY <1>1 DEF Whole, Answers, Reading, HandlerOfCall
  <2>3. /\ answer \in Seq(UpFrame) /\ Len(answer) \in Nat
        /\ Taken = Len(answer)
    BY <1>1, AnswerTyped DEF Whole, Sound, Taken, Quiet
  <2>4. SubSeq(answer, 1, Len(answer)) = answer
    BY <2>3, SubSeqFull
  <2>5. CASE call.handler = "decode"
    BY <1>1, <2>1, <2>2, <2>3, <2>5 DEF Handed
  <2>6. CASE call.handler # "decode"
    <3>1. Own.handler = "none"
      BY <1>2, <2>2, <2>6 DEF BarrierRecord, Handlers
    <3> QED
      BY <1>1, <2>1, <2>2, <2>3, <2>4, <2>6, <3>1 DEF Buffered
  <2> QED
    BY <2>5, <2>6
<1> QED
  BY <1>1, <1>3, <1>4, OutOfCall DEF Whole, Answers

\* The steps of ApiCall, with the RX handler each one chooses.
LEMMA ApiCallHandlers ==
  ASSUME NEW x \in Sessions, ApiCall(x)
  PROVE  \/ InitSession(x)
         \/ DeinitSession(x)
         \/ \E op \in SubmitOps : RejectSubmit(op, x)
         \/ \E op \in SubmitOps, n \in {0, 1} : BeginSubmit(op, x, n)
         \/ \E op \in ControlOps, arg \in Nat : RejectControl(x, op, arg)
         \/ \E op \in ControlOps, arg \in Nat, handler \in Handlers :
              /\ handler = "discard" <=> op = "reset"
              /\ BeginControl(x, op, arg, handler)
<1>1. /\ 0 \in Nat
      /\ \A n \in 0..PayloadLimit + 1 : n \in Nat
      /\ \A t \in 0..MaxTime : t \in Nat
  OBVIOUS
<1> QED
  BY <1>1 DEF ApiCall, ResetModel, SyncWaitPayload, SyncWaitUntil,
              SyncWaitUntilWithRxHandler, ControlOps, Handlers

LEMMA NextAnswers == Whole /\ [Next]_vars => Answers'
<1> SUFFICES ASSUME Whole, [Next]_vars PROVE Answers'
  OBVIOUS
<1>1. CASE UNCHANGED vars
  BY <1>1, StutterAnswers DEF Whole
<1>2. ASSUME NEW x \in Sessions, ApiCall(x) PROVE Answers'
  BY <1>2, ApiCallHandlers, InitSessionAnswers, DeinitAnswers, RefusedAnswers,
     SubmitAnswers, BeginControlAnswers
<1>3. CASE MainStep
  BY <1>3, SubmitAnswers, WriteControlAnswers, FinishAnswers,
     TimeLimitPassesAnswers DEF MainStep
<1>4. CASE IsrStep
  BY <1>4, EnterIsrAnswers, IsrReadsFrameAnswers, IsrReadsIdleAnswers,
     IsrReadFailsAnswers DEF IsrStep
<1>5. CASE \E x \in Sessions : NestedSend(x) \/ NestedDeinit(x)
  BY <1>5, RefusedAnswers, DeinitAnswers
<1>6. CASE Chip \/ Recover
  BY <1>6, ChipAnswers, RecoverAnswers
<1> QED
  BY <1>1, <1>2, <1>3, <1>4, <1>5, <1>6 DEF Next

\* Every frame of an answer is in the FIFO, in the receive buffer or with the
\* RX handler, in its order and only once.
THEOREM WholeInvariant == Spec => []Whole
<1>1. Init => Whole
  BY InitOwnership, InitRequests, InitTimeline, InitAnswers DEF Whole, Sound
<1>2. Whole /\ [Next]_vars => Whole'
  BY NextOwnership, NextRequests, NextTimeline, NextAnswers DEF Whole, Sound
<1> QED
  BY <1>1, <1>2, PTL DEF Spec

\* A synchronisation that returns OK has delivered the whole answer of its
\* control frame in order, however the handler and the chip were interleaved.
THEOREM DeliversAnswers == Spec => []AnswerDelivered
<1>1. Whole => AnswerDelivered
  BY DEF Whole, Answers, DeliveryKept, AnswerDelivered, Idle, Own
<1> QED
  BY <1>1, WholeInvariant, PTL

\* OVERFLOW is reported only for an answer that does not fit rx_frames.
THEOREM OverflowsAreReal == Spec => []OverflowIsReal
<1>1. Whole => OverflowIsReal
  BY DEF Whole, Answers, OverflowKept, OverflowIsReal
<1> QED
  BY <1>1, WholeInvariant, PTL
=============================================================================
