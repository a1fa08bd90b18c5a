------------------------------- MODULE Runner -------------------------------
(***************************************************************************)
(* Lib/runtime/paicore_runner.c and session_io.c: a runner deploys one     *)
(* artifact on the chip and runs samples of T timesteps on it.  For each   *)
(* timestep it sends one row of input in chunks, then synchronises; output *)
(* frames are decoded into the rows of the sample's output while it waits. *)
(*                                                                         *)
(* The session below it is modelled by what Session and its proofs show: a *)
(* barrier reads frames up to the next COMPLETE or fails, nothing is read  *)
(* or decoded outside a barrier, and a failure faults the session.         *)
(***************************************************************************)
EXTENDS Integers, Sequences

CONSTANTS
  Runners,     \* the caller-owned rvrt_paicore_runner_t objects, one artifact each
  None,        \* no runner
  T,           \* runtime.timesteps
  ArtifactOf,  \* what is to know of each runner's artifact
  Early,       \* may the chip stamp a frame with a row it cannot know yet?
  Recovered,   \* do callers recover the platform before they deploy again?
  MaxSamples,  \* bound: samples begun
  DownDepth,   \* capacity of the downlink FIFO, in chunks of frames
  UpDepth      \* capacity of the uplink FIFO, in frames

\* latency is runtime.pipeline_latency; chunks is how often the frames of an
\* input row fill the frame buffer; lanes are the frames of one output element.
IsArtifact(a) ==
  /\ DOMAIN a = {"kind", "latency", "chunks", "elements", "lanes"}
  /\ a.kind \in {"data", "voltage"}
  /\ a.latency \in Nat \ {0}
  /\ a.chunks \in Nat \ {0}
  /\ a.lanes # {}
  /\ a.kind = "data" => \E lane \in a.lanes : a.lanes = {lane}

ASSUME RunnerAssumption ==
  /\ None \notin Runners
  /\ T \in Nat \ {0}
  /\ DOMAIN ArtifactOf = Runners
  /\ \A x \in Runners : IsArtifact(ArtifactOf[x])
  /\ Early \in BOOLEAN
  /\ Recovered \in BOOLEAN
  /\ MaxSamples \in Nat
  /\ DownDepth \in Nat \ {0}
  /\ UpDepth \in Nat \ {0}

VARIABLES
  owner,   \* g_active_session, as the runner whose session it is
  runner,  \* the members of each runner and its session that decide anything
  pc,      \* where the main program is
  run,     \* arguments and locals of run_sample
  refused, \* rx_frame_handler_status of the barrier is not OK
  input,   \* does each row of the caller's input still hold that input?
  output,  \* the caller's output rows, lane by lane
  mask,    \* each runner's voltage_state: received_mask of each element
  down,    \* frames on their way to the chip
  up,      \* frames on their way from the chip
  chip,    \* the chip
  result,  \* history: what the chip has computed for each row since INIT
  sample,  \* history: samples begun
  last     \* the call that returned last, with its status

memory == <<input, output, mask>>
vars == <<owner, runner, pc, run, refused, memory, down, up, chip, result,
          sample, last>>

Rows == 0..T - 1
CompletionSync(x) == ArtifactOf[x].latency + T - 1
Kind == ArtifactOf[run.runner].kind
Lanes == ArtifactOf[run.runner].lanes
Elements == ArtifactOf[run.runner].elements

\* A lane of an output element holds zero, the number of the sample whose
\* complete input it was computed from, or something else.
Zero == 0
Junk == -1
Wrong == -2

ClearedRunner == [deployed |-> FALSE, faulted |-> FALSE, completed |-> 0]
IdleChip ==
  [config |-> None, inputs |-> [t \in Rows |-> <<>>], time |-> 0,
   busy |-> FALSE, left |-> 0, of |-> [t \in Rows |-> Wrong], out |-> {}]
NoResult == [t \in Rows |-> [of |-> Wrong, fired |-> {}]]
JunkRow(x) ==
  [e \in ArtifactOf[x].elements |-> [lane \in ArtifactOf[x].lanes |-> Junk]]
NothingReceived(x) == [t \in Rows |-> [e \in ArtifactOf[x].elements |-> {}]]
ZeroCell == [lane \in Lanes |-> Zero]

Init ==
  /\ owner = None
  /\ runner = [x \in Runners |-> ClearedRunner]
  /\ pc = "idle"
  /\ \E x \in Runners :
       /\ run = [runner |-> x, inPlace |-> FALSE, timestep |-> 0, chunk |-> 0,
                 submitted |-> 0, target |-> 0]
       /\ last = [op |-> "release", runner |-> x, status |-> "OK"]
       /\ output = [t \in Rows |-> JunkRow(x)]
  /\ refused = FALSE
  /\ input = [t \in Rows |-> TRUE]
  /\ mask = [x \in Runners |-> NothingReceived(x)]
  /\ down = <<>>
  /\ up = <<>>
  /\ chip = IdleChip
  /\ result = NoResult
  /\ sample = 0

Idle == pc = "idle"
Waiting == pc \in {"resetting", "syncing"}
Return(op, x, status) ==
  last' = [op |-> op, runner |-> x, status |-> status]
Send(frame) ==
  /\ Len(down) < DownDepth
  /\ down' = Append(down, frame)

(***************************************************************************)
(* Deploying and releasing.                                                *)
(***************************************************************************)

IsControl(frame) == frame.kind \in {"init", "sync"}
Quiet ==
  /\ up = <<>>
  /\ ~chip.busy
  /\ \A i \in 1..Len(down) : ~IsControl(down[i])

\* Configuration frames for x, or, where the artifact fails half-way, a part
\* of them: then no runner is configured.
SendConfig(whose) == Send([kind |-> "config", whose |-> whose])

\* session.h: a session is initialised only after the platform has cleared
\* stale frames.  A caller that follows Lib/runtime/README.md does not ask.
ReadyToInit == Recovered => Quiet

RejectBusy(op, x) ==
  /\ Idle
  /\ owner \notin {None, x}
  /\ Return(op, x, "BUSY")
  /\ UNCHANGED <<owner, runner, pc, run, refused, memory, down, up, chip,
                 result, sample>>

\* rvrt_paicore_runner_deploy begins by detaching and clearing the runner: a
\* deployment that fails leaves nothing of an earlier one.  It may fail before
\* the session is initialised, on the artifact's metadata, or in load_config.
FailedDeployKeepsOwner(x) ==
  /\ Idle
  /\ owner \in {None, x}
  /\ \/ UNCHANGED <<down, owner>>
     \/ /\ ReadyToInit
        /\ owner' = x
        /\ UNCHANGED down \/ SendConfig(None)
  /\ runner' = [runner EXCEPT ![x] = ClearedRunner]
  /\ Return("deploy", x, "RUNTIME_ERROR")
  /\ UNCHANGED <<pc, run, refused, memory, up, chip, result, sample>>
FailDeploy(x) ==
  /\ Idle
  /\ owner \in {None, x}
  /\ \/ UNCHANGED down
     \/ ReadyToInit /\ SendConfig(None)
  /\ owner' = None
  /\ runner' = [runner EXCEPT ![x] = ClearedRunner]
  /\ Return("deploy", x, "RUNTIME_ERROR")
  /\ UNCHANGED <<pc, run, refused, memory, up, chip, result, sample>>

Deploy(x) ==
  /\ Idle
  /\ owner \in {None, x}
  /\ ReadyToInit
  /\ SendConfig(x)
  /\ owner' = x
  /\ runner' = [runner EXCEPT ![x] = [ClearedRunner EXCEPT !.deployed = TRUE]]
  /\ Return("deploy", x, "OK")
  /\ UNCHANGED <<pc, run, refused, memory, up, chip, result, sample>>

Release(x) ==
  /\ Idle
  /\ owner \in {None, x}
  /\ owner' = None
  /\ runner' = [runner EXCEPT ![x] = ClearedRunner]
  /\ Return("release", x, "OK")
  /\ UNCHANGED <<pc, run, refused, memory, down, up, chip, result, sample>>

(***************************************************************************)
(* rvrt_paicore_runner_run_sample.                                         *)
(***************************************************************************)

\* The runner is not deployed, a buffer does not fit, or input and output
\* overlap in a way SampleLayout rejects: nothing is touched.
RejectSample(x) ==
  /\ Idle
  /\ Return("run", x, "RUNTIME_ERROR")
  /\ UNCHANGED <<owner, runner, pc, run, refused, memory, down, up, chip,
                 result, sample>>

\* The caller has filled the input; the output rows hold what was there, which
\* is the input itself for a sample in place.  Only VOLTAGE clears lane state.
MasksKept(x) == mask
MasksAtStart(x) ==
  IF ArtifactOf[x].kind = "voltage"
  THEN [mask EXCEPT ![x] = NothingReceived(x)] ELSE mask

BeginSample(x, inPlace) ==
  /\ Idle
  /\ runner[x].deployed
  /\ sample < MaxSamples
  /\ sample' = sample + 1
  /\ run' = [runner |-> x, inPlace |-> inPlace, timestep |-> 0, chunk |-> 0,
             submitted |-> 0, target |-> 0]
  /\ input' = [t \in Rows |-> TRUE]
  /\ output' = [t \in Rows |-> JunkRow(x)]
  /\ mask' = MasksAtStart(x)
  /\ refused' = FALSE
  /\ IF runner[x].faulted
     THEN /\ Return("run", x, "FAULTED")
          /\ UNCHANGED <<pc, down>>
     ELSE /\ Send([kind |-> "init"])
          /\ pc' = "resetting"
          /\ UNCHANGED last
  /\ UNCHANGED <<owner, runner, up, chip, result>>

\* rvrt_session_send_input_timestep, one turn of its loop: encode a chunk of
\* the row as it is now, and send it.
SendChunk ==
  /\ pc = "sending"
  /\ Send([kind |-> "input", row |-> run.timestep, chunk |-> run.chunk + 1,
           whose |-> run.runner,
           sample |-> IF input[run.timestep] THEN sample ELSE Wrong])
  /\ run' = [run EXCEPT !.chunk = @ + 1]
  /\ pc' = IF run.chunk + 1 = ArtifactOf[run.runner].chunks THEN "sent" ELSE "sending"
  /\ UNCHANGED <<owner, runner, refused, memory, up, chip, result, sample,
                 last>>

\* A value that does not fit its dtype ends the sample, with earlier chunks of
\* the row sent and the session healthy.
EncodeFails ==
  /\ pc = "sending"
  /\ pc' = "idle"
  /\ Return("run", run.runner, "RUNTIME_ERROR")
  /\ UNCHANGED <<owner, runner, run, refused, memory, down, up, chip, result,
                 sample>>

\* sync_wait_until sends the distance to the target.
SyncUntil(target) ==
  /\ Send([kind |-> "sync", steps |-> target - runner[run.runner].completed])
  /\ refused' = FALSE
  /\ pc' = "syncing"

\* Clear the row's output, admit frames stamped with it, and synchronise.
SubmitTimestep ==
  /\ pc = "sent"
  /\ output' = [output EXCEPT ![run.timestep] = [e \in Elements |-> ZeroCell]]
  /\ input' = [input EXCEPT ![run.timestep] = @ /\ ~run.inPlace]
  /\ run' = [run EXCEPT !.submitted = run.timestep + 1,
                        !.target = run.timestep + 1]
  /\ SyncUntil(run.timestep + 1)
  /\ UNCHANGED <<owner, runner, mask, up, chip, result, sample, last>>

\* The last synchronisation waits for the outputs still in the pipeline.
CompletePipeline ==
  /\ pc = "completing"
  /\ run' = [run EXCEPT !.target = CompletionSync(run.runner)]
  /\ SyncUntil(CompletionSync(run.runner))
  /\ UNCHANGED <<owner, runner, memory, up, chip, result, sample, last>>

(***************************************************************************)
(* The RX handlers, in the interrupt of the barrier.                       *)
(***************************************************************************)

\* A frame of a row that was not submitted, or a lane that came before.
Received(frame) == mask[run.runner][frame.row][frame.elem]
RefusesOnlyLanes(frame) ==
  frame.row \in Rows /\ Kind = "voltage" /\ frame.lane \in Received(frame)
Refuses(frame) ==
  \/ frame.row >= run.submitted
  \/ Kind = "voltage" /\ frame.lane \in Received(frame)

\* rvrt_store_voltage_lane ORs a lane into the element, which its first lane
\* has cleared; a DATA frame is the whole element.
Stored(cell, received, frame) ==
  IF Kind = "data"
  THEN [cell EXCEPT ![frame.lane] = frame.of]
  ELSE LET base == IF received = {} THEN ZeroCell ELSE cell
       IN  [base EXCEPT ![frame.lane] = IF @ = Zero THEN frame.of ELSE Wrong]

MaskAfter(received, frame) ==
  IF Kind = "data" \/ received \union {frame.lane} = Lanes
  THEN {} ELSE received \union {frame.lane}

Store(frame) ==
  /\ frame.row \in Rows
  /\ output' = [output EXCEPT ![frame.row][frame.elem] =
                  Stored(@, Received(frame), frame)]
  /\ mask' = [mask EXCEPT ![run.runner][frame.row][frame.elem] =
                  MaskAfter(@, frame)]
  /\ input' = [input EXCEPT ![frame.row] = @ /\ ~run.inPlace]
  /\ UNCHANGED refused

\* A model reset discards frames.  After a refusal the rest is only drained.
HandleFrame ==
  /\ Waiting
  /\ up # <<>>
  /\ Head(up).kind = "work"
  /\ up' = Tail(up)
  /\ IF pc = "resetting" \/ refused
     THEN UNCHANGED <<refused, memory>>
     ELSE IF Refuses(Head(up))
     THEN refused' = TRUE /\ UNCHANGED memory
     ELSE Store(Head(up))
  /\ UNCHANGED <<owner, runner, pc, run, down, chip, result, sample, last>>

(***************************************************************************)
(* The ends of a barrier.                                                  *)
(***************************************************************************)

EndSample(status) ==
  /\ pc' = "idle"
  /\ Return("run", run.runner, status)

ResetCompletes ==
  /\ pc = "resetting"
  /\ up # <<>>
  /\ Head(up).kind = "complete"
  /\ up' = Tail(up)
  /\ runner' = [runner EXCEPT ![run.runner].completed = 0]
  /\ pc' = "sending"
  /\ UNCHANGED <<owner, run, refused, memory, down, chip, result, sample, last>>

NoPipelineSync == FALSE
MustCompletePipeline == CompletionSync(run.runner) > T

\* Each row is encoded with a cursor of its own.
NextTimestepOldCursor == [run EXCEPT !.timestep = @ + 1]
NextTimestep == [run EXCEPT !.timestep = @ + 1, !.chunk = 0]

SyncCompletes ==
  /\ pc = "syncing"
  /\ up # <<>>
  /\ Head(up).kind = "complete"
  /\ up' = Tail(up)
  /\ IF refused
     THEN /\ runner' = [runner EXCEPT ![run.runner].faulted = TRUE]
          /\ EndSample("RUNTIME_ERROR")
          /\ UNCHANGED run
     ELSE /\ runner' = [runner EXCEPT ![run.runner].completed = run.target]
          /\ \/ /\ run.target < T
                /\ run' = NextTimestep
                /\ pc' = "sending"
                /\ UNCHANGED last
             \/ /\ run.target = T
                /\ MustCompletePipeline
                /\ pc' = "completing"
                /\ UNCHANGED <<run, last>>
             \/ /\ run.target >= T
                /\ run.target = T => ~MustCompletePipeline
                /\ EndSample("OK")
                /\ UNCHANGED run
  /\ UNCHANGED <<owner, refused, memory, down, chip, result, sample>>

\* A timeout, or an error of the NoC.
BarrierFails ==
  /\ Waiting
  /\ runner' = [runner EXCEPT ![run.runner].faulted = TRUE]
  /\ \E status \in {"TIMEOUT", "HARDWARE_ERROR"} : EndSample(status)
  /\ UNCHANGED <<owner, run, refused, memory, down, up, chip, result, sample>>

(***************************************************************************)
(* The chip, as the runtime expects it.                                    *)
(***************************************************************************)

ChipTakes ==
  /\ ~chip.busy
  /\ down # <<>>
  /\ down' = Tail(down)
  /\ LET frame == Head(down)
     IN  chip' =
           CASE frame.kind = "config" -> [chip EXCEPT !.config = frame.whose]
             [] frame.kind = "input" ->
                  [chip EXCEPT !.inputs[frame.row] = Append(@,
                     [chunk |-> frame.chunk, whose |-> frame.whose,
                      sample |-> frame.sample])]
             [] frame.kind = "init" ->
                  [IdleChip EXCEPT !.config = chip.config, !.busy = TRUE]
             [] frame.kind = "sync" ->
                  [chip EXCEPT !.busy = TRUE, !.left = frame.steps]
  /\ result' = IF Head(down).kind = "init" THEN NoResult ELSE result
  /\ UNCHANGED <<owner, runner, pc, run, refused, memory, up, sample, last>>

\* The sample of which the chip holds exactly row t, for its configuration.
SampleOfRow(t) ==
  LET whole(s) == [c \in 1..ArtifactOf[chip.config].chunks |->
                     [chunk |-> c, whose |-> chip.config, sample |-> s]]
  IN  IF \E s \in 1..sample : chip.inputs[t] = whole(s)
      THEN CHOOSE s \in 1..sample : chip.inputs[t] = whole(s)
      ELSE Wrong

\* Consuming row t: what follows is right if all rows so far are of one sample.
Consumed(t) ==
  IF t = 0 \/ (t \in Rows /\ chip.of[t - 1] = SampleOfRow(t))
  THEN SampleOfRow(t) ELSE Wrong

\* A DATA row has a frame for each spike, a VOLTAGE row for every lane.
Configured == ArtifactOf[chip.config]
Fired ==
  IF Configured.kind = "data" THEN SUBSET Configured.elements
  ELSE {Configured.elements}
WorkFrames(row, elements, of) ==
  {[kind |-> "work", row |-> row, elem |-> e, lane |-> lane, of |-> of] :
     e \in elements, lane \in Configured.lanes}
EarlyFrames ==
  IF Early
  THEN UNION {WorkFrames(row, Configured.elements, Wrong) :
                row \in chip.time + 1..T}
  ELSE {}

\* One timestep: consume the row of this timestep, put out the row that
\* entered the pipeline Latency - 1 timesteps ago.
ChipSteps ==
  /\ chip.busy
  /\ chip.left > 0
  /\ chip.out = {}
  /\ LET t == chip.time
         of == IF t \in Rows THEN [chip.of EXCEPT ![t] = Consumed(t)] ELSE chip.of
         row == t + 1 - Configured.latency
     IN  \E fired \in Fired, early \in {{}} \union {{f} : f \in EarlyFrames} :
           IF row \in Rows
           THEN /\ chip' = [chip EXCEPT !.left = @ - 1, !.time = t + 1, !.of = of,
                              !.out = WorkFrames(row, fired, of[row]) \union early]
                /\ result' = [result EXCEPT ![row] =
                                [of |-> of[row], fired |-> fired]]
           ELSE /\ chip' = [chip EXCEPT !.left = @ - 1, !.time = t + 1, !.of = of,
                              !.out = early]
                /\ UNCHANGED result
  /\ UNCHANGED <<owner, runner, pc, run, refused, memory, down, up, sample, last>>

ChipEmits ==
  /\ chip.busy
  /\ Len(up) < UpDepth
  /\ \/ \E frame \in chip.out :
          /\ up' = Append(up, frame)
          /\ chip' = [chip EXCEPT !.out = @ \ {frame}]
     \/ /\ chip.out = {}
        /\ chip.left = 0
        /\ up' = Append(up, [kind |-> "complete"])
        /\ chip' = [chip EXCEPT !.busy = FALSE]
  /\ UNCHANGED <<owner, runner, pc, run, refused, memory, down, result, sample,
                 last>>

\* The board clears the chip and the FIFOs while no healthy session uses them.
Recover ==
  /\ Idle
  /\ owner # None => runner[owner].faulted
  /\ down' = <<>>
  /\ up' = <<>>
  /\ chip' = IdleChip
  /\ UNCHANGED <<owner, runner, pc, run, refused, memory, result, sample, last>>

(***************************************************************************)
(* The specification.                                                      *)
(***************************************************************************)

ApiCall(x) ==
  \/ \E op \in {"deploy", "release"} : RejectBusy(op, x)
  \/ FailDeploy(x)
  \/ Deploy(x)
  \/ Release(x)
  \/ RejectSample(x)
  \/ \E inPlace \in BOOLEAN : BeginSample(x, inPlace)

SampleStep ==
  \/ SendChunk
  \/ EncodeFails
  \/ SubmitTimestep
  \/ CompletePipeline
  \/ ResetCompletes
  \/ SyncCompletes
  \/ BarrierFails

Next ==
  \/ \E x \in Runners : ApiCall(x)
  \/ SampleStep
  \/ HandleFrame
  \/ ChipTakes \/ ChipSteps \/ ChipEmits
  \/ Recover

Spec == Init /\ [][Next]_vars
=============================================================================
