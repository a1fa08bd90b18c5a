---------------------------- MODULE RunnerProofs ----------------------------
(***************************************************************************)
(* The runner for every artifact, every T, every set of runners and any    *)
(* behaviour of the chip: who owns it, and which input rows are intact.    *)
(* When callers recover the platform before they deploy (session.h), also  *)
(* that a sample which returns OK is right.                                *)
(***************************************************************************)
EXTENDS RunnerProperties, SequenceTheorems, TLAPS

\* The members that decide, and the arguments and locals of run_sample.  The
\* interrupt may store into rows below `submitted', so what `submitted' is at
\* each place of the loop is the heart of the matter.
RunnerTypes ==
  /\ runner \in [Runners -> [deployed : BOOLEAN, faulted : BOOLEAN, completed : Nat]]
  /\ owner \in Runners \union {None}
  /\ pc \in {"idle", "resetting", "sending", "sent", "syncing", "completing"}
  /\ run \in RunRecord
  /\ input \in [Rows -> BOOLEAN]

RowsSubmitted ==
  /\ pc \in {"resetting", "sending", "sent"} => run.submitted = run.timestep
  /\ pc \in {"syncing", "completing"} => run.submitted = run.timestep + 1
  /\ pc = "syncing" => \/ run.target = run.timestep + 1
                       \/ run.timestep = T - 1 /\ run.target >= T
  /\ pc = "completing" => run.timestep = T - 1

RunnerInvariant ==
  RunnerTypes /\ RowsSubmitted /\ OwnerIsDeployed /\ UnsentInputIntact

\* The last synchronisation is never short of the sample's timesteps.
LEMMA PipelineIsLonger ==
  ASSUME NEW x \in Runners
  PROVE  CompletionSync(x) \in Nat /\ CompletionSync(x) >= T
BY RunnerAssumption DEF CompletionSync, IsArtifact

\* A runner before its first deployment.
LEMMA ClearedRunnerType ==
  /\ ClearedRunner \in [deployed : BOOLEAN, faulted : BOOLEAN, completed : Nat]
  /\ ~ClearedRunner.deployed
BY DEF ClearedRunner

\* Before the first call nothing is deployed.
LEMMA InitInvariant == Init => RunnerInvariant
<1> SUFFICES ASSUME Init PROVE RunnerInvariant
  OBVIOUS
<1>1. RunnerTypes
  <2>1. run \in RunRecord
    BY RunnerAssumption DEF Init, RunRecord, Rows
  <2> QED
    BY <2>1, ClearedRunnerType DEF Init, RunnerTypes
<1>2. OwnerIsDeployed
  BY RunnerAssumption, ClearedRunnerType DEF Init, OwnerIsDeployed
<1> QED
  BY <1>1, <1>2 DEF Init, RunnerInvariant, RowsSubmitted, UnsentInputIntact

\* Calls that return at once; no sample is running before or after them.
LEMMA DeploymentCalls ==
  ASSUME RunnerInvariant, NEW x \in Runners,
         FailDeploy(x) \/ Deploy(x) \/ Release(x)
  PROVE  RunnerInvariant'
<1> USE DEF RunnerInvariant
<1>1. /\ pc' = "idle" /\ UNCHANGED <<run, input>>
      /\ owner \in {None, x}
  BY DEF FailDeploy, Deploy, Release, Idle, memory
<1>2. CASE FailDeploy(x) \/ Release(x)
  <2>1. owner' = None /\ runner' = [runner EXCEPT ![x] = ClearedRunner]
    BY <1>2 DEF FailDeploy, Release
  <2>2. OwnerIsDeployed'
    BY <1>1, <2>1, RunnerAssumption, ClearedRunnerType
       DEF OwnerIsDeployed, RunnerTypes
  <2>3. RunnerTypes'
    BY <1>1, <2>1, ClearedRunnerType DEF RunnerTypes
  <2> QED
    BY <1>1, <2>2, <2>3 DEF RowsSubmitted, UnsentInputIntact
<1>3. CASE Deploy(x)
  <2> DEFINE deployed == [ClearedRunner EXCEPT !.deployed = TRUE]
  <2>1. owner' = x /\ runner' = [runner EXCEPT ![x] = deployed]
    BY <1>3 DEF Deploy
  <2>2. /\ deployed \in [deployed : BOOLEAN, faulted : BOOLEAN, completed : Nat]
        /\ deployed.deployed
    BY DEF ClearedRunner
  <2> HIDE DEF deployed
  <2>3. OwnerIsDeployed'
    BY <1>1, <2>1, <2>2, RunnerAssumption DEF OwnerIsDeployed, RunnerTypes
  <2>4. RunnerTypes'
    BY <1>1, <2>1, <2>2 DEF RunnerTypes
  <2> QED
    BY <1>1, <2>3, <2>4 DEF RowsSubmitted, UnsentInputIntact
<1> QED
  BY <1>2, <1>3

\* A sample begins with every input row intact and none submitted.
LEMMA SampleBegins ==
  ASSUME RunnerInvariant, NEW x \in Runners, NEW inPlace \in BOOLEAN,
         BeginSample(x, inPlace)
  PROVE  RunnerInvariant'
<1> USE DEF RunnerInvariant
<1>1. /\ UNCHANGED <<owner, runner>>
      /\ run' = [runner |-> x, inPlace |-> inPlace, timestep |-> 0, chunk |-> 0,
                 submitted |-> 0, target |-> 0]
      /\ input' = [t \in Rows |-> TRUE]
      /\ pc' \in {"idle", "resetting"}
  BY DEF BeginSample, Idle
<1>2. RunnerTypes'
  <2>1. run' \in RunRecord
    BY <1>1, RunnerAssumption DEF RunRecord, Rows
  <2> QED
    BY <1>1, <2>1 DEF RunnerTypes
<1>3. RowsSubmitted'
  BY <1>1 DEF RowsSubmitted
<1>4. OwnerIsDeployed'
  BY <1>1 DEF OwnerIsDeployed
<1>5. UnsentInputIntact'
  BY <1>1 DEF UnsentInputIntact
<1> QED
  BY <1>2, <1>3, <1>4, <1>5

\* Sending a row touches no row; submitting it gives up that row alone.
LEMMA RowIsSent ==
  ASSUME RunnerInvariant,
         SendChunk \/ EncodeFails \/ SubmitTimestep \/ CompletePipeline
  PROVE  RunnerInvariant'
<1> USE DEF RunnerInvariant
<1>1. UNCHANGED <<owner, runner>>
  BY DEF SendChunk, EncodeFails, SubmitTimestep, CompletePipeline
<1>2. OwnerIsDeployed'
  BY <1>1 DEF OwnerIsDeployed
<1>3. CASE SendChunk
  <2>1. /\ pc = "sending" /\ pc' \in {"sending", "sent"}
        /\ run' = [run EXCEPT !.chunk = @ + 1] /\ UNCHANGED input
    BY <1>3 DEF SendChunk, memory
  <2>2. /\ run' \in RunRecord /\ run'.timestep = run.timestep
        /\ run'.submitted = run.submitted
    BY <2>1 DEF RunnerTypes, RunRecord
  <2>3. RunnerTypes'
    BY <1>1, <2>1, <2>2 DEF RunnerTypes
  <2> QED
    BY <1>2, <2>1, <2>2, <2>3 DEF RowsSubmitted, UnsentInputIntact
<1>4. CASE EncodeFails
  <2>1. pc' = "idle" /\ UNCHANGED <<run, input>>
    BY <1>4 DEF EncodeFails, memory
  <2> QED
    BY <1>1, <1>2, <2>1 DEF RunnerTypes, RowsSubmitted, UnsentInputIntact
<1>5. CASE SubmitTimestep
  <2>1. /\ pc = "sent" /\ pc' = "syncing"
        /\ run' = [run EXCEPT !.submitted = run.timestep + 1,
                              !.target = run.timestep + 1]
        /\ input' = [input EXCEPT ![run.timestep] = @ /\ ~run.inPlace]
    BY <1>5 DEF SubmitTimestep, SyncUntil
  <2>2. /\ run.timestep \in 0..T - 1 /\ T \in Nat /\ run.inPlace \in BOOLEAN
    BY RunnerAssumption DEF RunnerTypes, RunRecord, Rows
  <2>3. /\ run' \in RunRecord /\ run'.timestep = run.timestep
        /\ run'.submitted = run.timestep + 1 /\ run'.target = run.timestep + 1
    <3>1. run.timestep + 1 \in 0..T /\ run.timestep + 1 \in Nat
      BY <2>2
    <3> QED
      BY <2>1, <3>1 DEF RunnerTypes, RunRecord
  <2>4. RunnerTypes'
    BY <1>1, <2>1, <2>2, <2>3 DEF RunnerTypes
  <2>5. RowsSubmitted'
    BY <2>1, <2>3 DEF RowsSubmitted
  <2>6. UnsentInputIntact'
    <3>1. \A row \in Rows : row > run.timestep => input[row]
      BY <2>1 DEF UnsentInputIntact
    <3>2. \A row \in Rows : row > run.timestep => input'[row] = input[row]
      BY <2>1, <2>2 DEF RunnerTypes, Rows
    <3> QED
      BY <2>1, <2>3, <3>1, <3>2 DEF UnsentInputIntact
  <2> QED
    BY <1>2, <2>4, <2>5, <2>6
<1>6. CASE CompletePipeline
  <2>1. /\ pc = "completing" /\ pc' = "syncing"
        /\ run' = [run EXCEPT !.target = CompletionSync(run.runner)]
        /\ UNCHANGED input
    BY <1>6 DEF CompletePipeline, SyncUntil, memory
  <2>2. run.timestep = T - 1 /\ run.submitted = run.timestep + 1
    BY <2>1 DEF RowsSubmitted
  <2>3. run.runner \in Runners
    BY DEF RunnerTypes, RunRecord
  <2>4. CompletionSync(run.runner) \in Nat /\ CompletionSync(run.runner) >= T
    BY <2>3, PipelineIsLonger
  <2>5. /\ run' \in RunRecord /\ run'.timestep = run.timestep
        /\ run'.submitted = run.submitted /\ run'.target >= T
    BY <2>1, <2>4 DEF RunnerTypes, RunRecord
  <2>6. RunnerTypes'
    BY <1>1, <2>1, <2>5 DEF RunnerTypes
  <2>7. RowsSubmitted'
    BY <2>1, <2>2, <2>5 DEF RowsSubmitted
  <2>8. UnsentInputIntact'
    BY <2>1, <2>5 DEF UnsentInputIntact
  <2> QED
    BY <1>2, <2>6, <2>7, <2>8
<1> QED
  BY <1>3, <1>4, <1>5, <1>6

\* The interrupt stores only into rows that were submitted.
LEMMA FrameIsHandled ==
  ASSUME RunnerInvariant, HandleFrame
  PROVE  RunnerInvariant'
<1> USE DEF RunnerInvariant
<1>1. UNCHANGED <<owner, runner, pc, run>> /\ pc \in {"resetting", "syncing"}
  BY DEF HandleFrame, Waiting
<1>2. OwnerIsDeployed' /\ RowsSubmitted'
  BY <1>1 DEF OwnerIsDeployed, RowsSubmitted
<1>3. CASE UNCHANGED input
  BY <1>1, <1>2, <1>3 DEF RunnerTypes, UnsentInputIntact
<1>4. CASE input' # input
  <2> DEFINE frame == Head(up)
  <2>1. pc = "syncing" /\ ~Refuses(frame) /\ Store(frame)
    BY <1>1, <1>4 DEF HandleFrame, memory
  <2>2. /\ frame.row \in Rows /\ ~(frame.row >= run.submitted)
        /\ input' = [input EXCEPT ![frame.row] = @ /\ ~run.inPlace]
    BY <2>1 DEF Refuses, Store
  <2>3. run.timestep \in 0..T - 1 /\ run.submitted = run.timestep + 1
        /\ run.inPlace \in BOOLEAN /\ T \in Nat
    BY <2>1, RunnerAssumption DEF RunnerTypes, RunRecord, Rows, RowsSubmitted
  <2> HIDE DEF frame
  <2>4. RunnerTypes'
    BY <1>1, <2>2, <2>3 DEF RunnerTypes
  <2>5. UnsentInputIntact'
    <3>1. \A row \in Rows : row > run.timestep => row # frame.row
      BY <2>2, <2>3 DEF Rows
    <3>2. \A row \in Rows : row > run.timestep => input'[row] = input[row]
      BY <2>2, <3>1 DEF RunnerTypes
    <3>3. \A row \in Rows : row > run.timestep => input[row]
      BY <2>1 DEF UnsentInputIntact
    <3> QED
      BY <1>1, <2>1, <3>2, <3>3 DEF UnsentInputIntact
  <2> QED
    BY <1>2, <2>4, <2>5
<1> QED
  BY <1>3, <1>4

\* A barrier ends: the next row is begun, or the sample is over.
LEMMA BarrierEnds ==
  ASSUME RunnerInvariant, ResetCompletes \/ SyncCompletes \/ BarrierFails
  PROVE  RunnerInvariant'
<1> USE DEF RunnerInvariant
<1>1. UNCHANGED <<owner, input>> /\ run.runner \in Runners /\ run.target \in Nat
  BY DEF ResetCompletes, SyncCompletes, BarrierFails, memory, RunnerTypes, RunRecord
<1>2. \/ runner' = [runner EXCEPT ![run.runner].completed = 0]
      \/ runner' = [runner EXCEPT ![run.runner].faulted = TRUE]
      \/ runner' = [runner EXCEPT ![run.runner].completed = run.target]
  BY DEF ResetCompletes, SyncCompletes, BarrierFails
<1>3. /\ runner' \in [Runners -> [deployed : BOOLEAN, faulted : BOOLEAN,
                                  completed : Nat]]
      /\ \A x \in Runners : runner'[x].deployed = runner[x].deployed
  <2> DEFINE Members == [deployed : BOOLEAN, faulted : BOOLEAN, completed : Nat]
             own == runner[run.runner]
  <2>1. runner \in [Runners -> Members] /\ own \in Members
    BY <1>1 DEF RunnerTypes
  <2>2. PICK new \in Members :
          /\ new.deployed = own.deployed
          /\ runner' = [runner EXCEPT ![run.runner] = new]
    <3>1. CASE runner' = [runner EXCEPT ![run.runner].completed = 0]
      <4>1. [own EXCEPT !.completed = 0] \in Members
        BY <2>1
      <4> WITNESS [own EXCEPT !.completed = 0] \in Members
      <4> QED
        BY <2>1, <3>1
    <3>2. CASE runner' = [runner EXCEPT ![run.runner].faulted = TRUE]
      <4>1. [own EXCEPT !.faulted = TRUE] \in Members
        BY <2>1
      <4> WITNESS [own EXCEPT !.faulted = TRUE] \in Members
      <4> QED
        BY <2>1, <3>2
    <3>3. CASE runner' = [runner EXCEPT ![run.runner].completed = run.target]
      <4>1. [own EXCEPT !.completed = run.target] \in Members
        BY <1>1, <2>1
      <4> WITNESS [own EXCEPT !.completed = run.target] \in Members
      <4> QED
        BY <2>1, <3>3
    <3> QED
      BY <1>2, <3>1, <3>2, <3>3
  <2> HIDE DEF Members
  <2> QED
    BY <1>1, <2>1, <2>2 DEF Members
<1>4. OwnerIsDeployed'
  BY <1>1, <1>3 DEF OwnerIsDeployed
<1>5. CASE pc' = "idle" /\ UNCHANGED run
  BY <1>1, <1>3, <1>4, <1>5 DEF RunnerTypes, RowsSubmitted, UnsentInputIntact
<1>6. CASE ResetCompletes
  <2>1. pc = "resetting" /\ pc' = "sending" /\ UNCHANGED run
    BY <1>6 DEF ResetCompletes
  <2> QED
    BY <1>1, <1>3, <1>4, <2>1 DEF RunnerTypes, RowsSubmitted, UnsentInputIntact
<1>7. CASE BarrierFails
  BY <1>5, <1>7 DEF BarrierFails, EndSample
<1>8. CASE SyncCompletes /\ pc' # "idle"
  <2>1. /\ pc = "syncing"
        /\ \/ run.target < T /\ run' = NextTimestep /\ pc' = "sending"
           \/ run.target = T /\ pc' = "completing" /\ UNCHANGED run
    BY <1>8 DEF SyncCompletes, EndSample
  <2>2. /\ run.submitted = run.timestep + 1
        /\ \/ run.target = run.timestep + 1
           \/ run.timestep = T - 1 /\ run.target >= T
        /\ run.timestep \in 0..T - 1 /\ T \in Nat
    BY <2>1, RunnerAssumption DEF RowsSubmitted, RunnerTypes, RunRecord, Rows
  <2>3. CASE run.target < T /\ run' = NextTimestep /\ pc' = "sending"
    <3>1. run.timestep + 1 \in 0..T - 1
      BY <1>1, <2>2, <2>3
    <3>2. /\ run' \in RunRecord /\ run'.timestep = run.timestep + 1
          /\ run'.submitted = run.submitted
      BY <2>3, <3>1 DEF NextTimestep, RunnerTypes, RunRecord, Rows
    <3>3. RunnerTypes'
      BY <1>1, <1>3, <2>3, <3>2 DEF RunnerTypes
    <3>4. RowsSubmitted'
      BY <2>2, <2>3, <3>2 DEF RowsSubmitted
    <3>5. UnsentInputIntact'
      <4>1. \A row \in Rows : row >= run.timestep + 1 => input[row]
        BY <2>1, <2>2 DEF UnsentInputIntact, Rows
      <4> QED
        BY <1>1, <2>2, <2>3, <3>2, <4>1 DEF UnsentInputIntact, Rows
    <3> QED
      BY <1>4, <3>3, <3>4, <3>5
  <2>4. CASE run.target = T /\ pc' = "completing" /\ UNCHANGED run
    <3>1. run.timestep = T - 1
      BY <2>2, <2>4
    <3> QED
      BY <1>1, <1>3, <1>4, <2>1, <2>2, <2>4, <3>1
         DEF RunnerTypes, RowsSubmitted, UnsentInputIntact
  <2> QED
    BY <2>1, <2>3, <2>4
<1>9. CASE SyncCompletes /\ pc' = "idle"
  BY <1>5, <1>9 DEF SyncCompletes, EndSample
<1> QED
  BY <1>6, <1>7, <1>8, <1>9

\* Every step of the program and of the chip keeps the invariant.
LEMMA NextInvariant == RunnerInvariant /\ [Next]_vars => RunnerInvariant'
<1> SUFFICES ASSUME RunnerInvariant, [Next]_vars PROVE RunnerInvariant'
  OBVIOUS
<1> DEFINE core == <<owner, runner, pc, run, input>>
<1>1. CASE UNCHANGED core
  BY <1>1 DEF RunnerInvariant, RunnerTypes, RowsSubmitted, OwnerIsDeployed,
     UnsentInputIntact
<1>2. CASE UNCHANGED vars
  BY <1>1, <1>2 DEF vars, memory
<1>3. ASSUME NEW x \in Runners, ApiCall(x) PROVE RunnerInvariant'
  <2>1. CASE \/ \E op \in {"deploy", "release"} : RejectBusy(op, x)
             \/ RejectSample(x)
    BY <1>1, <2>1 DEF RejectBusy, RejectSample, memory
  <2>2. CASE FailDeploy(x) \/ Deploy(x) \/ Release(x)
    BY <2>2, DeploymentCalls
  <2>3. CASE \E inPlace \in BOOLEAN : BeginSample(x, inPlace)
    BY <2>3, SampleBegins
  <2> QED
    BY <1>3, <2>1, <2>2, <2>3 DEF ApiCall
<1>4. CASE SampleStep
  BY <1>4, RowIsSent, BarrierEnds DEF SampleStep
<1>5. CASE HandleFrame
  BY <1>5, FrameIsHandled
<1>6. CASE ChipTakes \/ ChipSteps \/ ChipEmits \/ Recover
  BY <1>1, <1>6 DEF ChipTakes, ChipSteps, ChipEmits, Recover, memory
<1> QED
  BY <1>2, <1>3, <1>4, <1>5, <1>6 DEF Next

\* The runner's invariant holds throughout.
LEMMA RunnerInvariantHolds == Spec => []RunnerInvariant
BY InitInvariant, NextInvariant, PTL DEF Spec

\* A runner is deployed exactly while its session owns the chip
\* (rvrt_paicore_runner_deploy, _detach_owned_session), for every set of
\* runners and whatever the chip does.
THEOREM OwnershipIsDeployment == Spec => []OwnerIsDeployed
<1>1. RunnerInvariant => OwnerIsDeployed
  BY DEF RunnerInvariant
<1> QED
  BY <1>1, RunnerInvariantHolds, PTL

\* In a sample in place no output, however late or early the chip stamps it,
\* overwrites an input row that is still to be sent (runner_validate_frame_timestep,
\* submitted_timesteps), for every T and every artifact.
THEOREM InputSurvives == Spec => []UnsentInputIntact
<1>1. RunnerInvariant => UnsentInputIntact
  BY DEF RunnerInvariant
<1> QED
  BY <1>1, RunnerInvariantHolds, PTL

(***************************************************************************)
(* What is on its way.                                                     *)
(***************************************************************************)

CompleteFrame == [kind |-> "complete"]
InitFrame == [kind |-> "init"]
Mine == ArtifactOf[run.runner]
Completed == runner[run.runner].completed
SyncFrame == [kind |-> "sync", steps |-> run.target - Completed]

\* The chunks of a row of this sample, as the chip keeps them and on the way.
Chunk(c) == [chunk |-> c, whose |-> run.runner, sample |-> sample]
Part(n) == [c \in 1..n |-> Chunk(c)]
InputFrame(c) ==
  [kind |-> "input", row |-> run.timestep, chunk |-> c, whose |-> run.runner,
   sample |-> sample]

\* The frame of a lane of this sample's output.
Work(row, e, lane) ==
  [kind |-> "work", row |-> row, elem |-> e, lane |-> lane, of |-> sample]
InFlight == {up[i] : i \in 1..Len(up)} \union chip.out

(***************************************************************************)
(* Types of what the chip and the interrupt touch.                         *)
(***************************************************************************)

ChunkRecord == [chunk : Nat, whose : Runners, sample : Int]
DownFrame ==
  [kind : {"config"}, whose : Runners \union {None}] \union {InitFrame}
    \union [kind : {"sync"}, steps : Nat]
    \union [kind : {"input"}, row : Rows, chunk : Nat, whose : Runners,
            sample : Int]
UpFrame ==
  [kind : {"work"}, row : Int, elem : Mine.elements, lane : Mine.lanes, of : Int]

ChipTypes ==
  /\ down \in Seq(DownFrame)
  /\ chip = [config |-> chip.config, inputs |-> chip.inputs,
             time |-> chip.time, busy |-> chip.busy, left |-> chip.left,
             of |-> chip.of, out |-> chip.out]
  /\ chip.inputs \in [Rows -> Seq(ChunkRecord)]
  /\ chip.of \in [Rows -> Int]
  /\ chip.busy \in BOOLEAN /\ chip.left \in Nat /\ chip.time \in Nat
  /\ ~chip.busy => chip.left = 0 /\ chip.out = {}
  /\ result = [row \in Rows |-> result[row]]
  /\ sample \in 0..MaxSamples

Tensor(x) ==
  [Rows -> [ArtifactOf[x].elements -> [ArtifactOf[x].lanes -> LaneValues]]]
Masks(x) == [Rows -> [ArtifactOf[x].elements -> SUBSET ArtifactOf[x].lanes]]

MemoryTypes ==
  /\ output \in Tensor(run.runner)
  /\ refused \in BOOLEAN
  /\ mask = [x \in Runners |-> mask[x]]
  /\ \A x \in Runners : mask[x] \in Masks(x)
  /\ \A x \in Runners : runner[x].completed <= CompletionSync(x)
  /\ run.chunk <= Mine.chunks

(***************************************************************************)
(* Between the barriers the link is quiet; a barrier's request is the last *)
(* frame down, and its COMPLETE the last frame up.                         *)
(***************************************************************************)

Healthy == owner # None /\ ~runner[owner].faulted
RunnerOwns == pc # "idle" => owner = run.runner /\ Healthy /\ sample >= 1

\* Once the chip has taken what is on the way, it is configured for x.
ConfigComes(x) ==
  \/ /\ chip.config = x
     /\ \A i \in 1..Len(down) : down[i].kind # "config"
  \/ \E i \in 1..Len(down) :
       /\ down[i] = [kind |-> "config", whose |-> x]
       /\ \A j \in i + 1..Len(down) : down[j].kind # "config"

Resting ==
  /\ pc \in {"sending", "sent", "completing"} \/ (pc = "idle" /\ Healthy)
       => Quiet
  /\ pc = "idle" /\ Healthy => ConfigComes(owner)

Asked(frame) ==
  /\ up = <<>> /\ ~chip.busy
  /\ down # <<>> /\ down[Len(down)] = frame
  /\ \A i \in 1..Len(down) - 1 : ~IsControl(down[i])
Answering ==
  /\ chip.busy /\ down = <<>>
  /\ \A i \in 1..Len(up) : up[i].kind = "work"
Answered ==
  /\ ~chip.busy /\ down = <<>>
  /\ up # <<>> /\ up[Len(up)] = CompleteFrame
  /\ \A i \in 1..Len(up) - 1 : up[i].kind = "work"

\* A chip that has taken INIT.
Cleared ==
  /\ chip.config = run.runner /\ chip.inputs = [t \in Rows |-> <<>>]
  /\ chip.time = 0 /\ chip.left = 0 /\ chip.out = {}
  /\ result = NoResult
Resetting ==
  pc = "resetting" =>
    /\ ~refused /\ run.timestep = 0 /\ run.chunk = 0
    /\ Kind = "voltage" => mask[run.runner] = NothingReceived(run.runner)
    /\ \/ Asked(InitFrame) /\ ConfigComes(run.runner)
       \/ Answering /\ up = <<>> /\ Cleared
       \/ Answered /\ up = <<CompleteFrame>> /\ Cleared

(***************************************************************************)
(* How far the sample is.                                                  *)
(***************************************************************************)

\* Earlier rows are on the chip, later ones are not, and of the current row
\* some chunks are there and the others on the way, each once and in order.
Arrives(n) ==
  /\ chip.inputs[run.timestep] = Part(n)
  /\ Len(down) = run.chunk - n
                 + (IF pc = "syncing" /\ Asked(SyncFrame) THEN 1 ELSE 0)
  /\ \A i \in 1..run.chunk - n : down[i] = InputFrame(n + i)
InputsArrive ==
  /\ chip.config = run.runner
  /\ pc = "sending" => run.chunk < Mine.chunks
  /\ pc # "sending" => run.chunk = Mine.chunks
  /\ \A row \in Rows :
       /\ row < run.timestep => chip.inputs[row] = Part(Mine.chunks)
       /\ row > run.timestep => chip.inputs[row] = <<>>
  /\ \E n \in 0..run.chunk : Arrives(n)

\* The chip's clock and the runner's.
Clock ==
  /\ pc \in {"sending", "sent"} => Completed = run.timestep /\ chip.time = Completed
  /\ pc = "completing" =>
       Completed = T /\ chip.time = T /\ CompletionSync(run.runner) > T
  /\ pc = "syncing" =>
       /\ \/ Completed = run.timestep /\ run.target = run.timestep + 1
          \/ /\ Completed = T /\ run.timestep = T - 1
             /\ run.target = CompletionSync(run.runner)
       /\ \/ Asked(SyncFrame) /\ chip.time = Completed
          \/ (Answering \/ Answered) /\ chip.time + chip.left = run.target
             /\ chip.time >= Completed

\* Rows are computed when they have passed the pipeline, from this sample.
Computed ==
  /\ \A row \in Rows : row < chip.time => chip.of[row] = sample
  /\ \A row \in Rows :
       IF row + Mine.latency <= chip.time
       THEN result[row].of = sample /\ result[row].fired \subseteq Mine.elements
       ELSE result[row] = [of |-> Wrong, fired |-> {}]

\* A frame on its way is of a row that was not submitted, or is awaited: its
\* element has fired, and no other frame says so.
Awaited(frame) ==
  /\ frame.row \in Rows
  /\ frame = Work(frame.row, frame.elem, frame.lane)
  /\ frame.elem \in result[frame.row].fired
FramesAreDue ==
  /\ up \in Seq(UpFrame \union {CompleteFrame})
  /\ chip.out \subseteq UpFrame
  /\ \A frame \in InFlight :
       frame.kind = "work" => frame.row >= run.submitted \/ Awaited(frame)
  /\ \A i, j \in 1..Len(up) :
       up[i] = up[j] /\ up[i].kind = "work" => i = j \/ up[i].row >= run.submitted
  /\ \A i \in 1..Len(up) : up[i] \in chip.out => up[i].row >= run.submitted

\* The lanes that have fired and are not on their way have been stored.
Got(row, e) ==
  {lane \in Lanes : e \in result[row].fired /\ Work(row, e, lane) \notin InFlight}
MaskOf(row, e) == IF Got(row, e) = Lanes THEN {} ELSE Got(row, e)
Assembled ==
  ~refused =>
    /\ \A row \in Rows : row < run.submitted =>
         \A e \in Elements, lane \in Lanes :
           output[row][e][lane] = IF lane \in Got(row, e) THEN sample ELSE Zero
    /\ Kind = "voltage" =>
         \A row \in Rows, e \in Elements :
           mask[run.runner][row][e] = MaskOf(row, e)

Sampling == pc \in {"sending", "sent", "syncing", "completing"}
Progress ==
  /\ pc \in {"sending", "sent", "completing"} => ~refused
  /\ Sampling => InputsArrive /\ Clock /\ Computed /\ FramesAreDue /\ Assembled

Earned ==
  /\ pc = "idle" /\ last.op = "run" /\ last.status = "OK" => Healthy
  /\ SampleIsRight

LinkInvariant ==
  /\ ChipTypes /\ MemoryTypes /\ RunnerOwns
  /\ Resting /\ Resetting /\ Progress /\ Earned
SampleInvariant == RunnerInvariant /\ LinkInvariant

(***************************************************************************)
(* Constants and arguments.                                                *)
(***************************************************************************)

LEMMA ArtifactFacts ==
  ASSUME NEW x \in Runners
  PROVE  /\ x # None
         /\ ArtifactOf[x].kind \in {"data", "voltage"}
         /\ ArtifactOf[x].latency \in Nat \ {0}
         /\ ArtifactOf[x].chunks \in Nat \ {0}
         /\ ArtifactOf[x].lanes # {}
         /\ ArtifactOf[x].kind = "data" =>
              \E lane \in ArtifactOf[x].lanes : ArtifactOf[x].lanes = {lane}
         /\ CompletionSync(x) = ArtifactOf[x].latency + T - 1
         /\ CompletionSync(x) \in Nat /\ CompletionSync(x) >= T
         /\ T \in Nat \ {0}
BY RunnerAssumption, PipelineIsLonger DEF IsArtifact, CompletionSync

LEMMA RunFacts ==
  ASSUME RunnerInvariant
  PROVE  /\ run.runner \in Runners /\ run.inPlace \in BOOLEAN
         /\ run.timestep \in 0..T - 1 /\ run.timestep \in Rows
         /\ run.chunk \in Nat /\ run.submitted \in 0..T /\ run.target \in Nat
         /\ runner \in [Runners -> [deployed : BOOLEAN, faulted : BOOLEAN,
                                    completed : Nat]]
         /\ owner \in Runners \union {None}
         /\ pc \in {"idle", "resetting", "sending", "sent", "syncing", "completing"}
BY DEF RunnerInvariant, RunnerTypes, RunRecord, Rows

(***************************************************************************)
(* The chip's side of the link, whatever is asked of it.                   *)
(***************************************************************************)

\* What the chip does with the frame it takes.
LEMMA TakesFrame ==
  ASSUME ChipTypes, ChipTakes
  PROVE  /\ ~chip.busy /\ down # <<>> /\ Len(down) \in Nat /\ Len(down) > 0
         /\ down' = Tail(down) /\ down' \in Seq(DownFrame)
         /\ Len(down') = Len(down) - 1
         /\ \A i \in 1..Len(down') : down'[i] = down[i + 1]
         /\ Head(down) = down[1] /\ down[1] \in DownFrame
         /\ \/ /\ down[1].kind = "config"
               /\ chip' = [chip EXCEPT !.config = down[1].whose]
               /\ result' = result
            \/ /\ down[1].kind = "input"
               /\ down[1] \in [kind : {"input"}, row : Rows, chunk : Nat,
                               whose : Runners, sample : Int]
               /\ chip' = [chip EXCEPT !.inputs[down[1].row] = Append(@,
                             [chunk |-> down[1].chunk, whose |-> down[1].whose,
                              sample |-> down[1].sample])]
               /\ result' = result
            \/ /\ down[1] = InitFrame
               /\ chip' = [IdleChip EXCEPT !.config = chip.config, !.busy = TRUE]
               /\ result' = NoResult
            \/ /\ down[1].kind = "sync" /\ down[1].steps \in Nat
               /\ chip' = [chip EXCEPT !.busy = TRUE, !.left = down[1].steps]
               /\ result' = result
<1>1. /\ ~chip.busy /\ down # <<>> /\ down' = Tail(down) /\ down \in Seq(DownFrame)
  BY DEF ChipTypes, ChipTakes
<1>2. /\ Len(down) \in Nat /\ Len(down) > 0
      /\ down' \in Seq(DownFrame) /\ Len(down') = Len(down) - 1
      /\ \A i \in 1..Len(down') : down'[i] = down[i + 1]
      /\ Head(down) = down[1] /\ down[1] \in DownFrame
  BY <1>1, HeadTailProperties, EmptySeq, ElementOfSeq
<1> DEFINE frame == Head(down)
<1>3. /\ chip' =
           CASE frame.kind = "config" -> [chip EXCEPT !.config = frame.whose]
             [] frame.kind = "input" ->
                  [chip EXCEPT !.inputs[frame.row] = Append(@,
                     [chunk |-> frame.chunk, whose |-> frame.whose,
                      sample |-> frame.sample])]
             [] frame.kind = "init" ->
                  [IdleChip EXCEPT !.config = chip.config, !.busy = TRUE]
             [] frame.kind = "sync" ->
                  [chip EXCEPT !.busy = TRUE, !.left = frame.steps]
      /\ result' = IF frame.kind = "init" THEN NoResult ELSE result
  BY DEF ChipTakes
<1>4. frame = down[1]
  BY <1>2
<1> HIDE DEF frame
<1>5. CASE frame \in [kind : {"config"}, whose : Runners \union {None}]
  <2>1. frame.kind = "config"
    BY <1>5
  <2> QED
    BY <1>1, <1>2, <1>3, <1>4, <2>1
<1>6. CASE frame = InitFrame
  <2>1. frame.kind = "init"
    BY <1>6 DEF InitFrame
  <2> QED
    BY <1>1, <1>2, <1>3, <1>4, <1>6, <2>1
<1>7. CASE frame \in [kind : {"sync"}, steps : Nat]
  <2>1. frame.kind = "sync" /\ frame.steps \in Nat
    BY <1>7
  <2> QED
    BY <1>1, <1>2, <1>3, <1>4, <2>1
<1>8. CASE frame \in [kind : {"input"}, row : Rows, chunk : Nat, whose : Runners,
                      sample : Int]
  <2>1. frame.kind = "input"
    BY <1>8
  <2> QED
    BY <1>1, <1>2, <1>3, <1>4, <1>8, <2>1
<1> QED
  BY <1>2, <1>4, <1>5, <1>6, <1>7, <1>8 DEF DownFrame

LEMMA FrameSent ==
  ASSUME ChipTypes, NEW frame, frame \in DownFrame, Send(frame)
  PROVE  /\ down' \in Seq(DownFrame) /\ down' # <<>>
         /\ Len(down) \in Nat /\ Len(down') = Len(down) + 1
         /\ down'[Len(down) + 1] = frame
         /\ \A i \in 1..Len(down) : down'[i] = down[i]
<1>1. down \in Seq(DownFrame) /\ down' = Append(down, frame)
  BY DEF ChipTypes, Send
<1> QED
  BY <1>1, AppendProperties

\* The types of the link, the chip and what it has computed.
LEMMA ChipTypesTake == ASSUME ChipTypes, ChipTakes PROVE ChipTypes'
<1>1. /\ down' \in Seq(DownFrame) /\ ~chip.busy
      /\ UNCHANGED sample
  BY TakesFrame DEF ChipTakes
<1>2. CASE /\ chip' = [chip EXCEPT !.config = down[1].whose]
           /\ result' = result
  BY <1>1, <1>2 DEF ChipTypes
<1>3. CASE /\ down[1] \in [kind : {"input"}, row : Rows, chunk : Nat,
                           whose : Runners, sample : Int]
           /\ chip' = [chip EXCEPT !.inputs[down[1].row] = Append(@,
                         [chunk |-> down[1].chunk, whose |-> down[1].whose,
                          sample |-> down[1].sample])]
           /\ result' = result
  <2> DEFINE record == [chunk |-> down[1].chunk, whose |-> down[1].whose,
                        sample |-> down[1].sample]
             row == down[1].row
  <2>1. row \in Rows /\ record \in ChunkRecord
    BY <1>3 DEF ChunkRecord
  <2>2. chip.inputs \in [Rows -> Seq(ChunkRecord)]
    BY DEF ChipTypes
  <2>3. chip' = [chip EXCEPT !.inputs[row] = Append(@, record)]
    BY <1>3
  <2> HIDE DEF row, record
  <2>4. Append(chip.inputs[row], record) \in Seq(ChunkRecord)
    BY <2>1, <2>2, AppendProperties
  <2>5. chip = [config |-> chip.config, inputs |-> chip.inputs,
                time |-> chip.time, busy |-> chip.busy, left |-> chip.left,
                of |-> chip.of, out |-> chip.out]
    BY DEF ChipTypes
  <2>6. /\ chip'.inputs = [chip.inputs EXCEPT ![row] = Append(chip.inputs[row], record)]
        /\ chip'.config = chip.config /\ chip'.time = chip.time
        /\ chip'.busy = chip.busy /\ chip'.left = chip.left
        /\ chip'.of = chip.of /\ chip'.out = chip.out
        /\ chip' = [config |-> chip'.config, inputs |-> chip'.inputs,
                    time |-> chip'.time, busy |-> chip'.busy, left |-> chip'.left,
                    of |-> chip'.of, out |-> chip'.out]
    BY <2>3, <2>5
  <2>7. chip'.inputs \in [Rows -> Seq(ChunkRecord)]
    BY <2>1, <2>2, <2>4, <2>6
  <2> QED
    BY <1>1, <1>3, <2>6, <2>7 DEF ChipTypes
<1>4. CASE /\ chip' = [IdleChip EXCEPT !.config = chip.config, !.busy = TRUE]
           /\ result' = NoResult
  <2>1. [t \in Rows |-> <<>>] \in [Rows -> Seq(ChunkRecord)]
    BY EmptySeq
  <2>2. chip' = [config |-> chip.config, inputs |-> [t \in Rows |-> <<>>], time |-> 0,
                 busy |-> TRUE, left |-> 0, of |-> [t \in Rows |-> Wrong], out |-> {}]
    BY <1>4 DEF IdleChip
  <2>3. result' = [row \in Rows |-> result'[row]]
    BY <1>4 DEF NoResult
  <2> QED
    BY <1>1, <2>1, <2>2, <2>3 DEF ChipTypes, Wrong
<1>5. CASE /\ down[1].steps \in Nat
           /\ chip' = [chip EXCEPT !.busy = TRUE, !.left = down[1].steps]
           /\ result' = result
  BY <1>1, <1>5 DEF ChipTypes
<1> QED
  BY <1>2, <1>3, <1>4, <1>5, TakesFrame

LEMMA SampleOfRowType ==
  ASSUME ChipTypes, NEW t
  PROVE  SampleOfRow(t) \in Int /\ Consumed(t) \in Int
<1>1. SampleOfRow(t) \in Int
  <2> DEFINE whole(s) == [c \in 1..ArtifactOf[chip.config].chunks |->
                            [chunk |-> c, whose |-> chip.config, sample |-> s]]
             P(s) == chip.inputs[t] = whole(s)
  <2>1. SampleOfRow(t) = IF \E s \in 1..sample : P(s)
                         THEN CHOOSE s \in 1..sample : P(s) ELSE Wrong
    BY DEF SampleOfRow
  <2> HIDE DEF P
  <2> QED
    BY <2>1 DEF Wrong, ChipTypes
<1> QED
  BY <1>1 DEF Consumed, Wrong

\* A timestep of the chip: what is consumed, and what is put out.
LEMMA StepsOnce ==
  ASSUME ChipTypes, ChipSteps
  PROVE  \E of, out, early :
           LET t == chip.time
               row == t + 1 - Configured.latency
           IN  /\ of \in [Rows -> Int]
               /\ chip.busy /\ chip.left > 0 /\ chip.out = {}
               /\ of = IF t \in Rows THEN [chip.of EXCEPT ![t] = Consumed(t)]
                       ELSE chip.of
               /\ chip' = [chip EXCEPT !.left = @ - 1, !.time = t + 1, !.of = of,
                                       !.out = out \union early]
               /\ early = {} \/ \E frame \in EarlyFrames : early = {frame}
               /\ \/ /\ row \in Rows
                     /\ \E fired \in Fired :
                          /\ out = WorkFrames(row, fired, of[row])
                          /\ result' = [result EXCEPT ![row] =
                                          [of |-> of[row], fired |-> fired]]
                  \/ row \notin Rows /\ out = {} /\ result' = result
<1> DEFINE t == chip.time
           of == IF t \in Rows THEN [chip.of EXCEPT ![t] = Consumed(t)] ELSE chip.of
           row == t + 1 - Configured.latency
<1>1. of \in [Rows -> Int]
  BY SampleOfRowType DEF ChipTypes
<1>2. PICK fired \in Fired, early \in {{}} \union {{f} : f \in EarlyFrames} :
        IF row \in Rows
        THEN /\ chip' = [chip EXCEPT !.left = @ - 1, !.time = t + 1, !.of = of,
                           !.out = WorkFrames(row, fired, of[row]) \union early]
             /\ result' = [result EXCEPT ![row] =
                             [of |-> of[row], fired |-> fired]]
        ELSE /\ chip' = [chip EXCEPT !.left = @ - 1, !.time = t + 1, !.of = of,
                           !.out = early]
             /\ UNCHANGED result
  BY DEF ChipSteps
<1>3. chip.busy /\ chip.left > 0 /\ chip.out = {}
  BY DEF ChipSteps
<1>4. early = {} \/ \E frame \in EarlyFrames : early = {frame}
  OBVIOUS
<1> DEFINE out == IF row \in Rows THEN WorkFrames(row, fired, of[row]) ELSE {}
<1>5. /\ chip' = [chip EXCEPT !.left = @ - 1, !.time = t + 1, !.of = of,
                              !.out = out \union early]
      /\ \/ /\ row \in Rows
            /\ out = WorkFrames(row, fired, of[row])
            /\ result' = [result EXCEPT ![row] = [of |-> of[row], fired |-> fired]]
         \/ row \notin Rows /\ out = {} /\ result' = result
  <2>1. CASE row \in Rows
    <3> HIDE DEF of, row
    <3> QED
      BY <1>2, <2>1
  <2>2. CASE row \notin Rows
    <3> HIDE DEF of, row
    <3>1. out \union early = early
      BY <2>2
    <3> QED
      BY <1>2, <2>2, <3>1
  <2> QED
    BY <2>1, <2>2
<1> HIDE DEF of, row, t, out
<1> WITNESS of, out, early
<1> QED
  BY <1>1, <1>3, <1>4, <1>5 DEF of, row, t

LEMMA ChipTypesStep == ASSUME ChipTypes, ChipSteps PROVE ChipTypes'
<1>1. PICK of, out, early :
        /\ of \in [Rows -> Int]
        /\ chip.busy /\ chip.left > 0
        /\ chip' = [chip EXCEPT !.left = @ - 1, !.time = chip.time + 1, !.of = of,
                                !.out = out \union early]
        /\ result' = result \/ \E row, new : result' = [result EXCEPT ![row] = new]
  BY StepsOnce
<1>2. result' = [row \in Rows |-> result'[row]]
  BY <1>1 DEF ChipTypes
<1>3. UNCHANGED <<down, sample>>
  BY DEF ChipSteps
<1>4. /\ chip'.inputs = chip.inputs /\ chip'.of = of /\ chip'.busy = chip.busy
      /\ chip'.left = chip.left - 1 /\ chip'.time = chip.time + 1
      /\ chip' = [config |-> chip'.config, inputs |-> chip'.inputs,
                  time |-> chip'.time, busy |-> chip'.busy, left |-> chip'.left,
                  of |-> chip'.of, out |-> chip'.out]
  BY <1>1 DEF ChipTypes
<1>5. chip'.left \in Nat /\ chip'.time \in Nat
  BY <1>1, <1>4 DEF ChipTypes
<1> QED
  BY <1>1, <1>2, <1>3, <1>4, <1>5 DEF ChipTypes

LEMMA ChipTypesEmit == ASSUME ChipTypes, ChipEmits PROVE ChipTypes'
<1>1. /\ UNCHANGED <<down, result, sample>>
      /\ \/ \E out : chip' = [chip EXCEPT !.out = out] /\ chip.busy
         \/ /\ chip.out = {} /\ chip.left = 0
            /\ chip' = [chip EXCEPT !.busy = FALSE]
  BY DEF ChipEmits
<1> QED
  BY <1>1 DEF ChipTypes

LEMMA ChipTypesRecover == ASSUME ChipTypes, Recover PROVE ChipTypes'
<1>1. /\ UNCHANGED <<result, sample>>
      /\ down' = <<>> /\ chip' = IdleChip
  BY DEF Recover
<1>2. [t \in Rows |-> <<>>] \in [Rows -> Seq(ChunkRecord)] /\ <<>> \in Seq(DownFrame)
  BY EmptySeq
<1> QED
  BY <1>1, <1>2 DEF ChipTypes, IdleChip, Wrong

(***************************************************************************)
(* Calls that return at once.                                              *)
(***************************************************************************)

LEMMA CallsAreRejected ==
  ASSUME SampleInvariant, NEW x \in Runners,
         \/ \E op \in {"deploy", "release"} : RejectBusy(op, x)
         \/ RejectSample(x)
  PROVE  LinkInvariant'
<1>1. /\ pc = "idle"
      /\ ~(last'.op = "run" /\ last'.status = "OK")
      /\ UNCHANGED <<owner, runner, pc, run, refused, memory, down, up, chip,
                     result, sample>>
  BY DEF RejectBusy, RejectSample, Idle, Return
<1>2. ChipTypes' /\ MemoryTypes' /\ RunnerOwns'
  BY <1>1 DEF SampleInvariant, LinkInvariant, ChipTypes, MemoryTypes, RunnerOwns,
     Mine, Tensor, memory
<1>3. Resting' /\ Resetting' /\ Progress'
  BY <1>1 DEF SampleInvariant, LinkInvariant, Resting, Resetting, Progress,
     Sampling, Healthy, Quiet, ConfigComes
<1> QED
  BY <1>1, <1>2, <1>3 DEF LinkInvariant, Earned, SampleIsRight

\* Without a deployment nothing is claimed of the link.
LEMMA ChipIsReleased ==
  ASSUME SampleInvariant, NEW x \in Runners, FailDeploy(x) \/ Release(x)
  PROVE  LinkInvariant'
<1>0. ChipTypes /\ MemoryTypes
  BY DEF SampleInvariant, LinkInvariant
<1>1. /\ pc = "idle" /\ owner' = None
      /\ last'.op # "run"
      /\ runner' = [runner EXCEPT ![x] = ClearedRunner]
      /\ UNCHANGED <<pc, run, refused, memory, up, chip, result, sample>>
      /\ UNCHANGED down \/ SendConfig(None)
  BY DEF FailDeploy, Release, Idle, Return
<1>2. down' \in Seq(DownFrame)
  <2>1. CASE UNCHANGED down
    BY <1>0, <2>1 DEF ChipTypes
  <2>2. CASE SendConfig(None)
    <3>1. [kind |-> "config", whose |-> None] \in DownFrame
      BY DEF DownFrame
    <3> QED
      BY <1>0, <2>2, <3>1, FrameSent DEF SendConfig
  <2> QED
    BY <1>1, <2>1, <2>2
<1>3. ChipTypes'
  BY <1>0, <1>1, <1>2 DEF ChipTypes
<1>4. MemoryTypes'
  <2>1. \A z \in Runners : runner'[z].completed <= CompletionSync(z)
    <3> SUFFICES ASSUME NEW z \in Runners
                 PROVE  runner'[z].completed <= CompletionSync(z)
      OBVIOUS
    <3>1. CASE z = x
      <4>1. runner'[z].completed = 0
        BY <1>1, <3>1, RunFacts DEF ClearedRunner, SampleInvariant
      <4> QED
        BY <4>1, ArtifactFacts
    <3>2. CASE z # x
      BY <1>0, <1>1, <3>2, RunFacts DEF MemoryTypes, SampleInvariant
    <3> QED
      BY <3>1, <3>2
  <2> QED
    BY <1>0, <1>1, <2>1 DEF MemoryTypes, Mine, Tensor, memory
<1>5. RunnerOwns' /\ Resting' /\ Resetting' /\ Progress'
  BY <1>1 DEF RunnerOwns, Resting, Resetting, Progress, Sampling, Healthy
<1> QED
  BY <1>1, <1>3, <1>4, <1>5 DEF LinkInvariant, Earned, SampleIsRight

\* Once the platform is quiet, a deployed configuration is the last one.
LEMMA ChipIsDeployed ==
  ASSUME Recovered, SampleInvariant, NEW x \in Runners, Deploy(x)
  PROVE  LinkInvariant'
<1>0. ChipTypes /\ MemoryTypes /\ RunnerInvariant
  BY DEF SampleInvariant, LinkInvariant
<1> DEFINE config == [kind |-> "config", whose |-> x]
<1>1. /\ pc = "idle" /\ owner' = x /\ Quiet
      /\ last'.op # "run" /\ Send(config)
      /\ runner' = [runner EXCEPT ![x] = [ClearedRunner EXCEPT !.deployed = TRUE]]
      /\ UNCHANGED <<pc, run, refused, memory, up, chip, result, sample>>
  BY DEF Deploy, Idle, Return, ReadyToInit, SendConfig
<1>2. /\ down' \in Seq(DownFrame) /\ down' # <<>>
      /\ Len(down) \in Nat /\ Len(down') = Len(down) + 1
      /\ down'[Len(down) + 1] = config
      /\ \A i \in 1..Len(down) : down'[i] = down[i]
  <2>1. config \in DownFrame
    BY DEF DownFrame
  <2> HIDE DEF config
  <2> QED
    BY <1>0, <1>1, <2>1, FrameSent
<1>3. ChipTypes'
  BY <1>0, <1>1, <1>2 DEF ChipTypes
<1>4. /\ runner'[x].completed = 0 /\ ~runner'[x].faulted
      /\ \A z \in Runners : z # x => runner'[z] = runner[z]
  BY <1>0, <1>1, RunFacts DEF ClearedRunner
<1>5. MemoryTypes'
  <2>1. \A z \in Runners : runner'[z].completed <= CompletionSync(z)
    <3> SUFFICES ASSUME NEW z \in Runners
                 PROVE  runner'[z].completed <= CompletionSync(z)
      OBVIOUS
    <3>1. CASE z = x
      BY <1>4, <3>1, ArtifactFacts
    <3>2. CASE z # x
      BY <1>0, <1>4, <3>2 DEF MemoryTypes
    <3> QED
      BY <3>1, <3>2
  <2> QED
    BY <1>0, <1>1, <2>1 DEF MemoryTypes, Mine, Tensor, memory
<1>6. Quiet'
  <2>1. ~IsControl(config)
    BY DEF IsControl
  <2>2. \A i \in 1..Len(down') : i \in 1..Len(down) \/ i = Len(down) + 1
    BY <1>2
  <2> QED
    BY <1>1, <1>2, <2>1, <2>2 DEF Quiet
<1>7. ConfigComes(x)'
  <2>1. Len(down') \in 1..Len(down') /\ Len(down') + 1..Len(down') = {}
    BY <1>2
  <2>2. down'[Len(down')] = config
    BY <1>2
  <2> QED
    BY <2>1, <2>2 DEF ConfigComes
<1>8. RunnerOwns' /\ Resetting' /\ Progress' /\ Resting'
  BY <1>1, <1>6, <1>7 DEF RunnerOwns, Resting, Resetting, Progress, Sampling
<1> QED
  BY <1>1, <1>3, <1>5, <1>8 DEF LinkInvariant, Earned, SampleIsRight

\* A sample begins with a model reset on a quiet link, unless its session is
\* faulted, and then no sample has ever returned OK on it since.
LEMMA SampleIsBegun ==
  ASSUME SampleInvariant, NEW x \in Runners, NEW inPlace \in BOOLEAN,
         BeginSample(x, inPlace)
  PROVE  LinkInvariant'
<1>0. ChipTypes /\ MemoryTypes /\ RunnerInvariant /\ Resting
  BY DEF SampleInvariant, LinkInvariant
<1>1. /\ pc = "idle" /\ runner[x].deployed /\ sample < MaxSamples
      /\ sample' = sample + 1
      /\ run' = [runner |-> x, inPlace |-> inPlace, timestep |-> 0, chunk |-> 0,
                 submitted |-> 0, target |-> 0]
      /\ output' = [t \in Rows |-> JunkRow(x)]
      /\ mask' = MasksAtStart(x)
      /\ refused' = FALSE
      /\ \/ /\ runner[x].faulted /\ pc' = "idle" /\ down' = down
            /\ last' = [op |-> "run", runner |-> x, status |-> "FAULTED"]
         \/ /\ ~runner[x].faulted /\ pc' = "resetting" /\ Send(InitFrame)
      /\ UNCHANGED <<owner, runner, up, chip, result>>
  BY DEF BeginSample, Idle, Return, InitFrame
<1>2. owner = x /\ x # None
  BY <1>0, <1>1, ArtifactFacts DEF RunnerInvariant, OwnerIsDeployed
<1>3. sample' \in 0..MaxSamples /\ sample' >= 1
  BY <1>0, <1>1, RunnerAssumption DEF ChipTypes
<1>4. run'.runner = x /\ run'.chunk = 0
  BY <1>1
<1>5. MemoryTypes'
  <2>1. output' \in Tensor(x)
    BY <1>1 DEF Tensor, JunkRow, LaneValues, Junk
  <2>2. NothingReceived(x) \in Masks(x)
    BY DEF NothingReceived, Masks
  <2>3. mask' = [z \in Runners |-> mask'[z]] /\ \A z \in Runners : mask'[z] \in Masks(z)
    BY <1>0, <1>1, <2>2 DEF MemoryTypes, MasksAtStart
  <2>4. 0 <= ArtifactOf[x].chunks
    BY ArtifactFacts
  <2> QED
    BY <1>0, <1>1, <1>4, <2>1, <2>3, <2>4 DEF MemoryTypes, Mine, Tensor
<1>6. CASE runner[x].faulted
  <2>1. pc' = "idle" /\ down' = down /\ ~Healthy'
        /\ ~(last'.op = "run" /\ last'.status = "OK")
    BY <1>1, <1>2, <1>6 DEF Healthy
  <2>2. ChipTypes'
    BY <1>0, <1>1, <1>3, <2>1 DEF ChipTypes
  <2>3. RunnerOwns' /\ Resetting' /\ Progress' /\ Resting'
    BY <2>1 DEF RunnerOwns, Resting, Resetting, Progress, Sampling
  <2> QED
    BY <1>5, <2>1, <2>2, <2>3 DEF LinkInvariant, Earned, SampleIsRight
<1>7. CASE ~runner[x].faulted
  <2>1. /\ pc' = "resetting" /\ Send(InitFrame) /\ Healthy /\ Healthy'
    BY <1>1, <1>2, <1>7 DEF Healthy
  <2>2. Quiet /\ ConfigComes(x)
    BY <1>0, <1>1, <1>2, <2>1 DEF Resting
  <2>3. /\ down' \in Seq(DownFrame) /\ down' # <<>>
        /\ Len(down) \in Nat /\ Len(down') = Len(down) + 1
        /\ down'[Len(down) + 1] = InitFrame
        /\ \A i \in 1..Len(down) : down'[i] = down[i]
    <3>1. InitFrame \in DownFrame
      BY DEF DownFrame
    <3> QED
      BY <1>0, <2>1, <3>1, FrameSent
  <2>4. ChipTypes'
    BY <1>0, <1>1, <1>3, <2>3 DEF ChipTypes
  <2>5. Asked(InitFrame)'
    BY <1>1, <2>2, <2>3 DEF Asked, Quiet
  <2>6. \A i \in 1..Len(down') : i \in 1..Len(down) \/ i = Len(down) + 1
    BY <2>3
  <2>7. InitFrame.kind # "config"
    BY DEF InitFrame
  <2>8. ConfigComes(x)'
    <3>1. CASE /\ chip.config = x
               /\ \A i \in 1..Len(down) : down[i].kind # "config"
      BY <1>1, <2>3, <2>6, <2>7, <3>1 DEF ConfigComes
    <3>2. ASSUME NEW i \in 1..Len(down),
                 /\ down[i] = [kind |-> "config", whose |-> x]
                 /\ \A j \in i + 1..Len(down) : down[j].kind # "config"
          PROVE  ConfigComes(x)'
      <4>1. i \in 1..Len(down') /\ down'[i] = [kind |-> "config", whose |-> x]
        BY <2>3, <3>2
      <4>2. \A j \in i + 1..Len(down') : down'[j].kind # "config"
        <5> SUFFICES ASSUME NEW j \in i + 1..Len(down')
                     PROVE  down'[j].kind # "config"
          OBVIOUS
        <5>1. CASE j = Len(down) + 1
          BY <2>3, <2>7, <5>1
        <5>2. CASE j \in i + 1..Len(down)
          BY <2>3, <3>2, <5>2
        <5> QED
          BY <2>3, <5>1, <5>2
      <4> QED
        BY <4>1, <4>2 DEF ConfigComes
    <3> QED
      BY <2>2, <3>1, <3>2 DEF ConfigComes
  <2>9. Kind' = "voltage" => mask'[x] = NothingReceived(x)
    BY <1>0, <1>1, <1>4 DEF Kind, MasksAtStart, MemoryTypes
  <2>10. Resetting'
    BY <1>1, <1>4, <2>1, <2>5, <2>8, <2>9 DEF Resetting, NothingReceived
  <2>11. RunnerOwns' /\ Progress' /\ Resting'
    BY <1>1, <1>2, <1>3, <1>4, <2>1 DEF RunnerOwns, Resting, Progress, Sampling
  <2> QED
    BY <1>5, <2>1, <2>4, <2>10, <2>11 DEF LinkInvariant, Earned, SampleIsRight
<1> QED
  BY <1>6, <1>7

(***************************************************************************)
(* A sample between its barriers.                                          *)
(***************************************************************************)

\* On a quiet link nothing is on its way up.
LEMMA QuietFacts ==
  ASSUME ChipTypes, Quiet
  PROVE  /\ up = <<>> /\ Len(up) = 0 /\ ~chip.busy /\ chip.out = {} /\ chip.left = 0
         /\ InFlight = {}
<1>1. up = <<>> /\ ~chip.busy /\ chip.out = {} /\ chip.left = 0
  BY DEF Quiet, ChipTypes
<1>2. Len(up) = 0 /\ 1..0 = {}
  BY <1>1, EmptySeq
<1> QED
  BY <1>1, <1>2 DEF InFlight

\* With nothing on its way nothing is due.
LEMMA NothingDue ==
  ASSUME InFlight = {}, up = <<>>, chip.out = {} PROVE FramesAreDue
<1>1. <<>> \in Seq(UpFrame \union {CompleteFrame}) /\ Len(up) = 0 /\ 1..0 = {}
  BY EmptySeq
<1> QED
  BY <1>1 DEF FramesAreDue

\* What the link promises does not depend on how far the program is in a row.
LEMMA LinkKept ==
  ASSUME run'.runner = run.runner, run'.submitted = run.submitted,
         UNCHANGED <<up, chip, result, sample, output, mask, refused>>
  PROVE  /\ Computed => Computed'
         /\ FramesAreDue => FramesAreDue'
         /\ Assembled => Assembled'
<1>1. Mine' = Mine /\ InFlight' = InFlight /\ Lanes' = Lanes /\ Elements' = Elements
      /\ Kind' = Kind
  BY DEF Mine, InFlight, Lanes, Elements, Kind
<1>2. Computed => Computed'
  BY <1>1 DEF Computed
<1>3. \A row, e, lane : Work(row, e, lane)' = Work(row, e, lane)
  BY DEF Work
<1>4. FramesAreDue => FramesAreDue'
  BY <1>1, <1>3 DEF FramesAreDue, UpFrame, Awaited
<1>5. \A row, e : Got(row, e)' = Got(row, e) /\ MaskOf(row, e)' = MaskOf(row, e)
  BY <1>1, <1>3 DEF Got, MaskOf
<1>6. Assembled => Assembled'
  BY <1>1, <1>5 DEF Assembled
<1> QED
  BY <1>2, <1>4, <1>6

\* The parts that only sending a frame changes.
LEMMA TypesKept ==
  ASSUME SampleInvariant, down' \in Seq(DownFrame),
         run'.runner = run.runner, run'.chunk <= Mine.chunks,
         refused' \in BOOLEAN,
         UNCHANGED <<owner, runner, mask, chip, result, sample>>,
         output' \in Tensor(run.runner),
         pc # "idle"
  PROVE  ChipTypes' /\ MemoryTypes' /\ RunnerOwns'
<1>1. ChipTypes'
  BY DEF SampleInvariant, LinkInvariant, ChipTypes
<1>2. MemoryTypes'
  BY DEF SampleInvariant, LinkInvariant, MemoryTypes, Mine, Tensor
<1>3. RunnerOwns'
  BY DEF SampleInvariant, LinkInvariant, RunnerOwns, Healthy
<1> QED
  BY <1>1, <1>2, <1>3

LEMMA ChunkIsSent ==
  ASSUME SampleInvariant, SendChunk PROVE LinkInvariant'
<1>0. /\ ChipTypes /\ MemoryTypes /\ RunnerInvariant /\ Resting
      /\ pc = "sending" /\ InputsArrive /\ Clock /\ Computed /\ FramesAreDue
      /\ Assembled /\ ~refused
  BY DEF SampleInvariant, LinkInvariant, Progress, Sampling, SendChunk
<1> DEFINE c == run.chunk
           t == run.timestep
<1>1. input[t]
  BY <1>0, RunFacts DEF RunnerInvariant, UnsentInputIntact, Rows
<1>2. /\ Send(InputFrame(c + 1))
      /\ run' = [run EXCEPT !.chunk = c + 1]
      /\ pc' = (IF c + 1 = Mine.chunks THEN "sent" ELSE "sending")
      /\ UNCHANGED <<owner, runner, refused, memory, up, chip, result, sample, last>>
  BY <1>1 DEF SendChunk, InputFrame, Mine
<1>3. /\ run.runner \in Runners /\ t \in 0..T - 1 /\ t \in Rows /\ c \in Nat
      /\ sample \in Int
  BY <1>0, RunFacts DEF ChipTypes
<1>4. InputFrame(c + 1) \in DownFrame
  BY <1>3 DEF InputFrame, DownFrame
<1>5. /\ down' \in Seq(DownFrame) /\ down' # <<>>
      /\ Len(down) \in Nat /\ Len(down') = Len(down) + 1
      /\ down'[Len(down) + 1] = InputFrame(c + 1)
      /\ \A i \in 1..Len(down) : down'[i] = down[i]
  BY <1>0, <1>2, <1>4, FrameSent
<1>6. /\ run'.runner = run.runner /\ run'.timestep = t /\ run'.chunk = c + 1
      /\ run'.submitted = run.submitted /\ run'.target = run.target
  BY <1>0, <1>2 DEF RunnerInvariant, RunnerTypes, RunRecord
<1>7. Mine.chunks \in Nat \ {0} /\ c < Mine.chunks /\ Mine' = Mine
  BY <1>0, <1>3, <1>6, ArtifactFacts DEF InputsArrive, Mine
<1>8. ChipTypes' /\ MemoryTypes' /\ RunnerOwns'
  <2>1. c + 1 <= Mine.chunks
    BY <1>3, <1>7
  <2>2. output' \in Tensor(run.runner)
    BY <1>0, <1>2 DEF MemoryTypes, memory
  <2>3. refused' \in BOOLEAN
    BY <1>0, <1>2 DEF MemoryTypes
  <2> QED
    BY <1>0, <1>2, <1>5, <1>6, <2>1, <2>2, <2>3, TypesKept DEF memory
<1>9. Quiet /\ Quiet'
  <2>1. Quiet
    BY <1>0 DEF Resting
  <2>2. ~IsControl(InputFrame(c + 1))
    BY DEF IsControl, InputFrame
  <2>3. \A i \in 1..Len(down') : i \in 1..Len(down) \/ i = Len(down) + 1
    BY <1>5
  <2> QED
    BY <1>2, <1>5, <2>1, <2>2, <2>3 DEF Quiet
<1>10. pc' \in {"sending", "sent"}
  BY <1>2
<1>11. Resting' /\ Resetting'
  BY <1>9, <1>10 DEF Resting, Resetting
<1>12. InputsArrive'
  <2>1. \A k : InputFrame(k)' = InputFrame(k) /\ Chunk(k)' = Chunk(k)
    BY <1>2, <1>6 DEF InputFrame, Chunk
  <2>2. \A n : Part(n)' = Part(n)
    BY <2>1 DEF Part
  <2>3. PICK n \in 0..c :
          /\ chip.inputs[t] = Part(n)
          /\ Len(down) = c - n
          /\ \A i \in 1..c - n : down[i] = InputFrame(n + i)
    BY <1>0, <1>3, <1>5 DEF InputsArrive, Arrives
  <2>4. /\ n \in 0..c + 1 /\ Len(down') = c + 1 - n
        /\ Len(down) + 1 = c + 1 - n /\ n + (c + 1 - n) = c + 1
    BY <1>3, <1>5, <2>3
  <2>5. \A i \in 1..c + 1 - n : down'[i] = InputFrame(n + i)
    <3> SUFFICES ASSUME NEW i \in 1..c + 1 - n PROVE down'[i] = InputFrame(n + i)
      OBVIOUS
    <3>1. CASE i = c + 1 - n
      BY <1>5, <2>4, <3>1
    <3>2. CASE i \in 1..c - n
      BY <1>5, <2>3, <3>2
    <3>3. c \in Nat /\ n \in Nat /\ n <= c
      BY <1>3
    <3> HIDE DEF c
    <3>4. i = c + 1 - n \/ i \in 1..c - n
      BY <3>3
    <3> QED
      BY <3>1, <3>2, <3>4
  <2>7. /\ pc' = "sending" => c + 1 < Mine.chunks
        /\ pc' # "sending" => c + 1 = Mine.chunks
    BY <1>2, <1>3, <1>7
  <2>8. /\ chip'.config = run'.runner
        /\ \A row \in Rows :
             /\ row < run'.timestep => chip'.inputs[row] = Part(Mine.chunks)
             /\ row > run'.timestep => chip'.inputs[row] = <<>>
    BY <1>0, <1>2, <1>6 DEF InputsArrive
  <2>9. pc' # "syncing"
    BY <1>10
  <2>10. Arrives(n)'
    <3>1. chip'.inputs[run'.timestep] = Part(n)'
      BY <1>2, <1>6, <2>2, <2>3
    <3>2. Len(down') = run'.chunk - n
                       + (IF pc' = "syncing" /\ Asked(SyncFrame)' THEN 1 ELSE 0)
      BY <1>6, <2>4, <2>9
    <3>3. ASSUME NEW i \in 1..run'.chunk - n PROVE down'[i] = InputFrame(n + i)'
      <4>1. i \in 1..c + 1 - n
        BY <1>3, <1>6
      <4>2. InputFrame(n + i)' = InputFrame(n + i)
        BY <2>1
      <4> QED
        BY <2>5, <4>1, <4>2
    <3> QED
      BY <3>1, <3>2, <3>3 DEF Arrives
  <2>11. /\ chip'.config = run'.runner
         /\ pc' = "sending" => run'.chunk < Mine'.chunks
         /\ pc' # "sending" => run'.chunk = Mine'.chunks
         /\ \A row \in Rows :
              /\ row < run'.timestep => chip'.inputs[row] = Part(Mine.chunks)'
              /\ row > run'.timestep => chip'.inputs[row] = <<>>
    BY <1>6, <1>7, <2>2, <2>7, <2>8
  <2> QED
    BY <1>6, <2>4, <2>10, <2>11 DEF InputsArrive
<1>13. Clock'
  BY <1>0, <1>2, <1>6, <1>10 DEF Clock, Completed
<1>14. Progress'
  <2>1. Computed' /\ FramesAreDue' /\ Assembled'
    BY <1>0, <1>2, <1>6, LinkKept DEF memory
  <2> QED
    BY <1>0, <1>2, <1>12, <1>13, <2>1 DEF Progress
<1> QED
  BY <1>8, <1>10, <1>11, <1>14 DEF LinkInvariant, Earned, SampleIsRight

\* The caller's value does not fit: the session stays healthy, and its link
\* holds no more than chunks of input.
LEMMA EncodingFails ==
  ASSUME SampleInvariant, EncodeFails PROVE LinkInvariant'
<1>0. /\ ChipTypes /\ MemoryTypes /\ RunnerInvariant /\ Resting /\ RunnerOwns
      /\ pc = "sending" /\ InputsArrive
  BY DEF SampleInvariant, LinkInvariant, Progress, Sampling, EncodeFails
<1>1. /\ pc' = "idle" /\ last'.status # "OK"
      /\ UNCHANGED <<owner, runner, run, refused, memory, down, up, chip, result,
                     sample>>
  BY DEF EncodeFails, Return
<1>2. ChipTypes' /\ MemoryTypes'
  BY <1>0, <1>1 DEF ChipTypes, MemoryTypes, Mine, Tensor, memory
<1>3. Quiet'
  BY <1>0, <1>1 DEF Resting, Quiet
<1>4. ConfigComes(owner)
  <2>1. PICK n \in 0..run.chunk :
          /\ Len(down) = run.chunk - n
          /\ \A i \in 1..run.chunk - n : down[i] = InputFrame(n + i)
    BY <1>0, RunFacts DEF InputsArrive, Arrives
  <2>2. \A i : InputFrame(i).kind # "config"
    BY DEF InputFrame
  <2>3. chip.config = owner
    BY <1>0 DEF InputsArrive, RunnerOwns
  <2> QED
    BY <2>1, <2>2, <2>3 DEF ConfigComes
<1>5. Resting'
  BY <1>1, <1>3, <1>4 DEF Resting, ConfigComes
<1> QED
  BY <1>1, <1>2, <1>5
     DEF LinkInvariant, RunnerOwns, Resetting, Progress, Sampling, Earned, SampleIsRight

\* A barrier's request is put behind what is on its way.
LEMMA SyncIsAsked ==
  ASSUME SampleInvariant, pc \in {"sent", "completing"}, pc' = "syncing",
         run'.runner = run.runner, run'.timestep = run.timestep,
         run'.chunk = run.chunk, run'.target - Completed \in Nat,
         Send([kind |-> "sync", steps |-> run'.target - Completed]),
         refused' = FALSE, output' \in Tensor(run.runner),
         UNCHANGED <<owner, runner, mask, up, chip, result, sample>>
  PROVE  /\ ChipTypes' /\ MemoryTypes' /\ RunnerOwns' /\ Resting' /\ Resetting'
         /\ Asked(SyncFrame)' /\ InputsArrive' /\ Computed' /\ FramesAreDue'
         /\ \A row, e : Got(row, e)' = Got(row, e) /\ MaskOf(row, e)' = MaskOf(row, e)
<1>0. /\ ChipTypes /\ MemoryTypes /\ RunnerInvariant /\ Quiet
      /\ InputsArrive /\ Computed /\ FramesAreDue
  BY DEF SampleInvariant, LinkInvariant, Resting, Progress, Sampling
<1> DEFINE frame == [kind |-> "sync", steps |-> run'.target - Completed]
           c == run.chunk
           t == run.timestep
<1>1. frame = SyncFrame'
  BY DEF SyncFrame, Completed
<1>2. frame \in DownFrame /\ IsControl(frame)
  BY DEF DownFrame, IsControl
<1>3. /\ down' \in Seq(DownFrame) /\ down' # <<>>
      /\ Len(down) \in Nat /\ Len(down') = Len(down) + 1
      /\ down'[Len(down) + 1] = frame
      /\ \A i \in 1..Len(down) : down'[i] = down[i]
  <2> HIDE DEF frame
  <2>1. Send(frame)
    BY DEF frame
  <2> QED
    BY <1>0, <1>2, <2>1, FrameSent
<1>4. ChipTypes' /\ MemoryTypes' /\ RunnerOwns'
  <2>1. run'.chunk <= Mine.chunks /\ refused' \in BOOLEAN /\ pc # "idle"
    BY <1>0 DEF MemoryTypes
  <2> QED
    BY <1>3, <2>1, TypesKept
<1>5. Asked(SyncFrame)'
  <2>1. \A i \in 1..Len(down') - 1 : i \in 1..Len(down)
    BY <1>3
  <2> QED
    BY <1>0, <1>1, <1>3, <2>1 DEF Asked, Quiet, IsControl
<1>6. Resting' /\ Resetting'
  BY DEF Resting, Resetting
<1>7. InputsArrive'
  <2>1. /\ Mine' = Mine
        /\ \A k : InputFrame(k)' = InputFrame(k) /\ Chunk(k)' = Chunk(k)
    BY DEF InputFrame, Chunk, Mine
  <2>2. \A k : Part(k)' = Part(k)
    BY <2>1 DEF Part
  <2>3. ~(pc = "syncing" /\ Asked(SyncFrame))
    OBVIOUS
  <2>4. PICK n \in 0..c :
          /\ chip.inputs[t] = Part(n)
          /\ Len(down) = c - n
          /\ \A i \in 1..c - n : down[i] = InputFrame(n + i)
    BY <1>0, <1>3, <2>3, RunFacts DEF InputsArrive, Arrives
  <2>5. c \in Nat /\ n \in Nat /\ n <= c
    BY <1>0, RunFacts
  <2>6. Arrives(n)'
    <3>1. chip'.inputs[run'.timestep] = Part(n)'
      BY <2>2, <2>4
    <3>2. Len(down') = run'.chunk - n
                       + (IF pc' = "syncing" /\ Asked(SyncFrame)' THEN 1 ELSE 0)
      BY <1>3, <1>5, <2>4, <2>5
    <3>3. ASSUME NEW i \in 1..run'.chunk - n PROVE down'[i] = InputFrame(n + i)'
      <4>1. i \in 1..c - n /\ i \in 1..Len(down)
        BY <2>4, <2>5
      <4>2. InputFrame(n + i)' = InputFrame(n + i)
        BY <2>1
      <4> QED
        BY <1>3, <2>4, <4>1, <4>2
    <3> QED
      BY <3>1, <3>2, <3>3 DEF Arrives
  <2>7. /\ chip'.config = run'.runner
        /\ run'.chunk = Mine'.chunks
        /\ \A row \in Rows :
             /\ row < run'.timestep => chip'.inputs[row] = Part(Mine.chunks)'
             /\ row > run'.timestep => chip'.inputs[row] = <<>>
    BY <1>0, <2>1, <2>2 DEF InputsArrive
  <2> QED
    BY <2>4, <2>6, <2>7 DEF InputsArrive
<1>8. Computed'
  BY <1>0 DEF Computed, Mine
<1>9. InFlight = {} /\ InFlight' = {} /\ up = <<>> /\ chip.out = {}
  BY <1>0, QuietFacts DEF InFlight
<1>10. FramesAreDue'
  <2>1. <<>> \in Seq(UpFrame' \union {CompleteFrame}) /\ Len(up') = 0 /\ 1..0 = {}
    BY <1>9, EmptySeq
  <2> QED
    BY <1>9, <2>1 DEF FramesAreDue, CompleteFrame
<1>11. \A row, e : Got(row, e)' = Got(row, e) /\ MaskOf(row, e)' = MaskOf(row, e)
  BY <1>9 DEF Got, MaskOf, Work, Lanes
<1> QED
  BY <1>4, <1>5, <1>6, <1>7, <1>8, <1>10, <1>11

LEMMA RowIsSubmitted ==
  ASSUME SampleInvariant, SubmitTimestep PROVE LinkInvariant'
<1>0. /\ ChipTypes /\ MemoryTypes /\ RunnerInvariant /\ Clock /\ Computed
      /\ Assembled /\ ~refused /\ pc = "sent" /\ InputsArrive
  BY DEF SampleInvariant, LinkInvariant, Progress, Sampling, SubmitTimestep
<1> DEFINE t == run.timestep
           zeros == [e \in Elements |-> ZeroCell]
<1>1. /\ output' = [output EXCEPT ![t] = zeros]
      /\ run' = [run EXCEPT !.submitted = t + 1, !.target = t + 1]
      /\ Send([kind |-> "sync", steps |-> (t + 1) - Completed])
      /\ refused' = FALSE /\ pc' = "syncing"
      /\ UNCHANGED <<owner, runner, mask, up, chip, result, sample, last>>
  <2>1. SyncUntil(t + 1)
    BY DEF SubmitTimestep
  <2>2. /\ Send([kind |-> "sync", steps |-> (t + 1) - Completed])
        /\ refused' = FALSE /\ pc' = "syncing"
    BY <2>1 DEF SyncUntil, Completed
  <2> QED
    BY <2>2 DEF SubmitTimestep
<1>2. /\ run.runner \in Runners /\ t \in 0..T - 1 /\ t \in Rows /\ t \in Nat
      /\ run.submitted = t
  BY <1>0, RunFacts DEF RunnerInvariant, RowsSubmitted, Rows
<1>3. /\ run'.runner = run.runner /\ run'.timestep = t /\ run'.chunk = run.chunk
      /\ run'.submitted = t + 1 /\ run'.target = t + 1
  BY <1>0, <1>1 DEF RunnerInvariant, RunnerTypes, RunRecord
<1>4. Completed = t /\ chip.time = t
  BY <1>0 DEF Clock
<1>5. output' \in Tensor(run.runner)
  <2>1. zeros \in [Mine.elements -> [Mine.lanes -> LaneValues]]
    BY DEF Elements, Lanes, Mine, ZeroCell, LaneValues
  <2>2. output \in [Rows -> [Mine.elements -> [Mine.lanes -> LaneValues]]]
    BY <1>0 DEF MemoryTypes, Tensor, Mine
  <2> HIDE DEF zeros
  <2> QED
    BY <1>1, <2>1, <2>2 DEF Tensor, Mine
<1>6. /\ ChipTypes' /\ MemoryTypes' /\ RunnerOwns' /\ Resting' /\ Resetting'
      /\ Asked(SyncFrame)' /\ InputsArrive' /\ Computed' /\ FramesAreDue'
      /\ \A row, e : Got(row, e)' = Got(row, e) /\ MaskOf(row, e)' = MaskOf(row, e)
  <2>1. /\ pc \in {"sent", "completing"} /\ pc' = "syncing"
        /\ run'.target - Completed \in Nat
        /\ Send([kind |-> "sync", steps |-> run'.target - Completed])
    BY <1>0, <1>1, <1>2, <1>3, <1>4
  <2> HIDE DEF t, zeros
  <2>2. run'.timestep = run.timestep
    BY <1>3 DEF t
  <2> QED
    BY <1>1, <1>3, <1>5, <2>1, <2>2, SyncIsAsked
<1>7. Clock'
  BY <1>1, <1>3, <1>4, <1>6 DEF Clock, Completed
<1>8. Assembled'
  <2>1. Lanes' = Lanes /\ Elements' = Elements /\ Kind' = Kind
    BY <1>3 DEF Lanes, Elements, Kind
  <2>2. ASSUME NEW row \in Rows, row < t + 1, NEW e \in Elements, NEW lane \in Lanes
        PROVE  output'[row][e][lane] = IF lane \in Got(row, e) THEN sample ELSE Zero
    <3>1. CASE row = t
      <4>1. ~(t + Mine.latency <= chip.time)
        BY <1>2, <1>4, ArtifactFacts DEF Mine
      <4>2. result[t].fired = {}
        BY <1>0, <1>2, <4>1 DEF Computed
      <4>3. Got(row, e) = {}
        BY <3>1, <4>2 DEF Got
      <4>4. output'[row] = zeros
        BY <1>0, <1>1, <1>2, <3>1 DEF MemoryTypes, Tensor
      <4> QED
        BY <4>3, <4>4 DEF ZeroCell
    <3>2. CASE row # t
      <4>1. row < run.submitted
        BY <1>2, <2>2, <3>2 DEF Rows
      <4>2. output'[row] = output[row]
        BY <1>0, <1>1, <3>2 DEF MemoryTypes, Tensor
      <4> QED
        BY <1>0, <4>1, <4>2 DEF Assembled
    <3> QED
      BY <3>1, <3>2
  <2>3. \A row \in Rows : row < run'.submitted =>
          \A e \in Elements, lane \in Lanes :
            output'[row][e][lane] = IF lane \in Got(row, e)' THEN sample' ELSE Zero
    BY <1>1, <1>3, <1>6, <2>2
  <2>4. Kind = "voltage" => \A row \in Rows, e \in Elements :
          mask'[run'.runner][row][e] = MaskOf(row, e)'
    BY <1>0, <1>1, <1>3, <1>6 DEF Assembled
  <2> QED
    BY <2>1, <2>3, <2>4 DEF Assembled
<1> QED
  BY <1>1, <1>6, <1>7, <1>8 DEF LinkInvariant, Progress, Earned, SampleIsRight

LEMMA PipelineIsCompleted ==
  ASSUME SampleInvariant, CompletePipeline PROVE LinkInvariant'
<1>0. /\ ChipTypes /\ MemoryTypes /\ RunnerInvariant /\ Clock /\ Computed
      /\ Assembled /\ ~refused /\ pc = "completing" /\ InputsArrive
  BY DEF SampleInvariant, LinkInvariant, Progress, Sampling, CompletePipeline
<1> DEFINE end == CompletionSync(run.runner)
<1>1. /\ run' = [run EXCEPT !.target = end]
      /\ Send([kind |-> "sync", steps |-> end - Completed])
      /\ refused' = FALSE /\ pc' = "syncing"
      /\ UNCHANGED <<owner, runner, memory, up, chip, result, sample, last>>
  BY DEF CompletePipeline, SyncUntil, Completed
<1>2. /\ run.runner \in Runners /\ end \in Nat /\ T \in Nat /\ end > T
      /\ Completed = T /\ chip.time = T /\ run.timestep = T - 1
  BY <1>0, RunFacts, ArtifactFacts DEF Clock, RunnerInvariant, RowsSubmitted
<1>3. /\ run'.runner = run.runner /\ run'.timestep = run.timestep
      /\ run'.chunk = run.chunk /\ run'.submitted = run.submitted
      /\ run'.target = end
  BY <1>0, <1>1 DEF RunnerInvariant, RunnerTypes, RunRecord
<1>4. output' \in Tensor(run.runner)
  BY <1>0, <1>1 DEF MemoryTypes, memory
<1>5. /\ ChipTypes' /\ MemoryTypes' /\ RunnerOwns' /\ Resting' /\ Resetting'
      /\ Asked(SyncFrame)' /\ InputsArrive' /\ Computed' /\ FramesAreDue'
      /\ \A row, e : Got(row, e)' = Got(row, e) /\ MaskOf(row, e)' = MaskOf(row, e)
  <2>1. /\ pc \in {"sent", "completing"} /\ pc' = "syncing"
        /\ run'.target - Completed \in Nat
        /\ Send([kind |-> "sync", steps |-> run'.target - Completed])
    BY <1>0, <1>1, <1>2, <1>3
  <2> HIDE DEF end
  <2> QED
    BY <1>1, <1>3, <1>4, <2>1, SyncIsAsked DEF memory
<1>6. Clock'
  BY <1>1, <1>2, <1>3, <1>5 DEF Clock, Completed
<1>7. Assembled'
  <2>1. refused' = refused
    BY <1>0, <1>1 DEF MemoryTypes
  <2> QED
    BY <1>0, <1>1, <1>3, <1>5, <2>1 DEF Assembled, Lanes, Elements, Kind, memory
<1> QED
  BY <1>1, <1>5, <1>6, <1>7 DEF LinkInvariant, Progress, Earned, SampleIsRight

(***************************************************************************)
(* The ends of a barrier.                                                  *)
(***************************************************************************)

\* Only `completed' and `faulted' of the running runner change.
LEMMA RunnerWritten ==
  ASSUME SampleInvariant,
         \/ \E n \in Nat :
              /\ runner' = [runner EXCEPT ![run.runner].completed = n]
              /\ n <= CompletionSync(run.runner)
         \/ runner' = [runner EXCEPT ![run.runner].faulted = TRUE],
         UNCHANGED <<owner, run, refused, memory>>
  PROVE  /\ MemoryTypes'
         /\ \A x \in Runners : runner'[x].deployed = runner[x].deployed
         /\ \A x \in Runners : x # run.runner => runner'[x] = runner[x]
<1>0. MemoryTypes /\ RunnerInvariant /\ run.runner \in Runners
  BY RunFacts DEF SampleInvariant, LinkInvariant
<1>1. /\ \A x \in Runners : runner'[x].completed <= CompletionSync(x)
      /\ \A x \in Runners : runner'[x].deployed = runner[x].deployed
      /\ \A x \in Runners : x # run.runner => runner'[x] = runner[x]
  <2>1. CASE runner' = [runner EXCEPT ![run.runner].faulted = TRUE]
    BY <1>0, <2>1, RunFacts DEF MemoryTypes
  <2>2. ASSUME NEW n \in Nat,
               runner' = [runner EXCEPT ![run.runner].completed = n],
               n <= CompletionSync(run.runner)
        PROVE  /\ \A x \in Runners : runner'[x].completed <= CompletionSync(x)
               /\ \A x \in Runners : runner'[x].deployed = runner[x].deployed
               /\ \A x \in Runners : x # run.runner => runner'[x] = runner[x]
    BY <1>0, <2>2, RunFacts DEF MemoryTypes
  <2> QED
    BY <2>1, <2>2
<1> QED
  BY <1>0, <1>1 DEF MemoryTypes, Mine, Tensor, memory

LEMMA OneLess ==
  ASSUME NEW S, NEW s \in Seq(S), s # <<>>
  PROVE  /\ Len(s) \in Nat /\ Len(s) > 0 /\ Head(s) = s[1] /\ Tail(s) \in Seq(S)
         /\ Len(Tail(s)) = Len(s) - 1
         /\ \A i \in 1..Len(Tail(s)) : Tail(s)[i] = s[i + 1]
         /\ Len(s) = 1 => Tail(s) = <<>>
<1>1. /\ Len(s) \in Nat /\ Tail(s) \in Seq(S) /\ Len(Tail(s)) = Len(s) - 1
      /\ \A i \in 1..Len(Tail(s)) : Tail(s)[i] = s[i + 1]
  BY HeadTailProperties
<1>2. Head(s) = s[1]
  OBVIOUS
<1>3. Len(s) > 0
  BY <1>1, EmptySeq
<1>4. Len(s) = 1 => Tail(s) = <<>>
  <2>1. ASSUME Tail(s) # <<>> PROVE Len(Tail(s)) # 0
    BY <1>1, <2>1, EmptySeq
  <2> QED
    BY <1>1, <2>1
<1> QED
  BY <1>1, <1>2, <1>3, <1>4

LEMMA ModelIsReset ==
  ASSUME SampleInvariant, ResetCompletes PROVE LinkInvariant'
<1>0. /\ ChipTypes /\ MemoryTypes /\ RunnerInvariant /\ RunnerOwns /\ Resetting
      /\ pc = "resetting"
  BY DEF SampleInvariant, LinkInvariant, ResetCompletes
<1>1. /\ up # <<>> /\ up' = Tail(up)
      /\ runner' = [runner EXCEPT ![run.runner].completed = 0]
      /\ pc' = "sending"
      /\ UNCHANGED <<owner, run, refused, memory, down, chip, result, sample, last>>
  BY DEF ResetCompletes
<1>2. /\ ~refused /\ run.timestep = 0 /\ run.chunk = 0
      /\ Kind = "voltage" => mask[run.runner] = NothingReceived(run.runner)
      /\ Answered /\ up = <<CompleteFrame>> /\ Cleared
  BY <1>0, <1>1 DEF Resetting, Asked
<1>3. up' = <<>> /\ down = <<>> /\ ~chip.busy /\ chip.out = {}
  BY <1>1, <1>2 DEF Answered, Cleared
<1>4. /\ run.runner \in Runners /\ run.submitted = 0
      /\ runner'[run.runner].completed = 0
      /\ runner'[run.runner].faulted = runner[run.runner].faulted
      /\ CompletionSync(run.runner) \in Nat
      /\ Mine.chunks \in Nat \ {0} /\ Mine.latency \in Nat \ {0}
  BY <1>0, <1>1, <1>2, RunFacts, ArtifactFacts DEF RunnerInvariant, RowsSubmitted, Mine
<1>5. ChipTypes' /\ MemoryTypes'
  <2>1. 0 \in Nat /\ 0 <= CompletionSync(run.runner)
    BY <1>4
  <2>2. MemoryTypes'
    BY <1>1, <2>1, RunnerWritten
  <2> QED
    BY <1>0, <1>1, <2>2 DEF ChipTypes
<1>6. RunnerOwns' /\ Resetting'
  BY <1>0, <1>1, <1>4 DEF RunnerOwns, Resetting, Healthy
<1>7. Resting'
  <2>1. 1..Len(down') = {}
    BY <1>1, <1>3
  <2> QED
    BY <1>1, <1>3, <2>1 DEF Resting, Quiet
<1>8. InputsArrive'
  <2>1. Part(0)' = <<>>
    BY DEF Part
  <2>2. chip.inputs = [t \in Rows |-> <<>>] /\ chip.config = run.runner
    BY <1>2 DEF Cleared
  <2>3. 0 \in Rows
    BY <1>0, <1>2, RunFacts
  <2>4. Arrives(0)'
    <3>1. chip'.inputs[run'.timestep] = Part(0)'
      BY <1>1, <1>2, <2>1, <2>2, <2>3
    <3>2. Len(down') = run'.chunk - 0
                       + (IF pc' = "syncing" /\ Asked(SyncFrame)' THEN 1 ELSE 0)
      BY <1>1, <1>2, <1>3
    <3>3. 1..run'.chunk - 0 = {}
      BY <1>1, <1>2
    <3> QED
      BY <3>1, <3>2, <3>3 DEF Arrives
  <2>5. /\ chip'.config = run'.runner
        /\ run'.chunk < Mine'.chunks
        /\ \A row \in Rows :
             ~(row < run'.timestep) /\ chip'.inputs[row] = <<>>
    BY <1>1, <1>2, <1>4, <2>2 DEF Rows, Mine
  <2>6. 0 \in 0..run'.chunk
    BY <1>1, <1>2
  <2> QED
    BY <1>1, <2>4, <2>5, <2>6 DEF InputsArrive
<1>9. Clock'
  BY <1>1, <1>2, <1>4 DEF Clock, Completed, Cleared
<1>10. Computed'
  <2>1. \A row \in Rows : ~(row < chip'.time) /\ ~(row + Mine'.latency <= chip'.time)
    BY <1>1, <1>2, <1>4 DEF Cleared, Rows, Mine
  <2>2. \A row \in Rows : result'[row] = [of |-> Wrong, fired |-> {}]
    BY <1>1, <1>2 DEF Cleared, NoResult
  <2> QED
    BY <2>1, <2>2 DEF Computed
<1>11. InFlight' = {}
  <2>1. 1..Len(up') = {}
    BY <1>3
  <2> QED
    BY <1>1, <1>3, <2>1 DEF InFlight
<1>12. FramesAreDue'
  <2>1. <<>> \in Seq(UpFrame' \union {CompleteFrame}) /\ 1..Len(up') = {}
    BY <1>3, EmptySeq
  <2> QED
    BY <1>1, <1>3, <1>11, <2>1 DEF FramesAreDue, CompleteFrame
<1>13. Assembled'
  <2>1. \A row \in Rows : ~(row < run'.submitted)
    BY <1>1, <1>4 DEF Rows
  <2>2. ASSUME NEW row \in Rows, NEW e \in Elements' PROVE MaskOf(row, e)' = {}
    <3>1. result'[row].fired = {}
      BY <1>1, <1>2 DEF Cleared, NoResult
    <3>2. Got(row, e)' = {}
      BY <3>1 DEF Got
    <3> QED
      BY <3>2 DEF MaskOf
  <2>3. Kind' = "voltage" => \A row \in Rows, e \in Elements' :
          mask'[run'.runner][row][e] = {}
    BY <1>1, <1>2 DEF NothingReceived, Kind, Elements, memory
  <2> QED
    BY <2>1, <2>2, <2>3 DEF Assembled
<1> QED
  BY <1>1, <1>2, <1>5, <1>6, <1>7, <1>8, <1>9, <1>10, <1>12, <1>13
     DEF LinkInvariant, Progress, Earned, SampleIsRight

\* A barrier that fails faults the session: nothing is promised but that no
\* sample returned OK.
LEMMA BarrierHasFailed ==
  ASSUME SampleInvariant, BarrierFails PROVE LinkInvariant'
<1>0. ChipTypes /\ MemoryTypes /\ RunnerInvariant /\ RunnerOwns /\ pc # "idle"
  BY DEF SampleInvariant, LinkInvariant, BarrierFails, Waiting
<1>1. /\ runner' = [runner EXCEPT ![run.runner].faulted = TRUE]
      /\ pc' = "idle" /\ last'.status # "OK"
      /\ UNCHANGED <<owner, run, refused, memory, down, up, chip, result, sample>>
  BY DEF BarrierFails, EndSample, Return
<1>2. ChipTypes' /\ MemoryTypes'
  <2>1. MemoryTypes'
    BY <1>1, RunnerWritten
  <2> QED
    BY <1>0, <1>1, <2>1 DEF ChipTypes
<1>3. ~Healthy'
  BY <1>0, <1>1, RunFacts DEF RunnerOwns, Healthy
<1> QED
  BY <1>1, <1>2, <1>3 DEF LinkInvariant, RunnerOwns, Resting, Resetting, Progress,
     Sampling, Earned, SampleIsRight

\* A barrier has ended: the COMPLETE at the head is all there is on the link.
LEMMA SyncIsAnswered ==
  ASSUME SampleInvariant, SyncCompletes
  PROVE  /\ pc = "syncing" /\ Answered
         /\ up' = <<>> /\ down = <<>> /\ ~chip.busy /\ chip.out = {}
         /\ chip.time = run.target /\ InFlight' = {}
         /\ \A i \in 1..Len(up) : up[i].kind # "work"
         /\ \A row, e, lane : Work(row, e, lane) \notin InFlight
<1>0. /\ ChipTypes /\ RunnerInvariant /\ Clock /\ FramesAreDue /\ pc = "syncing"
      /\ up # <<>> /\ Head(up).kind = "complete" /\ up' = Tail(up)
      /\ UNCHANGED chip
  BY DEF SampleInvariant, LinkInvariant, Progress, Sampling, SyncCompletes
<1>1. /\ Len(up) \in Nat /\ Len(up) > 0 /\ Head(up) = up[1]
      /\ Len(up) = 1 => up' = <<>>
  BY <1>0, OneLess DEF FramesAreDue
<1>2. up[1].kind = "complete" /\ 1 \in 1..Len(up)
  BY <1>0, <1>1
<1>3. ~Asked(SyncFrame) /\ ~Answering
  BY <1>0, <1>2 DEF Asked, Answering
<1>4. Answered /\ chip.time + chip.left = run.target
  BY <1>0, <1>3 DEF Clock
<1>5. Len(up) = 1
  <2>1. ASSUME Len(up) # 1 PROVE 1 \in 1..Len(up) - 1
    BY <1>1, <2>1
  <2> QED
    BY <1>2, <1>4, <2>1 DEF Answered
<1>6. /\ up' = <<>> /\ down = <<>> /\ ~chip.busy /\ chip.out = {} /\ chip.left = 0
      /\ \A i \in 1..Len(up) : up[i].kind # "work"
  BY <1>0, <1>1, <1>2, <1>4, <1>5 DEF Answered, ChipTypes
<1>7. chip.time = run.target
  BY <1>0, <1>4, <1>6 DEF ChipTypes
<1>8. InFlight' = {}
  <2>1. 1..Len(up') = {}
    BY <1>6, EmptySeq
  <2> QED
    BY <1>0, <1>6, <2>1 DEF InFlight
<1>9. \A row, e, lane : Work(row, e, lane) \notin InFlight
  BY <1>6 DEF InFlight, Work
<1> QED
  BY <1>0, <1>4, <1>6, <1>7, <1>8, <1>9

\* The barrier was passed with every frame in order.
LEMMA SyncIsPassed ==
  ASSUME SampleInvariant, SyncCompletes, ~refused PROVE LinkInvariant'
<1>0. /\ ChipTypes /\ MemoryTypes /\ RunnerInvariant /\ RunnerOwns
      /\ InputsArrive /\ Clock /\ Computed /\ FramesAreDue /\ Assembled
      /\ pc = "syncing"
  BY SyncIsAnswered DEF SampleInvariant, LinkInvariant, Progress, Sampling
<1> DEFINE c == run.chunk
           t == run.timestep
           end == CompletionSync(run.runner)
<1>1. /\ Answered /\ up' = <<>> /\ down = <<>> /\ ~chip.busy /\ chip.out = {}
      /\ chip.time = run.target /\ InFlight' = {}
      /\ \A row, e, lane : Work(row, e, lane) \notin InFlight
  BY SyncIsAnswered
<1>2. /\ runner' = [runner EXCEPT ![run.runner].completed = run.target]
      /\ \/ /\ run.target < T /\ pc' = "sending"
            /\ run' = [run EXCEPT !.timestep = t + 1, !.chunk = 0]
         \/ run.target = T /\ end > T /\ pc' = "completing" /\ run' = run
         \/ /\ run.target >= T /\ (run.target = T => ~(end > T)) /\ run' = run
            /\ pc' = "idle"
      /\ UNCHANGED <<owner, refused, memory, down, chip, result, sample>>
  BY DEF SyncCompletes, NextTimestep, MustCompletePipeline, EndSample
<1>3. /\ run.runner \in Runners /\ t \in 0..T - 1 /\ t \in Rows /\ c \in Nat
      /\ run.target \in Nat /\ T \in Nat \ {0} /\ end \in Nat /\ end >= T
      /\ Mine.chunks \in Nat \ {0} /\ Mine.latency \in Nat \ {0}
      /\ end = Mine.latency + T - 1
      /\ run.submitted = t + 1
  BY <1>0, RunFacts, ArtifactFacts DEF RunnerInvariant, RowsSubmitted, Mine
<1>4. \/ run.target = t + 1
      \/ run.target = end /\ t = T - 1
  BY <1>0 DEF Clock
<1>5. run.target <= end
  BY <1>3, <1>4
<1>6. /\ run'.runner = run.runner /\ run'.submitted = run.submitted
      /\ run'.target = run.target
      /\ pc' = "sending" => run'.timestep = t + 1 /\ run'.chunk = 0
      /\ pc' # "sending" => run' = run
  BY <1>0, <1>2 DEF RunnerInvariant, RunnerTypes, RunRecord
<1>7. /\ runner'[run.runner].completed = run.target
      /\ runner'[run.runner].faulted = runner[run.runner].faulted
  BY <1>0, <1>2, RunFacts
<1>8. ChipTypes' /\ MemoryTypes'
  <2>1. /\ \A x \in Runners : runner'[x].completed <= CompletionSync(x)
    BY <1>0, <1>2, <1>3, <1>5, RunFacts DEF MemoryTypes
  <2>2. run'.chunk <= Mine.chunks
    BY <1>0, <1>3, <1>6 DEF MemoryTypes
  <2> QED
    BY <1>0, <1>2, <1>6, <2>1, <2>2 DEF ChipTypes, MemoryTypes, Mine, Tensor, memory
<1>9. Healthy' /\ RunnerOwns' /\ Resetting'
  BY <1>0, <1>2, <1>6, <1>7 DEF RunnerOwns, Resetting, Healthy
<1>10. Part(0)' = <<>> /\ 1..0 = {} /\ Len(down) = 0
  BY <1>1, EmptySeq DEF Part
<1>11. Quiet'
  BY <1>1, <1>2, <1>10 DEF Quiet
<1>12. /\ Computed'
       /\ \A row, e : Got(row, e)' = Got(row, e) /\ MaskOf(row, e)' = MaskOf(row, e)
  <2>1. Computed'
    BY <1>0, <1>2, <1>6 DEF Computed, Mine
  <2>2. \A row, e : Got(row, e)' = Got(row, e)
    BY <1>1, <1>2, <1>6 DEF Got, Work, Lanes
  <2> QED
    BY <1>6, <2>1, <2>2 DEF MaskOf, Lanes
<1>13. FramesAreDue'
  <2>1. <<>> \in Seq(UpFrame' \union {CompleteFrame}) /\ 1..Len(up') = {}
    BY <1>1, <1>10, EmptySeq
  <2> QED
    BY <1>1, <1>2, <2>1 DEF FramesAreDue, CompleteFrame
<1>14. Assembled'
  BY <1>0, <1>2, <1>6, <1>12 DEF Assembled, Lanes, Elements, Kind, memory
<1>15. chip.inputs[t] = Part(Mine.chunks) /\ c = Mine.chunks
  <2>1. ~Asked(SyncFrame) /\ c = Mine.chunks
    BY <1>0, <1>1 DEF Asked, InputsArrive
  <2>2. PICK n \in 0..c : chip.inputs[t] = Part(n) /\ Len(down) = c - n
    BY <1>0, <1>3, <2>1 DEF InputsArrive, Arrives
  <2>3. n = c
    BY <1>3, <1>10, <2>2, SMTT(60)
  <2> QED
    BY <2>1, <2>2, <2>3
<1>16. \A k : Chunk(k)' = Chunk(k) /\ Part(k)' = Part(k)
  BY <1>2, <1>6 DEF Chunk, Part
<1>17. CASE pc' = "sending"
  <2>1. run.target = t + 1 /\ t + 1 \in Rows
    BY <1>2, <1>3, <1>4, <1>17 DEF Rows
  <2>2. Clock'
    BY <1>1, <1>2, <1>6, <1>7, <1>17, <2>1 DEF Clock, Completed
  <2>3. Arrives(0)'
    <3>1. chip'.inputs[run'.timestep] = Part(0)'
      BY <1>0, <1>2, <1>3, <1>6, <1>10, <1>17, <2>1 DEF InputsArrive
    <3>2. Len(down') = run'.chunk - 0
                       + (IF pc' = "syncing" /\ Asked(SyncFrame)' THEN 1 ELSE 0)
      BY <1>2, <1>6, <1>10, <1>17
    <3>3. 1..run'.chunk - 0 = {}
      BY <1>6, <1>17
    <3> QED
      BY <3>1, <3>2, <3>3 DEF Arrives
  <2>4. /\ chip'.config = run'.runner
        /\ run'.chunk < Mine'.chunks
        /\ \A row \in Rows :
             /\ row < run'.timestep => chip'.inputs[row] = Part(Mine.chunks)
             /\ row > run'.timestep => chip'.inputs[row] = <<>>
    <3>1. chip'.config = run'.runner /\ run'.chunk < Mine'.chunks
      BY <1>0, <1>2, <1>3, <1>6, <1>17 DEF InputsArrive, Mine
    <3>2. ASSUME NEW row \in Rows, row < t + 1 PROVE chip.inputs[row] = Part(Mine.chunks)
      <4>1. row = t \/ row < t
        BY <1>3, <3>2 DEF Rows
      <4> QED
        BY <1>0, <1>15, <4>1 DEF InputsArrive
    <3>3. ASSUME NEW row \in Rows, row > t + 1 PROVE chip.inputs[row] = <<>>
      <4>1. row > t
        BY <1>3, <3>3 DEF Rows
      <4> QED
        BY <1>0, <4>1 DEF InputsArrive
    <3> QED
      BY <1>2, <1>6, <1>17, <3>1, <3>2, <3>3
  <2>5. InputsArrive'
    <3>1. Part(Mine.chunks)' = Part(Mine.chunks) /\ 0 \in 0..run'.chunk
      BY <1>6, <1>16, <1>17 DEF Mine
    <3> QED
      BY <1>17, <2>3, <2>4, <3>1 DEF InputsArrive
  <2>6. Resting' /\ Progress'
    BY <1>2, <1>11, <1>12, <1>13, <1>14, <1>17, <2>2, <2>5 DEF Resting, Progress
  <2> QED
    BY <1>8, <1>9, <1>17, <2>6 DEF LinkInvariant, Earned, SampleIsRight
<1>18. CASE pc' = "completing"
  <2>1. Clock'
    BY <1>1, <1>2, <1>6, <1>7, <1>18 DEF Clock, Completed
  <2>2. PICK n \in 0..c : n = c
    BY <1>3
  <2>6. Arrives(n)'
    <3>1. chip'.inputs[run'.timestep] = Part(n)'
      BY <1>2, <1>15, <1>16, <1>18, <2>2
    <3>2. Len(down') = run'.chunk - n
                       + (IF pc' = "syncing" /\ Asked(SyncFrame)' THEN 1 ELSE 0)
      BY <1>2, <1>3, <1>10, <1>18, <2>2
    <3>3. 1..run'.chunk - n = {}
      BY <1>2, <1>3, <1>18, <2>2
    <3> QED
      BY <3>1, <3>2, <3>3 DEF Arrives
  <2>3. /\ chip'.config = run'.runner
        /\ run'.chunk = Mine'.chunks
        /\ \A row \in Rows :
             /\ row < run'.timestep => chip'.inputs[row] = Part(Mine.chunks)'
             /\ row > run'.timestep => chip'.inputs[row] = <<>>
    BY <1>0, <1>2, <1>15, <1>16, <1>18 DEF InputsArrive, Mine
  <2>4. InputsArrive'
    <3>1. n \in 0..run'.chunk
      BY <1>2, <1>3, <1>18, <2>2
    <3> QED
      BY <1>18, <2>3, <2>6, <3>1 DEF InputsArrive
  <2>5. Resting' /\ Progress'
    BY <1>2, <1>11, <1>12, <1>13, <1>14, <1>18, <2>1, <2>4 DEF Resting, Progress
  <2> QED
    BY <1>8, <1>9, <1>18, <2>5 DEF LinkInvariant, Earned, SampleIsRight
<1>19. CASE pc' = "idle"
  <2>1. run.target = end /\ t = T - 1
    BY <1>2, <1>3, <1>4, <1>19
  <2>2. ConfigComes(owner)'
    BY <1>0, <1>2, <1>10 DEF ConfigComes, InputsArrive, RunnerOwns
  <2>3. Resting'
    BY <1>2, <1>11, <1>19, <2>2 DEF Resting
  <2>4. ASSUME NEW row \in Rows
        PROVE  /\ result[row].of = sample
               /\ \A e \in Elements, lane \in Lanes :
                    output[row][e][lane] =
                      IF e \in result[row].fired THEN sample ELSE Zero
    <3>1. row + Mine.latency <= chip.time /\ row < run.submitted
      BY <1>1, <1>3, <2>1 DEF Rows
    <3>2. result[row].of = sample
      BY <1>0, <3>1 DEF Computed
    <3>3. ASSUME NEW e \in Elements, NEW lane \in Lanes
          PROVE  lane \in Got(row, e) <=> e \in result[row].fired
      BY <1>1 DEF Got
    <3> QED
      BY <1>0, <3>1, <3>2, <3>3 DEF Assembled
  <2>5. SampleIsRight'
    BY <1>2, <1>6, <2>4 DEF SampleIsRight, Elements, Lanes, memory
  <2> QED
    BY <1>8, <1>9, <1>19, <2>3, <2>5 DEF LinkInvariant, Progress, Sampling, Earned
<1> QED
  BY <1>2, <1>17, <1>18, <1>19

LEMMA SyncEnds ==
  ASSUME SampleInvariant, SyncCompletes PROVE LinkInvariant'
<1>1. CASE refused
  <2>0. ChipTypes /\ MemoryTypes /\ RunnerInvariant /\ RunnerOwns /\ pc # "idle"
    BY DEF SampleInvariant, LinkInvariant, SyncCompletes
  <2>1. /\ runner' = [runner EXCEPT ![run.runner].faulted = TRUE]
        /\ pc' = "idle" /\ last'.status # "OK"
        /\ UNCHANGED <<owner, run, refused, memory, down, chip, result, sample>>
    BY <1>1 DEF SyncCompletes, EndSample, Return
  <2>2. ChipTypes' /\ MemoryTypes'
    <3>1. MemoryTypes'
      BY <2>1, RunnerWritten
    <3> QED
      BY <2>0, <2>1, <3>1 DEF ChipTypes
  <2>3. ~Healthy'
    BY <2>0, <2>1, RunFacts DEF RunnerOwns, Healthy
  <2> QED
    BY <2>1, <2>2, <2>3 DEF LinkInvariant, RunnerOwns, Resting, Resetting, Progress,
       Sampling, Earned, SampleIsRight
<1> QED
  BY <1>1, SyncIsPassed

(***************************************************************************)
(* Frames that arrive.                                                     *)
(***************************************************************************)

\* A frame leaves the uplink in order and once; whatever becomes of it, the
\* barrier's answer is where it was.
LEMMA FrameLeaves ==
  ASSUME SampleInvariant, HandleFrame
  PROVE  /\ pc = "syncing" /\ up[1] \in UpFrame /\ up[1] \in InFlight
         /\ up[1].kind = "work"
         /\ InFlight = InFlight' \union {up[1]}
         /\ up[1].row < run.submitted => up[1] \notin InFlight' /\ Awaited(up[1])
         /\ InputsArrive' /\ Clock' /\ Computed' /\ FramesAreDue'
<1>0. /\ ChipTypes /\ RunnerInvariant /\ Resetting
      /\ pc \in {"resetting", "syncing"}
      /\ up # <<>> /\ Head(up).kind = "work" /\ up' = Tail(up)
      /\ UNCHANGED <<owner, runner, pc, run, down, chip, result, sample>>
  BY DEF SampleInvariant, LinkInvariant, HandleFrame, Waiting
<1>1. pc = "syncing"
  <2>1. ASSUME pc = "resetting" PROVE FALSE
    <3>1. up = <<CompleteFrame>>
      BY <1>0, <2>1 DEF Resetting, Asked
    <3>2. Head(up).kind = "complete"
      BY <3>1 DEF CompleteFrame
    <3> QED
      BY <1>0, <3>2
  <2> QED
    BY <1>0, <2>1
<1>2. InputsArrive /\ Clock /\ Computed /\ FramesAreDue
  BY <1>1 DEF SampleInvariant, LinkInvariant, Progress, Sampling
<1> DEFINE Coming == UpFrame \union {CompleteFrame}
<1>3. /\ up \in Seq(Coming) /\ up' \in Seq(Coming)
      /\ Len(up) \in Nat /\ Len(up) > 0 /\ Head(up) = up[1] /\ Len(up') = Len(up) - 1
      /\ \A i \in 1..Len(up') : up'[i] = up[i + 1]
      /\ Len(up) = 1 => up' = <<>>
  <2>1. up \in Seq(Coming)
    BY <1>2 DEF FramesAreDue
  <2> HIDE DEF Coming
  <2> QED
    BY <1>0, <2>1, OneLess
<1>4. 1 \in 1..Len(up) /\ up[1].kind = "work"
  BY <1>0, <1>3
<1>5. up[1] \in UpFrame
  <2>1. up[1] \in Coming
    BY <1>3, <1>4, ElementOfSeq
  <2> QED
    BY <1>4, <2>1 DEF CompleteFrame
<1>6. InFlight = InFlight' \union {up[1]} /\ up[1] \in InFlight
  <2>1. {up[i] : i \in 1..Len(up)} = {up'[i] : i \in 1..Len(up')} \union {up[1]}
    <3>1. ASSUME NEW f \in {up[i] : i \in 1..Len(up)}
          PROVE  f \in {up'[i] : i \in 1..Len(up')} \union {up[1]}
      <4>1. PICK i \in 1..Len(up) : f = up[i]
        OBVIOUS
      <4>2. CASE i = 1
        BY <4>1, <4>2
      <4>3. CASE i # 1
        <5>1. i - 1 \in 1..Len(up') /\ (i - 1) + 1 = i
          BY <1>3, <4>3
        <5>2. up'[i - 1] = f
          BY <1>3, <4>1, <5>1
        <5> QED
          BY <5>1, <5>2
      <4> QED
        BY <4>2, <4>3
    <3>2. ASSUME NEW f \in {up'[i] : i \in 1..Len(up')}
          PROVE  f \in {up[i] : i \in 1..Len(up)}
      <4>1. PICK i \in 1..Len(up') : f = up'[i]
        OBVIOUS
      <4>2. i + 1 \in 1..Len(up) /\ f = up[i + 1]
        BY <1>3, <4>1
      <4> QED
        BY <4>2
    <3> QED
      BY <1>4, <3>1, <3>2
  <2>2. InFlight' = {up'[i] : i \in 1..Len(up')} \union chip.out
    BY <1>0 DEF InFlight
  <2> QED
    BY <1>4, <2>1, <2>2 DEF InFlight
<1>7. up[1].row < run.submitted => up[1] \notin InFlight' /\ Awaited(up[1])
  <2> SUFFICES ASSUME up[1].row < run.submitted
               PROVE  up[1] \notin InFlight' /\ Awaited(up[1])
    OBVIOUS
  <2>1. ~(up[1].row >= run.submitted)
    BY <1>0, <1>5, RunFacts DEF UpFrame
  <2>2. up[1] \notin chip.out
    BY <1>2, <1>4, <2>1 DEF FramesAreDue
  <2>3. ASSUME NEW i \in 1..Len(up'), up'[i] = up[1] PROVE FALSE
    <3>1. i + 1 \in 1..Len(up) /\ up[i + 1] = up[1] /\ i + 1 # 1
      BY <1>3, <2>3
    <3> QED
      BY <1>2, <1>4, <2>1, <3>1 DEF FramesAreDue
  <2>4. up[1] \notin InFlight'
    BY <1>0, <2>2, <2>3 DEF InFlight
  <2> QED
    BY <1>2, <1>4, <1>6, <2>1, <2>4 DEF FramesAreDue
<1>8. (Answering /\ Answering') \/ (Answered /\ Answered')
  <2>1. ~Asked(SyncFrame)
    BY <1>0 DEF Asked
  <2>2. CASE Answering
    BY <1>0, <1>3, <2>2 DEF Answering
  <2>3. CASE Answered
    <3>1. Len(up) # 1
      BY <1>4, <2>3 DEF Answered, CompleteFrame
    <3>2. Len(up') \in 1..Len(up') /\ Len(up') + 1 = Len(up) /\ Len(up') \in Nat
      BY <1>3, <3>1
    <3>3. up'[Len(up')] = CompleteFrame /\ up' # <<>>
      <4>1. up'[Len(up')] = CompleteFrame
        BY <1>3, <2>3, <3>2 DEF Answered
      <4> QED
        BY <3>2, <4>1, EmptySeq
    <3>4. ASSUME NEW i \in 1..Len(up') - 1 PROVE up'[i].kind = "work"
      <4>1. i + 1 \in 1..Len(up) - 1 /\ up'[i] = up[i + 1]
        BY <1>3, <3>2
      <4> QED
        BY <2>3, <4>1 DEF Answered
    <3> QED
      BY <1>0, <2>3, <3>3, <3>4 DEF Answered, CompleteFrame
  <2> QED
    BY <1>1, <1>2, <2>1, <2>2, <2>3 DEF Clock
<1>9. ~Asked(SyncFrame) /\ ~Asked(SyncFrame)'
  BY <1>0, <1>8 DEF Asked, Answering, Answered
<1>10. InputsArrive'
  <2>1. \A n : Part(n)' = Part(n) /\ InputFrame(n)' = InputFrame(n)
    BY <1>0 DEF Part, Chunk, InputFrame
  <2>2. \A n : Arrives(n)' <=> Arrives(n)
    BY <1>0, <1>9, <2>1 DEF Arrives
  <2> QED
    BY <1>0, <1>2, <2>1, <2>2 DEF InputsArrive, Mine
<1>11. Clock'
  BY <1>0, <1>1, <1>2, <1>8, <1>9 DEF Clock, Completed
<1>12. Computed'
  BY <1>0, <1>2 DEF Computed, Mine
<1>13. FramesAreDue'
  <2>1. UpFrame' = UpFrame /\ \A f : Awaited(f)' = Awaited(f)
    BY <1>0 DEF UpFrame, Mine, Awaited, Work
  <2>2. up' \in Seq(UpFrame' \union {CompleteFrame}')
    BY <1>3, <2>1 DEF CompleteFrame
  <2>3. chip'.out \subseteq UpFrame'
    BY <1>0, <1>2, <2>1 DEF FramesAreDue
  <2>4. \A f \in InFlight' :
          f.kind = "work" => f.row >= run'.submitted \/ Awaited(f)'
    BY <1>0, <1>2, <1>6, <2>1 DEF FramesAreDue
  <2>5. \A i, j \in 1..Len(up') :
          up'[i] = up'[j] /\ up'[i].kind = "work" => i = j \/ up'[i].row >= run'.submitted
    <3> SUFFICES ASSUME NEW i \in 1..Len(up'), NEW j \in 1..Len(up'),
                        up'[i] = up'[j], up'[i].kind = "work"
                 PROVE  i = j \/ up'[i].row >= run'.submitted
      OBVIOUS
    <3>1. /\ i + 1 \in 1..Len(up) /\ j + 1 \in 1..Len(up)
          /\ up'[i] = up[i + 1] /\ up'[j] = up[j + 1]
      BY <1>3, SMTT(60)
    <3>2. i + 1 = j + 1 \/ up[i + 1].row >= run.submitted
      BY <1>2, <3>1 DEF FramesAreDue
    <3> QED
      BY <1>0, <3>1, <3>2
  <2>6. \A i \in 1..Len(up') : up'[i] \in chip'.out => up'[i].row >= run'.submitted
    <3> SUFFICES ASSUME NEW i \in 1..Len(up'), up'[i] \in chip.out
                 PROVE  up'[i].row >= run.submitted
      BY <1>0
    <3>1. i + 1 \in 1..Len(up) /\ up'[i] = up[i + 1]
      BY <1>3
    <3> QED
      BY <1>2, <3>1 DEF FramesAreDue
  <2> QED
    BY <2>2, <2>3, <2>4, <2>5, <2>6 DEF FramesAreDue
<1> QED
  BY <1>1, <1>4, <1>5, <1>6, <1>7, <1>10, <1>11, <1>12, <1>13

\* An awaited frame adds its lane to what has been stored.
LEMMA LaneIsStored ==
  ASSUME SampleInvariant, HandleFrame, Store(up[1]), ~Refuses(up[1]), ~refused
  PROVE  MemoryTypes' /\ Assembled'
<1>0. /\ ChipTypes /\ MemoryTypes /\ RunnerInvariant /\ RunnerOwns
      /\ UNCHANGED <<owner, runner, pc, run, down, chip, result, sample>>
  BY DEF SampleInvariant, LinkInvariant, HandleFrame
<1>1. /\ pc = "syncing" /\ up[1] \in UpFrame /\ up[1] \in InFlight
      /\ InFlight = InFlight' \union {up[1]}
      /\ up[1].row < run.submitted => up[1] \notin InFlight' /\ Awaited(up[1])
  BY FrameLeaves
<1>2. Assembled
  BY <1>1 DEF SampleInvariant, LinkInvariant, Progress, Sampling
<1>2a. PICK r, e, l : r = up[1].row /\ e = up[1].elem /\ l = up[1].lane
  OBVIOUS
<1> DEFINE frame == up[1]
           received == mask[run.runner][r][e]
           cell == output[r][e]
           x == run.runner
<1>3. /\ r \in Rows /\ refused' = refused
      /\ output' = [output EXCEPT ![r][e] = Stored(cell, received, frame)]
      /\ mask' = [mask EXCEPT ![x][r][e] = MaskAfter(received, frame)]
  BY <1>2a DEF Store, Received
<1>4. /\ ~(r >= run.submitted) /\ (Kind = "voltage" => l \notin received)
      /\ run.submitted \in 0..T /\ x \in Runners
  BY <1>0, <1>2a, RunFacts DEF Refuses, Received
<1>5. r < run.submitted
  BY <1>3, <1>4 DEF Rows
<1>6. /\ frame = Work(r, e, l) /\ e \in result[r].fired
      /\ frame \notin InFlight'
  BY <1>1, <1>5, <1>2a DEF Awaited
<1>7. e \in Elements /\ l \in Lanes /\ frame.of = sample
  BY <1>1, <1>6, <1>2a DEF UpFrame, Elements, Lanes, Mine, Work
<1>8. Elements = Mine.elements /\ Lanes = Mine.lanes /\ Kind \in {"data", "voltage"}
  BY <1>4, ArtifactFacts DEF Elements, Lanes, Mine, Kind
<1>9. sample \in LaneValues /\ sample \in 1..MaxSamples /\ sample # Zero
  BY <1>0, <1>1, RunnerAssumption DEF ChipTypes, RunnerOwns, LaneValues, Zero
<1> HIDE DEF frame, received, cell, x
<1>10. /\ l \notin Got(r, e) /\ Got(r, e)' = Got(r, e) \union {l}
       /\ \A row, el : row # r \/ el # e => Got(row, el)' = Got(row, el)
  <2>1. frame = Work(r, e, l) /\ InFlight = InFlight' \union {frame} /\ frame \in InFlight
    BY <1>1, <1>6 DEF frame
  <2>2. \A row, el, lane : Work(row, el, lane) = frame
                             <=> row = r /\ el = e /\ lane = l
    BY <2>1 DEF Work
  <2>3. \A row, el, lane : Work(row, el, lane)' = Work(row, el, lane)
    BY <1>0 DEF Work
  <2>4. Lanes' = Lanes /\ result' = result
    BY <1>0 DEF Lanes
  <2>5. \A row, el : Got(row, el)' =
          {lane \in Lanes : el \in result[row].fired /\ Work(row, el, lane) \notin InFlight'}
    BY <2>3, <2>4 DEF Got
  <2>6. l \notin Got(r, e)
    BY <2>1 DEF Got
  <2>7. ASSUME NEW lane
        PROVE  lane \in Got(r, e)' <=> lane \in Got(r, e) \union {l}
    BY <1>6, <1>7, <2>1, <2>2, <2>5, <2>7 DEF Got, frame
  <2>8. Got(r, e)' = Got(r, e) \union {l}
    BY <2>7
  <2>9. ASSUME NEW row, NEW el, row # r \/ el # e
        PROVE  Got(row, el)' = Got(row, el)
    BY <2>1, <2>2, <2>5, <2>9 DEF Got
  <2> QED
    BY <2>6, <2>8, <2>9
<1>11. /\ output \in [Rows -> [Mine.elements -> [Mine.lanes -> LaneValues]]]
       /\ mask[x] \in [Rows -> [Mine.elements -> SUBSET Mine.lanes]]
       /\ mask = [z \in Runners |-> mask[z]]
  BY <1>0, <1>4 DEF MemoryTypes, Tensor, Masks, Mine, x
<1>12. cell \in [Lanes -> LaneValues] /\ received \subseteq Lanes
  BY <1>3, <1>7, <1>8, <1>11 DEF cell, received, x
<1>13. \A lane \in Lanes : cell[lane] = IF lane \in Got(r, e) THEN sample ELSE Zero
  BY <1>2, <1>3, <1>5, <1>7 DEF Assembled, cell
<1>14. Kind = "voltage" => received = Got(r, e)
  <2> SUFFICES ASSUME Kind = "voltage" PROVE received = Got(r, e)
    OBVIOUS
  <2>1. received = MaskOf(r, e)
    BY <1>2, <1>3, <1>7 DEF Assembled, received, x
  <2>2. Got(r, e) # Lanes
    BY <1>7, <1>10
  <2> QED
    BY <2>1, <2>2 DEF MaskOf
<1> DEFINE stored == Stored(cell, received, frame)
           masked == MaskAfter(received, frame)
<1>15. /\ stored \in [Lanes -> LaneValues]
       /\ \A lane \in Lanes :
            stored[lane] = IF lane \in Got(r, e)' THEN sample ELSE Zero
  <2> DEFINE base == IF Kind = "voltage" /\ received = {} THEN ZeroCell ELSE cell
  <2>1. /\ base \in [Lanes -> LaneValues]
        /\ \A lane \in Lanes : base[lane] = IF lane \in Got(r, e) THEN sample ELSE Zero
    BY <1>12, <1>13, <1>14 DEF ZeroCell, LaneValues
  <2>2. base[l] = Zero
    BY <1>7, <1>10, <2>1
  <2>3. stored = [base EXCEPT ![l] = sample]
    <3>1. CASE Kind = "data"
      <4>1. base = cell
        BY <3>1
      <4>2. stored = [cell EXCEPT ![l] = sample]
        BY <1>7, <1>2a, <3>1 DEF Stored, frame
      <4> QED
        BY <4>1, <4>2
    <3>2. CASE Kind = "voltage"
      <4>1. stored = [base EXCEPT ![l] = IF base[l] = Zero THEN sample ELSE Wrong]
        BY <1>7, <1>2a, <3>2 DEF Stored, frame
      <4> QED
        BY <2>2, <4>1
    <3> QED
      BY <1>8, <3>1, <3>2
  <2> HIDE DEF base, stored
  <2> QED
    BY <1>7, <1>9, <1>10, <2>1, <2>3
<1>16. masked \subseteq Lanes /\ (Kind = "voltage" => masked = MaskOf(r, e)')
  <2>1. masked = IF Kind = "data" \/ received \union {l} = Lanes THEN {}
                 ELSE received \union {l}
    BY <1>2a DEF MaskAfter, frame
  <2>2. MaskOf(r, e)' = IF Got(r, e)' = Lanes THEN {} ELSE Got(r, e)'
    BY <1>0 DEF MaskOf, Lanes
  <2> HIDE DEF masked
  <2> QED
    BY <1>7, <1>10, <1>12, <1>14, <2>1, <2>2
<1> HIDE DEF stored, masked
<1>17. /\ output' \in [Rows -> [Mine.elements -> [Mine.lanes -> LaneValues]]]
       /\ output'[r][e] = stored
       /\ \A row \in Rows, el \in Elements :
            row # r \/ el # e => output'[row][el] = output[row][el]
  <2>1. output' = [output EXCEPT ![r][e] = stored]
    BY <1>3 DEF stored
  <2> QED
    BY <1>3, <1>7, <1>8, <1>11, <1>15, <2>1
<1>18. /\ mask'[x] \in [Rows -> [Mine.elements -> SUBSET Mine.lanes]]
       /\ mask'[x][r][e] = masked
       /\ \A row \in Rows, el \in Elements :
            row # r \/ el # e => mask'[x][row][el] = mask[x][row][el]
       /\ mask' = [z \in Runners |-> mask'[z]]
       /\ \A z \in Runners : z # x => mask'[z] = mask[z]
  <2> DEFINE m == [mask[x] EXCEPT ![r][e] = masked]
  <2>1. mask' = [mask EXCEPT ![x] = m]
    BY <1>3 DEF masked, x
  <2>2. /\ m \in [Rows -> [Mine.elements -> SUBSET Mine.lanes]]
        /\ m[r][e] = masked
        /\ \A row \in Rows, el \in Elements :
             row # r \/ el # e => m[row][el] = mask[x][row][el]
    BY <1>3, <1>7, <1>8, <1>11, <1>16
  <2>3. x \in Runners
    BY <1>4 DEF x
  <2> HIDE DEF m
  <2> QED
    BY <1>11, <2>1, <2>2, <2>3
<1>19. MemoryTypes'
  <2>1. \A z \in Runners : mask'[z] \in Masks(z)
    <3> SUFFICES ASSUME NEW z \in Runners PROVE mask'[z] \in Masks(z)
      OBVIOUS
    <3>1. CASE z = x
      BY <1>18, <3>1 DEF Masks, Mine, x
    <3>2. CASE z # x
      BY <1>0, <1>18, <3>2 DEF MemoryTypes
    <3> QED
      BY <3>1, <3>2
  <2>2. output' \in Tensor(run.runner)
    BY <1>17 DEF Tensor, Mine
  <2> QED
    BY <1>0, <1>3, <1>18, <2>1, <2>2 DEF MemoryTypes, Mine, Tensor
<1>20. Assembled'
  <2>1. Lanes' = Lanes /\ Elements' = Elements /\ Kind' = Kind
    BY <1>0 DEF Lanes, Elements, Kind
  <2>2. ASSUME NEW row \in Rows, row < run.submitted, NEW el \in Elements,
               NEW lane \in Lanes
        PROVE  output'[row][el][lane] = IF lane \in Got(row, el)' THEN sample ELSE Zero
    <3>1. CASE row = r /\ el = e
      BY <1>15, <1>17, <3>1
    <3>2. CASE row # r \/ el # e
      BY <1>2, <1>10, <1>17, <2>2, <3>2 DEF Assembled
    <3> QED
      BY <3>1, <3>2
  <2>3. ASSUME Kind = "voltage", NEW row \in Rows, NEW el \in Elements
        PROVE  mask'[x][row][el] = MaskOf(row, el)'
    <3>1. CASE row = r /\ el = e
      BY <1>16, <1>18, <2>3, <3>1
    <3>2. CASE row # r \/ el # e
      <4>1. MaskOf(row, el)' = MaskOf(row, el)
        BY <1>10, <2>1, <3>2 DEF MaskOf
      <4>2. mask[x][row][el] = MaskOf(row, el)
        BY <1>2, <2>3 DEF Assembled, x
      <4> QED
        BY <1>18, <3>2, <4>1, <4>2
    <3> QED
      BY <3>1, <3>2
  <2> QED
    BY <1>0, <1>3, <2>1, <2>2, <2>3 DEF Assembled, x
<1> QED
  BY <1>19, <1>20

LEMMA FrameIsStored ==
  ASSUME SampleInvariant, HandleFrame PROVE LinkInvariant'
<1>0. /\ ChipTypes /\ MemoryTypes /\ RunnerOwns
      /\ UNCHANGED <<owner, runner, pc, run, down, chip, result, sample, last>>
  BY DEF SampleInvariant, LinkInvariant, HandleFrame
<1>1. /\ pc = "syncing" /\ InputsArrive' /\ Clock' /\ Computed' /\ FramesAreDue'
  BY FrameLeaves
<1>2. ChipTypes'
  BY <1>0 DEF ChipTypes
<1>3. MemoryTypes' /\ Assembled'
  <2>1. CASE refused /\ UNCHANGED <<refused, memory>>
    BY <1>0, <2>1 DEF MemoryTypes, Mine, Tensor, Assembled, memory
  <2>2. CASE refused' = TRUE /\ UNCHANGED memory
    BY <1>0, <2>2 DEF MemoryTypes, Mine, Tensor, Assembled, memory
  <2>3. CASE ~refused /\ ~Refuses(Head(up)) /\ Store(Head(up))
    <3>1. Head(up) = up[1]
      BY <1>1, OneLess DEF HandleFrame, SampleInvariant, LinkInvariant, Progress,
         Sampling, FramesAreDue
    <3> QED
      BY <2>3, <3>1, LaneIsStored
  <2> QED
    BY <1>1, <2>1, <2>2, <2>3 DEF HandleFrame
<1>4. RunnerOwns' /\ Resting' /\ Resetting' /\ Earned'
  BY <1>0, <1>1 DEF RunnerOwns, Healthy, Resting, Resetting, Earned, SampleIsRight
<1> QED
  BY <1>0, <1>1, <1>2, <1>3, <1>4 DEF LinkInvariant, Progress

(***************************************************************************)
(* The chip takes what is on the way.                                      *)
(***************************************************************************)

LEMMA ConfigStillComes ==
  ASSUME ChipTypes, ChipTakes, NEW x, ConfigComes(x) PROVE ConfigComes(x)'
<1>1. /\ Len(down) \in Nat /\ Len(down) > 0
      /\ Len(down') = Len(down) - 1
      /\ \A i \in 1..Len(down') : down'[i] = down[i + 1]
      /\ down[1].kind = "config" => chip'.config = down[1].whose
      /\ down[1].kind # "config" => chip'.config = chip.config
  <2>1. CASE /\ down[1].kind = "config"
             /\ chip' = [chip EXCEPT !.config = down[1].whose]
    BY <2>1, TakesFrame DEF ChipTypes
  <2>2. CASE /\ down[1].kind = "input"
             /\ \E row, new : chip' = [chip EXCEPT !.inputs[row] = new]
    BY <2>2, TakesFrame DEF ChipTypes
  <2>3. CASE /\ down[1] = InitFrame
             /\ chip' = [IdleChip EXCEPT !.config = chip.config, !.busy = TRUE]
    BY <2>3, TakesFrame DEF InitFrame, IdleChip
  <2>4. CASE /\ down[1].kind = "sync"
             /\ chip' = [chip EXCEPT !.busy = TRUE, !.left = down[1].steps]
    BY <2>4, TakesFrame DEF ChipTypes
  <2> QED
    BY <2>1, <2>2, <2>3, <2>4, TakesFrame, ZenonT(60)
<1>2. 1 \in 1..Len(down)
  BY <1>1
<1>3. ASSUME NEW i \in 1..Len(down), \A j \in i + 1..Len(down) : down[j].kind # "config"
      PROVE  \A j \in i..Len(down') : down'[j].kind # "config"
  <2> SUFFICES ASSUME NEW j \in i..Len(down') PROVE down'[j].kind # "config"
    OBVIOUS
  <2>1. j \in 1..Len(down') /\ j + 1 \in i + 1..Len(down)
    BY <1>1
  <2> QED
    BY <1>1, <1>3, <2>1
<1>4. CASE chip.config = x /\ \A i \in 1..Len(down) : down[i].kind # "config"
  <2>1. chip'.config = x
    BY <1>1, <1>2, <1>4
  <2>2. \A j \in 1 + 1..Len(down) : j \in 1..Len(down)
    BY <1>1
  <2> QED
    BY <1>2, <1>3, <1>4, <2>1, <2>2 DEF ConfigComes
<1>5. ASSUME NEW i \in 1..Len(down),
             /\ down[i] = [kind |-> "config", whose |-> x]
             /\ \A j \in i + 1..Len(down) : down[j].kind # "config"
      PROVE  ConfigComes(x)'
  <2>1. CASE i = 1
    <3>1. chip'.config = x
      BY <1>1, <1>5, <2>1
    <3> QED
      BY <1>3, <1>5, <2>1, <3>1 DEF ConfigComes
  <2>2. CASE i # 1
    <3>1. i - 1 \in 1..Len(down') /\ (i - 1) + 1 = i
      BY <1>1, <2>2
    <3>2. down'[i - 1] = [kind |-> "config", whose |-> x]
      BY <1>1, <1>5, <3>1
    <3>3. \A j \in (i - 1) + 1..Len(down') : down'[j].kind # "config"
      BY <1>3, <1>5, <3>1
    <3> QED
      BY <3>1, <3>2, <3>3 DEF ConfigComes
  <2> QED
    BY <2>1, <2>2
<1> QED
  BY <1>4, <1>5 DEF ConfigComes

\* A request for a barrier is the last frame to be taken.
LEMMA RequestIsTaken ==
  ASSUME ChipTypes, ChipTakes, NEW frame, Asked(frame)
  PROVE  \/ Len(down) = 1 /\ down[1] = frame /\ down' = <<>>
         \/ /\ Len(down) > 1 /\ ~IsControl(down[1])
            /\ down' # <<>> /\ down'[Len(down')] = frame
            /\ \A i \in 1..Len(down') - 1 : ~IsControl(down'[i])
<1>1. /\ Len(down) \in Nat /\ Len(down) > 0
      /\ down' \in Seq(DownFrame) /\ Len(down') = Len(down) - 1
      /\ \A i \in 1..Len(down') : down'[i] = down[i + 1]
  BY TakesFrame
<1>2. CASE Len(down) = 1
  <2>1. Len(down') = 0
    BY <1>1, <1>2
  <2>2. down' = <<>>
    BY <1>1, <2>1, EmptySeq
  <2> QED
    BY <1>2, <2>2 DEF Asked
<1>3. CASE Len(down) > 1
  <2>1. /\ 1 \in 1..Len(down) - 1 /\ Len(down') \in 1..Len(down')
        /\ Len(down') + 1 = Len(down)
    BY <1>1, <1>3
  <2>2. down'[Len(down')] = frame /\ ~IsControl(down[1])
    BY <1>1, <2>1 DEF Asked
  <2>3. down' # <<>>
    BY <2>1, EmptySeq
  <2>4. ASSUME NEW i \in 1..Len(down') - 1 PROVE ~IsControl(down'[i])
    <3>1. i \in 1..Len(down') /\ i + 1 \in 1..Len(down) - 1
      BY <1>1
    <3>2. down'[i] = down[i + 1]
      BY <1>1, <3>1
    <3> QED
      BY <3>1, <3>2 DEF Asked
  <2> QED
    BY <1>3, <2>2, <2>3, <2>4
<1> QED
  BY <1>1, <1>2, <1>3

LEMMA PartGrows ==
  ASSUME NEW n \in Nat, Part(n) \in Seq(ChunkRecord), Chunk(n + 1) \in ChunkRecord
  PROVE  Append(Part(n), Chunk(n + 1)) = Part(n + 1)
<1> DEFINE s == Append(Part(n), Chunk(n + 1))
<1>1. Len(Part(n)) = n
  <2>1. DOMAIN Part(n) = 1..n
    BY DEF Part
  <2>2. Len(Part(n)) \in Nat /\ 1..n = 1..Len(Part(n))
    BY <2>1, LenProperties
  <2> QED
    BY <2>2
<1>2. /\ s \in Seq(ChunkRecord) /\ Len(s) = n + 1 /\ s[n + 1] = Chunk(n + 1)
      /\ \A i \in 1..n : s[i] = Part(n)[i]
  BY <1>1, AppendProperties
<1>3. s \in [1..n + 1 -> ChunkRecord]
  <2> HIDE DEF s
  <2> QED
    BY <1>2, LenProperties
<1>4. ASSUME NEW i \in 1..n + 1 PROVE s[i] = Chunk(i)
  <2>1. CASE i = n + 1
    BY <1>2, <2>1
  <2>2. CASE i \in 1..n
    BY <1>2, <2>2 DEF Part
  <2>3. i = n + 1 \/ i \in 1..n
    OBVIOUS
  <2> QED
    BY <2>1, <2>2, <2>3
<1> HIDE DEF s
<1>5. s = [i \in 1..n + 1 |-> s[i]]
  BY <1>3
<1>6. s = [i \in 1..n + 1 |-> Chunk(i)]
  BY <1>4, <1>5
<1> QED
  BY <1>6 DEF s, Part

\* Chunks and configuration leave what was computed, and the chip idle.
LEMMA ChunkIsTaken ==
  ASSUME ChipTypes, ChipTakes, ~IsControl(down[1])
  PROVE  /\ chip'.busy = chip.busy /\ chip'.left = chip.left
         /\ chip'.time = chip.time /\ chip'.of = chip.of /\ chip'.out = chip.out
         /\ result' = result
         /\ down[1].kind # "input" => chip'.inputs = chip.inputs
<1>1. CASE /\ chip' = [chip EXCEPT !.config = down[1].whose]
           /\ result' = result
  BY <1>1 DEF ChipTypes
<1>2. CASE /\ down[1].kind = "input" /\ result' = result
           /\ \E row, new : chip' = [chip EXCEPT !.inputs[row] = new]
  BY <1>2 DEF ChipTypes
<1>3. ~(down[1] = InitFrame) /\ down[1].kind # "sync"
  BY DEF IsControl, InitFrame
<1>4. ASSUME chip' = [chip EXCEPT !.inputs[down[1].row] = Append(@,
                        [chunk |-> down[1].chunk, whose |-> down[1].whose,
                         sample |-> down[1].sample])]
      PROVE  \E row, new : chip' = [chip EXCEPT !.inputs[row] = new]
  BY <1>4
<1> QED
  BY <1>1, <1>2, <1>3, <1>4, TakesFrame

\* The link at rest stays so, and the configuration keeps coming.
LEMMA LinkRests ==
  ASSUME SampleInvariant, ChipTakes PROVE Resting'
<1>0. /\ ChipTypes /\ Resting
      /\ UNCHANGED <<owner, runner, pc, up>>
  BY DEF SampleInvariant, LinkInvariant, ChipTakes
<1>1. ASSUME Quiet PROVE Quiet'
  <2>1. /\ Len(down) \in Nat /\ Len(down) > 0 /\ Len(down') = Len(down) - 1
        /\ \A i \in 1..Len(down') : down'[i] = down[i + 1]
    BY <1>0, TakesFrame
  <2>2. ~IsControl(down[1])
    BY <1>1, <2>1 DEF Quiet
  <2>3. ~chip'.busy
    BY <1>0, <1>1, <2>2, ChunkIsTaken DEF Quiet
  <2>4. ASSUME NEW i \in 1..Len(down') PROVE ~IsControl(down'[i])
    <3>1. i + 1 \in 1..Len(down) /\ down'[i] = down[i + 1]
      BY <2>1
    <3> QED
      BY <1>1, <3>1 DEF Quiet
  <2> QED
    BY <1>0, <1>1, <2>3, <2>4 DEF Quiet, IsControl
<1>2. ASSUME ConfigComes(owner) PROVE ConfigComes(owner)'
  <2>1. PICK x : x = owner
    OBVIOUS
  <2>2. ConfigComes(x)'
    BY <1>0, <1>2, <2>1, ConfigStillComes
  <2> QED
    BY <1>0, <2>1, <2>2
<1> QED
  BY <1>0, <1>1, <1>2 DEF Resting, Healthy

LEMMA ResetIsTaken ==
  ASSUME SampleInvariant, ChipTakes PROVE Resetting'
<1> SUFFICES ASSUME pc' = "resetting" PROVE Resetting'
  BY DEF Resetting
<1>0. /\ ChipTypes /\ Resetting /\ pc = "resetting" /\ down # <<>> /\ ~chip.busy
      /\ UNCHANGED <<owner, runner, pc, run, refused, memory, up, sample, last>>
  BY DEF SampleInvariant, LinkInvariant, ChipTakes
<1>1. Asked(InitFrame) /\ ConfigComes(run.runner)
  BY <1>0 DEF Resetting, Answering, Answered
<1>2. /\ ~refused' /\ run'.timestep = 0 /\ run'.chunk = 0
      /\ Kind' = "voltage" => mask'[run'.runner] = NothingReceived(run'.runner)
  BY <1>0 DEF Resetting, Kind, memory
<1>3. ConfigComes(run.runner)'
  <2>1. PICK x : x = run.runner
    OBVIOUS
  <2>2. ConfigComes(x)'
    BY <1>0, <1>1, <2>1, ConfigStillComes
  <2> QED
    BY <1>0, <2>1, <2>2
<1>4. CASE Len(down) = 1 /\ down[1] = InitFrame /\ down' = <<>>
  <2>1. /\ chip' = [IdleChip EXCEPT !.config = chip.config, !.busy = TRUE]
        /\ result' = NoResult
    BY <1>0, <1>4, TakesFrame DEF InitFrame
  <2>2. 1..Len(down') = {}
    BY <1>4
  <2>3. chip'.config = run'.runner
    BY <1>3, <2>2 DEF ConfigComes
  <2>4. Cleared'
    BY <2>1, <2>3 DEF Cleared, IdleChip, NoResult
  <2>5. up' = <<>> /\ 1..Len(up') = {}
    BY <1>0, <1>1, EmptySeq DEF Asked
  <2>6. Answering'
    BY <1>4, <2>1, <2>5 DEF Answering, IdleChip
  <2> QED
    BY <1>2, <2>4, <2>5, <2>6 DEF Resetting, NothingReceived
<1>5. CASE /\ Len(down) > 1 /\ ~IsControl(down[1])
           /\ down' # <<>> /\ down'[Len(down')] = InitFrame
           /\ \A i \in 1..Len(down') - 1 : ~IsControl(down'[i])
  <2>1. ~chip'.busy
    BY <1>0, <1>5, ChunkIsTaken
  <2>2. Asked(InitFrame)'
    BY <1>0, <1>1, <1>5, <2>1 DEF Asked, InitFrame, IsControl
  <2> QED
    BY <1>2, <1>3, <2>2 DEF Resetting, NothingReceived
<1> QED
  BY <1>0, <1>1, <1>4, <1>5, RequestIsTaken

\* What the chip has computed, and what is due, as long as it takes no INIT.
LEMMA ComputedKept ==
  ASSUME UNCHANGED <<run, refused, memory, up, sample, result>>,
         chip'.time = chip.time, chip'.of = chip.of, chip'.out = chip.out
  PROVE  /\ Computed => Computed'
         /\ FramesAreDue => FramesAreDue'
         /\ Assembled => Assembled'
<1>1. Mine' = Mine /\ InFlight' = InFlight /\ Lanes' = Lanes /\ Elements' = Elements
      /\ Kind' = Kind
  BY DEF Mine, InFlight, Lanes, Elements, Kind
<1>2. Computed => Computed'
  BY <1>1 DEF Computed
<1>3. \A row, e, lane : Work(row, e, lane)' = Work(row, e, lane)
  BY DEF Work
<1>4. FramesAreDue => FramesAreDue'
  BY <1>1, <1>3 DEF FramesAreDue, UpFrame, Awaited, CompleteFrame
<1>5. \A row, e : Got(row, e)' = Got(row, e) /\ MaskOf(row, e)' = MaskOf(row, e)
  BY <1>1, <1>3 DEF Got, MaskOf
<1>6. Assembled => Assembled'
  BY <1>1, <1>5 DEF Assembled, memory
<1> QED
  BY <1>2, <1>4, <1>6

\* A chunk of the current row joins those on the chip, or the barrier begins.
LEMMA SampleIsTaken ==
  ASSUME SampleInvariant, ChipTakes PROVE Progress'
<1> SUFFICES ASSUME pc' \in {"sending", "sent", "syncing", "completing"} PROVE Progress'
  BY DEF Progress, Sampling
<1>0. /\ ChipTypes /\ Resting /\ RunnerInvariant /\ down # <<>> /\ ~chip.busy
      /\ InputsArrive /\ Clock /\ Computed /\ FramesAreDue /\ Assembled
      /\ pc \in {"sending", "sent", "completing"} => ~refused
      /\ UNCHANGED <<owner, runner, pc, run, refused, memory, up, sample, last>>
  BY DEF SampleInvariant, LinkInvariant, ChipTakes, Progress, Sampling
<1> DEFINE c == run.chunk
           t == run.timestep
<1>1. /\ Len(down) \in Nat /\ Len(down) > 0 /\ Len(down') = Len(down) - 1
      /\ \A i \in 1..Len(down') : down'[i] = down[i + 1]
  BY <1>0, TakesFrame
<1>2. /\ Mine' = Mine /\ SyncFrame' = SyncFrame
      /\ \A k : InputFrame(k)' = InputFrame(k) /\ Part(k)' = Part(k)
  BY <1>0 DEF Mine, SyncFrame, Completed, InputFrame, Part, Chunk
<1>3. PICK n \in 0..c : Arrives(n)
  BY <1>0 DEF InputsArrive
<1>4. /\ c \in Nat /\ n \in Nat /\ n <= c /\ t \in Rows /\ run.runner \in Runners
      /\ sample \in Int
  BY <1>0, RunFacts DEF ChipTypes
<1>5. pc = "syncing" => Asked(SyncFrame)
  BY <1>0 DEF Clock, Answering, Answered
<1>6. CASE n < c
  <2>1. 1 \in 1..c - n /\ down[1] = InputFrame(n + 1)
    BY <1>3, <1>4, <1>6 DEF Arrives
  <2>2. ~IsControl(down[1])
    BY <2>1 DEF IsControl, InputFrame
  <2>3. /\ chip'.busy = chip.busy /\ chip'.left = chip.left
        /\ chip'.time = chip.time /\ chip'.of = chip.of /\ chip'.out = chip.out
        /\ result' = result
    BY <1>0, <2>2, ChunkIsTaken
  <2>4. chip'.config = chip.config
        /\ chip'.inputs = [chip.inputs EXCEPT ![t] = Append(chip.inputs[t], Chunk(n + 1))]
    <3>1. /\ down[1].kind = "input" /\ down[1].row = t
          /\ [chunk |-> down[1].chunk, whose |-> down[1].whose,
              sample |-> down[1].sample] = Chunk(n + 1)
      BY <2>1 DEF InputFrame, Chunk
    <3>2. chip' = [chip EXCEPT !.inputs[down[1].row] = Append(@,
                     [chunk |-> down[1].chunk, whose |-> down[1].whose,
                      sample |-> down[1].sample])]
      BY <1>0, <3>1, TakesFrame DEF InitFrame
    <3>3. chip' = [chip EXCEPT !.inputs[t] = Append(@, Chunk(n + 1))]
      BY <3>1, <3>2
    <3> QED
      BY <1>0, <3>3 DEF ChipTypes
  <2>5. Append(chip.inputs[t], Chunk(n + 1)) = Part(n + 1)
    <3>1. chip.inputs[t] = Part(n) /\ Part(n) \in Seq(ChunkRecord)
      BY <1>0, <1>3, <1>4 DEF Arrives, ChipTypes
    <3>2. Chunk(n + 1) \in ChunkRecord
      BY <1>4 DEF Chunk, ChunkRecord
    <3> QED
      BY <1>4, <3>1, <3>2, PartGrows
  <2>6. /\ chip'.inputs[t] = Part(n + 1)
        /\ \A row \in Rows : row # t => chip'.inputs[row] = chip.inputs[row]
    BY <1>0, <1>4, <2>4, <2>5 DEF ChipTypes
  <2>7. /\ pc = "syncing" => Len(down) > 1 /\ Asked(SyncFrame)'
        /\ (IF pc' = "syncing" /\ Asked(SyncFrame)' THEN 1 ELSE 0)
             = (IF pc = "syncing" /\ Asked(SyncFrame) THEN 1 ELSE 0)
    <3> SUFFICES ASSUME pc = "syncing" PROVE Len(down) > 1 /\ Asked(SyncFrame)'
      BY <1>0, <1>5
    <3>1. PICK frame : frame = SyncFrame
      OBVIOUS
    <3>2. Asked(frame) /\ Len(down) # 1
      BY <1>3, <1>4, <1>5, <1>6, <3>1 DEF Arrives
    <3>3. /\ down' # <<>> /\ down'[Len(down')] = frame
          /\ \A i \in 1..Len(down') - 1 : ~IsControl(down'[i])
      BY <1>0, <3>2, RequestIsTaken
    <3>4. up' = <<>> /\ ~chip'.busy
      BY <1>0, <2>3, <3>2 DEF Asked
    <3> QED
      BY <1>1, <1>2, <3>1, <3>2, <3>3, <3>4 DEF Asked, IsControl
  <2>8. PICK k \in 0..c : k = n + 1
    BY <1>4, <1>6
  <2>9. Arrives(k)'
    <3>1. chip'.inputs[run'.timestep] = Part(k)'
      BY <1>0, <1>2, <2>6, <2>8
    <3>2. Len(down') = run'.chunk - k
                       + (IF pc' = "syncing" /\ Asked(SyncFrame)' THEN 1 ELSE 0)
      <4>1. Len(down) = c - n + (IF pc = "syncing" /\ Asked(SyncFrame) THEN 1 ELSE 0)
        BY <1>3 DEF Arrives
      <4> DEFINE extra == IF pc = "syncing" /\ Asked(SyncFrame) THEN 1 ELSE 0
      <4>2. extra \in Int /\ Len(down) = c - n + extra
        BY <4>1
      <4>3. extra = IF pc' = "syncing" /\ Asked(SyncFrame)' THEN 1 ELSE 0
        BY <2>7
      <4> HIDE DEF extra
      <4>4. Len(down') = c - k + extra
        BY <1>1, <1>4, <2>8, <4>2
      <4> QED
        BY <1>0, <4>3, <4>4
    <3>3. ASSUME NEW i \in 1..run'.chunk - k PROVE down'[i] = InputFrame(k + i)'
      <4>1. i + 1 \in 1..c - n /\ n + (i + 1) = k + i /\ i \in 1..Len(down')
        <5>1. i \in Int /\ 1 <= i /\ i <= c - k
          BY <1>0, <1>4, <2>8
        <5>2. Len(down) >= c - n
          BY <1>3, <1>4 DEF Arrives
        <5> QED
          BY <1>1, <1>4, <2>8, <5>1, <5>2
      <4>2. down'[i] = down[i + 1] /\ down[i + 1] = InputFrame(n + (i + 1))
        BY <1>1, <1>3, <4>1 DEF Arrives
      <4> QED
        BY <1>2, <4>1, <4>2
    <3> QED
      BY <3>1, <3>2, <3>3 DEF Arrives
  <2>10. InputsArrive'
    <3>1. /\ chip'.config = run'.runner
          /\ pc' = "sending" => run'.chunk < Mine'.chunks
          /\ pc' # "sending" => run'.chunk = Mine'.chunks
          /\ \A row \in Rows :
               /\ row < run'.timestep => chip'.inputs[row] = Part(Mine.chunks)'
               /\ row > run'.timestep => chip'.inputs[row] = <<>>
      <4>1. \A row \in Rows : row < t \/ row > t => row # t
        BY <1>4 DEF Rows
      <4>2. Part(Mine.chunks)' = Part(Mine.chunks)
        BY <1>2
      <4> QED
        BY <1>0, <1>2, <2>4, <2>6, <4>1, <4>2 DEF InputsArrive
    <3> QED
      BY <1>0, <2>8, <2>9, <3>1 DEF InputsArrive
  <2>11. Clock'
    <3>1. pc = "syncing" => Asked(SyncFrame)' /\ chip.time = Completed
      BY <1>0, <2>7 DEF Clock, Answering, Answered
    <3>2. Completed' = Completed /\ chip'.time = chip.time
      BY <1>0, <2>3 DEF Completed
    <3> HIDE DEF t
    <3> QED
      BY <1>0, <3>1, <3>2 DEF Clock
  <2>12. Computed' /\ FramesAreDue' /\ Assembled'
    BY <1>0, <2>3, ComputedKept
  <2> QED
    BY <1>0, <2>10, <2>11, <2>12 DEF Progress
<1>7. CASE n = c
  <2>1. pc = "syncing" /\ Asked(SyncFrame) /\ Len(down) = 1
    BY <1>1, <1>3, <1>4, <1>7 DEF Arrives
  <2>2. down[1] = SyncFrame /\ down' = <<>> /\ Len(down') = 0
    BY <1>0, <1>1, <2>1, RequestIsTaken
  <2>3. down[1].kind = "sync" /\ down[1].steps = run.target - Completed
    BY <2>2 DEF SyncFrame
  <2>4. /\ down[1].steps \in Nat /\ result' = result
        /\ chip' = [chip EXCEPT !.busy = TRUE, !.left = down[1].steps]
    BY <1>0, <2>3, TakesFrame DEF InitFrame
  <2>5. /\ chip'.busy /\ chip'.left = run.target - Completed
        /\ chip'.left \in Nat
        /\ chip'.config = chip.config /\ chip'.inputs = chip.inputs
        /\ chip'.time = chip.time /\ chip'.of = chip.of /\ chip'.out = chip.out
    BY <1>0, <2>3, <2>4 DEF ChipTypes
  <2>6. up' = <<>> /\ Len(up') = 0
    BY <1>0, <2>1, EmptySeq DEF Asked
  <2>7. Answering' /\ ~Asked(SyncFrame)'
    BY <2>2, <2>5, <2>6 DEF Answering, Asked
  <2>8. Clock'
    <3>1. /\ \/ Completed = t /\ run.target = t + 1
             \/ /\ Completed = T /\ t = T - 1
                /\ run.target = CompletionSync(run.runner)
          /\ chip.time = Completed
      BY <1>0, <2>1 DEF Clock, Answering, Answered
    <3>2. Completed \in Nat /\ run.target \in Nat
      BY <1>0, RunFacts DEF Completed
    <3>3. chip'.time + chip'.left = run.target /\ chip'.time >= Completed
      BY <2>5, <3>1, <3>2
    <3> QED
      BY <1>0, <2>1, <2>7, <3>1, <3>3 DEF Clock, Completed
  <2>9. Arrives(n)'
    <3>1. chip'.inputs[run'.timestep] = Part(n)'
      BY <1>0, <1>2, <1>3, <2>5 DEF Arrives
    <3>2. Len(down') = run'.chunk - n
                       + (IF pc' = "syncing" /\ Asked(SyncFrame)' THEN 1 ELSE 0)
      BY <1>0, <1>4, <1>7, <2>2, <2>7
    <3>3. 1..run'.chunk - n = {}
      BY <1>0, <1>4, <1>7
    <3> QED
      BY <3>1, <3>2, <3>3 DEF Arrives
  <2>10. InputsArrive'
    <3>1. /\ chip'.config = run'.runner
          /\ pc' = "sending" => run'.chunk < Mine'.chunks
          /\ pc' # "sending" => run'.chunk = Mine'.chunks
          /\ \A row \in Rows :
               /\ row < run'.timestep => chip'.inputs[row] = Part(Mine.chunks)'
               /\ row > run'.timestep => chip'.inputs[row] = <<>>
      BY <1>0, <1>2, <2>5 DEF InputsArrive
    <3> QED
      BY <1>0, <2>9, <3>1 DEF InputsArrive
  <2>11. Computed' /\ FramesAreDue' /\ Assembled'
    BY <1>0, <2>4, <2>5, ComputedKept
  <2> QED
    BY <1>0, <2>1, <2>8, <2>10, <2>11 DEF Progress
<1> QED
  BY <1>4, <1>6, <1>7

LEMMA FrameIsTaken ==
  ASSUME SampleInvariant, ChipTakes PROVE LinkInvariant'
<1>0. /\ ChipTypes /\ MemoryTypes /\ RunnerOwns /\ Earned /\ Resting
      /\ UNCHANGED <<owner, runner, pc, run, refused, memory, up, sample, last>>
  BY DEF SampleInvariant, LinkInvariant, ChipTakes
<1>1. ChipTypes'
  BY <1>0, ChipTypesTake
<1>2. MemoryTypes' /\ RunnerOwns'
  BY <1>0 DEF MemoryTypes, RunnerOwns, Healthy, Mine, Tensor, memory
<1>3. Earned'
  <2>1. ASSUME pc = "idle", last.op = "run", last.status = "OK" PROVE result' = result
    <3>1. Quiet
      BY <1>0, <2>1 DEF Earned, Resting
    <3>2. Len(down) \in Nat /\ Len(down) > 0
      BY <1>0, TakesFrame
    <3>3. ~IsControl(down[1])
      BY <3>1, <3>2 DEF Quiet
    <3> QED
      BY <1>0, <3>3, ChunkIsTaken
  <2> QED
    BY <1>0, <2>1 DEF Earned, Healthy, SampleIsRight, Elements, Lanes, memory
<1> QED
  BY <1>1, <1>2, <1>3, LinkRests, ResetIsTaken, SampleIsTaken DEF LinkInvariant

(***************************************************************************)
(* The chip computes.                                                      *)
(***************************************************************************)

\* A busy chip answers a sample's barrier, or a reset, or nobody who cares.
LEMMA BusyChip ==
  ASSUME SampleInvariant, chip.busy
  PROVE  /\ pc \in {"resetting", "syncing"} \/ (pc = "idle" /\ ~Healthy)
         /\ pc = "resetting" => Answering /\ up = <<>> /\ Cleared
         /\ pc = "syncing" => Answering /\ ~Asked(SyncFrame)
<1>1. pc \in {"resetting", "syncing"} \/ (pc = "idle" /\ ~Healthy)
  BY RunFacts DEF SampleInvariant, LinkInvariant, Resting, Quiet
<1>2. pc = "resetting" => Answering /\ up = <<>> /\ Cleared
  BY DEF SampleInvariant, LinkInvariant, Resetting, Asked, Answered
<1>3. pc = "syncing" => Answering /\ ~Asked(SyncFrame)
  BY DEF SampleInvariant, LinkInvariant, Progress, Sampling, Clock, Asked, Answered
<1> QED
  BY <1>1, <1>2, <1>3

\* A row of which the chip holds all chunks of one sample is of that sample.
LEMMA RowIsOfSample ==
  ASSUME ChipTypes, RunnerInvariant, sample >= 1, NEW t \in Rows,
         chip.config = run.runner, chip.inputs[t] = Part(Mine.chunks)
  PROVE  SampleOfRow(t) = sample
<1> DEFINE whole(s) == [c \in 1..Mine.chunks |->
                          [chunk |-> c, whose |-> chip.config, sample |-> s]]
<1>1. sample \in 1..sample /\ 1 \in 1..Mine.chunks
  <2>1. sample \in Int
    BY DEF ChipTypes
  <2>2. run.runner \in Runners
    BY RunFacts
  <2>3. Mine.chunks \in Nat \ {0}
    BY <2>2, ArtifactFacts DEF Mine
  <2> QED
    BY <2>1, <2>3
<1>2. chip.inputs[t] = whole(sample)
  BY DEF Part, Chunk
<1>3. ASSUME NEW s \in 1..sample, chip.inputs[t] = whole(s) PROVE s = sample
  <2>1. whole(s)[1] = whole(sample)[1]
    BY <1>2, <1>3
  <2> QED
    BY <1>1, <2>1
<1>4. SampleOfRow(t) = IF \E s \in 1..sample : chip.inputs[t] = whole(s)
                       THEN CHOOSE s \in 1..sample : chip.inputs[t] = whole(s)
                       ELSE Wrong
  BY DEF SampleOfRow, Mine
<1> HIDE DEF whole
<1> QED
  BY <1>1, <1>2, <1>3, <1>4

\* A timestep of the sample: of what the new row is, and which frames go out.
LEMMA RowIsComputed ==
  ASSUME SampleInvariant, ChipSteps, pc = "syncing"
  PROVE  \E row \in Int, fired \in SUBSET Mine.elements, early \in SUBSET EarlyFrames :
           /\ row + Mine.latency = chip.time + 1
           /\ chip'.out = (IF row \in Rows THEN WorkFrames(row, fired, sample) ELSE {})
                          \union early
           /\ row \in Rows => result' = [result EXCEPT ![row] =
                                           [of |-> sample, fired |-> fired]]
           /\ row \notin Rows => result' = result
           /\ \A z \in Rows : z < chip.time + 1 => chip'.of[z] = sample
           /\ run.submitted <= chip.time + 1
           /\ Configured = Mine
<1>0. /\ ChipTypes /\ RunnerInvariant /\ RunnerOwns /\ chip.busy
      /\ InputsArrive /\ Clock /\ Computed
  BY DEF SampleInvariant, LinkInvariant, Progress, Sampling, ChipSteps
<1> DEFINE t == run.timestep
           time == chip.time
<1>1. Answering /\ ~Asked(SyncFrame) /\ chip.config = run.runner /\ sample >= 1
  BY <1>0, BusyChip DEF InputsArrive, RunnerOwns
<1>2. /\ run.runner \in Runners /\ t \in 0..T - 1 /\ run.chunk \in Nat
      /\ time \in Nat /\ T \in Nat \ {0} /\ chip.left \in Nat
      /\ Completed \in Nat /\ run.target \in Nat
      /\ Mine.latency \in Nat \ {0} /\ Mine.chunks \in Nat \ {0}
      /\ run.submitted = t + 1
  BY <1>0, RunFacts, ArtifactFacts
     DEF ChipTypes, Completed, Mine, RunnerInvariant, RowsSubmitted
<1>3. PICK of, out, early :
        /\ of \in [Rows -> Int]
        /\ chip.left > 0 /\ chip.out = {}
        /\ of = IF time \in Rows THEN [chip.of EXCEPT ![time] = Consumed(time)]
                ELSE chip.of
        /\ chip' = [chip EXCEPT !.left = @ - 1, !.time = time + 1, !.of = of,
                                !.out = out \union early]
        /\ early = {} \/ \E frame \in EarlyFrames : early = {frame}
        /\ \/ /\ time + 1 - Configured.latency \in Rows
              /\ \E fired \in Fired :
                   /\ out = WorkFrames(time + 1 - Configured.latency, fired,
                                       of[time + 1 - Configured.latency])
                   /\ result' = [result EXCEPT ![time + 1 - Configured.latency] =
                                   [of |-> of[time + 1 - Configured.latency],
                                    fired |-> fired]]
           \/ /\ time + 1 - Configured.latency \notin Rows
              /\ out = {} /\ result' = result
  BY <1>0, StepsOnce, ZenonT(60)
<1>4. /\ time + chip.left = run.target /\ time >= Completed
      /\ \/ Completed = t /\ run.target = t + 1
         \/ Completed = T /\ t = T - 1
  BY <1>0, <1>1 DEF Clock
<1>5. time >= t /\ (time \in Rows => time = t)
  BY <1>2, <1>3, <1>4 DEF Rows
<1>6. chip.inputs[t] = Part(Mine.chunks)
  <2>1. Len(down) = 0
    BY <1>1, EmptySeq DEF Answering
  <2>2. PICK n \in 0..run.chunk : chip.inputs[t] = Part(n) /\ Len(down) = run.chunk - n
    BY <1>0, <1>1, <1>2 DEF InputsArrive, Arrives
  <2>3. n = run.chunk /\ run.chunk = Mine.chunks
    BY <1>0, <1>2, <2>1, <2>2 DEF InputsArrive
  <2> QED
    BY <2>2, <2>3
<1>7. time \in Rows => Consumed(time) = sample
  <2> SUFFICES ASSUME time \in Rows PROVE Consumed(time) = sample
    OBVIOUS
  <2>1. time = t /\ t \in Rows
    BY <1>5
  <2>2. SampleOfRow(t) = sample
    <3> HIDE DEF t
    <3> QED
      BY <1>0, <1>1, <1>6, <2>1, RowIsOfSample
  <2>3. CASE t = 0
    BY <2>1, <2>2, <2>3 DEF Consumed
  <2>4. CASE t # 0
    <3>1. t - 1 \in Rows /\ t - 1 < time
      BY <1>2, <2>1, <2>4 DEF Rows
    <3>2. chip.of[t - 1] = sample
      BY <1>0, <3>1 DEF Computed
    <3> QED
      BY <2>1, <2>2, <3>2 DEF Consumed
  <2> QED
    BY <2>3, <2>4
<1>8. \A z \in Rows : z < time + 1 => of[z] = sample
  <2> SUFFICES ASSUME NEW z \in Rows, z < time + 1 PROVE of[z] = sample
    OBVIOUS
  <2>1. CASE z = time
    BY <1>0, <1>3, <1>7, <2>1 DEF ChipTypes
  <2>2. CASE z # time
    <3>1. z < time
      BY <1>2, <2>2 DEF Rows
    <3>2. chip.of[z] = sample
      BY <1>0, <3>1 DEF Computed
    <3> QED
      BY <1>0, <1>3, <2>2, <3>2 DEF ChipTypes
  <2> QED
    BY <2>1, <2>2
<1>9. chip'.of = of /\ chip'.out = out \union early
  BY <1>0, <1>3 DEF ChipTypes
<1>10. Configured = Mine /\ Fired \subseteq SUBSET Mine.elements
  BY <1>1 DEF Configured, Mine, Fired
<1>11. early \in SUBSET EarlyFrames
  BY <1>3
<1>12. PICK row \in Int : row = time + 1 - Configured.latency
  BY <1>2, <1>10
<1>13. row + Mine.latency = time + 1 /\ run.submitted <= time + 1 /\ row < time + 1
  BY <1>2, <1>5, <1>10, <1>12
<1>14. CASE row \in Rows
  <2>1. PICK fired \in Fired :
          /\ out = WorkFrames(row, fired, of[row])
          /\ result' = [result EXCEPT ![row] = [of |-> of[row], fired |-> fired]]
    BY <1>3, <1>12, <1>14
  <2>2. of[row] = sample /\ fired \in SUBSET Mine.elements
    BY <1>8, <1>10, <1>13, <1>14
  <2> HIDE DEF t, time
  <2> QED
    BY <1>8, <1>9, <1>10, <1>11, <1>13, <1>14, <2>1, <2>2 DEF time
<1>15. CASE row \notin Rows
  <2>1. out = {} /\ result' = result
    BY <1>3, <1>12, <1>15
  <2>2. {} \in SUBSET Mine.elements
    OBVIOUS
  <2> QED
    BY <1>8, <1>9, <1>10, <1>11, <1>13, <1>15, <2>1, <2>2
<1> QED
  BY <1>14, <1>15

\* What the step puts out is due, and nothing that has been stored.
LEMMA RowIsDue ==
  ASSUME SampleInvariant, ChipSteps, pc = "syncing" PROVE Progress'
<1>0. /\ ChipTypes /\ RunnerInvariant /\ chip.busy /\ chip.left > 0 /\ chip.out = {}
      /\ InputsArrive /\ Clock /\ Computed /\ FramesAreDue /\ Assembled
      /\ UNCHANGED <<owner, runner, pc, run, refused, memory, down, up, sample, last>>
  BY DEF SampleInvariant, LinkInvariant, Progress, Sampling, ChipSteps
<1>1. Answering /\ ~Asked(SyncFrame)
  BY <1>0, BusyChip
<1>2. PICK row \in Int, fired \in SUBSET Mine.elements, early \in SUBSET EarlyFrames :
        /\ row + Mine.latency = chip.time + 1
        /\ chip'.out = (IF row \in Rows THEN WorkFrames(row, fired, sample) ELSE {})
                       \union early
        /\ row \in Rows => result' = [result EXCEPT ![row] =
                                        [of |-> sample, fired |-> fired]]
        /\ row \notin Rows => result' = result
        /\ \A z \in Rows : z < chip.time + 1 => chip'.of[z] = sample
        /\ run.submitted <= chip.time + 1
        /\ Configured = Mine
  BY <1>0, RowIsComputed
<1>3. /\ chip'.busy /\ chip'.left = chip.left - 1 /\ chip'.time = chip.time + 1
      /\ chip'.inputs = chip.inputs /\ chip'.config = chip.config
      /\ chip.left \in Nat /\ chip.time \in Nat
  BY <1>0, StepsOnce DEF ChipTypes
<1>4. /\ Mine' = Mine /\ UpFrame' = UpFrame /\ SyncFrame' = SyncFrame
      /\ Elements' = Elements /\ Lanes' = Lanes /\ Kind' = Kind
      /\ \A z, e, lane : Work(z, e, lane)' = Work(z, e, lane)
      /\ \A k : InputFrame(k)' = InputFrame(k) /\ Part(k)' = Part(k)
  BY <1>0 DEF Mine, UpFrame, SyncFrame, Completed, Elements, Lanes, Kind, Work,
     InputFrame, Part, Chunk
<1>5. Answering' /\ ~Asked(SyncFrame)'
  BY <1>0, <1>1, <1>3 DEF Answering, Asked
<1>6. /\ Mine.latency \in Nat \ {0} /\ T \in Nat /\ sample \in Int
      /\ run.submitted \in Int
  BY <1>0, RunFacts, ArtifactFacts, SMTT(60) DEF Mine, ChipTypes
<1>7. InputsArrive'
  <2>1. \A n : Arrives(n)' <=> Arrives(n)
    BY <1>0, <1>1, <1>3, <1>4, <1>5 DEF Arrives
  <2> QED
    BY <1>0, <1>3, <1>4, <2>1 DEF InputsArrive
<1>8. Clock'
  <2>1. /\ \/ Completed = run.timestep /\ run.target = run.timestep + 1
           \/ /\ Completed = T /\ run.timestep = T - 1
              /\ run.target = CompletionSync(run.runner)
        /\ chip.time + chip.left = run.target /\ chip.time >= Completed
    BY <1>0, <1>1 DEF Clock
  <2>2. Completed' = Completed /\ Completed \in Nat
    BY <1>0, RunFacts DEF Completed
  <2>3. chip'.time + chip'.left = run'.target /\ chip'.time >= Completed'
    BY <1>0, <1>3, <2>1, <2>2
  <2> QED
    BY <1>0, <1>5, <2>1, <2>2, <2>3 DEF Clock
\* Rows put out before are as they were, and the new one had not fired.
<1>9. /\ row \in Rows => result[row].fired = {}
      /\ \A z \in Rows : z # row => result'[z] = result[z]
      /\ row \in Rows => result'[row] = [of |-> sample, fired |-> fired]
  <2>1. ~(row + Mine.latency <= chip.time)
    BY <1>2, <1>3
  <2>2. result = [z \in Rows |-> result[z]]
    BY <1>0 DEF ChipTypes
  <2> QED
    BY <1>0, <1>2, <2>1, <2>2 DEF Computed
<1>10. Computed'
  <2>1. \A z \in Rows : z < chip'.time => chip'.of[z] = sample
    BY <1>2, <1>3
  <2>2. ASSUME NEW z \in Rows
        PROVE  IF z + Mine.latency <= chip.time + 1
               THEN result'[z].of = sample /\ result'[z].fired \subseteq Mine.elements
               ELSE result'[z] = [of |-> Wrong, fired |-> {}]
    <3>1. CASE z = row
      BY <1>2, <1>3, <1>9, <3>1
    <3>2. CASE z # row
      <4>1. z + Mine.latency <= chip.time + 1 <=> z + Mine.latency <= chip.time
        BY <1>2, <1>3, <1>6, <3>2 DEF Rows
      <4> QED
        BY <1>0, <1>9, <3>2, <4>1 DEF Computed
    <3> QED
      BY <3>1, <3>2
  <2> QED
    BY <1>0, <1>3, <1>4, <2>1, <2>2 DEF Computed
<1>11. ASSUME NEW frame \in early
       PROVE  frame \in UpFrame /\ frame.row >= run.submitted /\ frame.of # sample
  <2>1. frame \in EarlyFrames
    BY <1>2
  <2>2. PICK z \in chip.time + 1..T : frame \in WorkFrames(z, Configured.elements, Wrong)
    BY <2>1 DEF EarlyFrames
  <2>3. PICK e \in Mine.elements, lane \in Mine.lanes :
          frame = [kind |-> "work", row |-> z, elem |-> e, lane |-> lane, of |-> Wrong]
    BY <1>2, <2>2 DEF WorkFrames
  <2>4. z \in Int /\ z >= run.submitted
    BY <1>2, <1>3, <1>6, <2>2
  <2>5. sample >= 1
    BY <1>0 DEF SampleInvariant, LinkInvariant, RunnerOwns
  <2> QED
    BY <1>6, <2>3, <2>4, <2>5 DEF UpFrame, Wrong
<1>12. ASSUME NEW frame \in chip'.out, frame \notin early
       PROVE  /\ row \in Rows /\ frame \in UpFrame /\ frame.row = row
              /\ frame = Work(row, frame.elem, frame.lane) /\ frame.elem \in fired
  <2>1. row \in Rows /\ frame \in WorkFrames(row, fired, sample)
    BY <1>2, <1>12
  <2>2. PICK e \in fired, lane \in Mine.lanes :
          frame = [kind |-> "work", row |-> row, elem |-> e, lane |-> lane,
                   of |-> sample]
    BY <1>2, <2>1 DEF WorkFrames
  <2> QED
    BY <1>2, <1>6, <2>1, <2>2 DEF UpFrame, Work
<1>13. /\ InFlight = {up[i] : i \in 1..Len(up)}
       /\ InFlight' = InFlight \union chip'.out
  BY <1>0 DEF InFlight
<1>14. ASSUME NEW frame \in InFlight, frame.kind = "work"
       PROVE  \/ frame.row >= run.submitted
              \/ Awaited(frame)' /\ frame.row # row
  <2>1. frame.row >= run.submitted \/ Awaited(frame)
    BY <1>0, <1>14 DEF FramesAreDue
  <2>2. CASE Awaited(frame)
    <3>1. frame.row # row
      BY <1>9, <2>2 DEF Awaited
    <3> QED
      BY <1>4, <1>9, <2>2, <3>1 DEF Awaited
  <2> QED
    BY <2>1, <2>2
<1>15. FramesAreDue'
  <2>1. up' \in Seq(UpFrame' \union {CompleteFrame}')
    BY <1>0, <1>4 DEF FramesAreDue, CompleteFrame
  <2>2. chip'.out \subseteq UpFrame'
    BY <1>4, <1>11, <1>12
  <2>3. ASSUME NEW frame \in InFlight', frame.kind = "work"
        PROVE  frame.row >= run'.submitted \/ Awaited(frame)'
    <3>1. CASE frame \in InFlight
      BY <1>0, <1>14, <2>3, <3>1
    <3>2. CASE frame \in early
      BY <1>0, <1>11, <3>2
    <3>3. CASE frame \in chip'.out /\ frame \notin early
      <4>1. /\ row \in Rows /\ frame.row = row
            /\ frame = Work(row, frame.elem, frame.lane) /\ frame.elem \in fired
        BY <1>12, <3>3
      <4>2. frame.elem \in result'[frame.row].fired
        BY <1>9, <4>1
      <4> QED
        BY <1>4, <4>1, <4>2 DEF Awaited
    <3> QED
      BY <1>13, <3>1, <3>2, <3>3
  <2>4. \A i, j \in 1..Len(up') :
          up'[i] = up'[j] /\ up'[i].kind = "work" => i = j \/ up'[i].row >= run'.submitted
    BY <1>0 DEF FramesAreDue
  <2>5. ASSUME NEW i \in 1..Len(up), up[i] \in chip'.out
        PROVE  up[i].row >= run.submitted
    <3>1. CASE up[i] \in early
      BY <1>11, <3>1
    <3>2. CASE up[i] \notin early
      <4>1. up[i].row = row
        BY <1>12, <2>5, <3>2
      <4>2. up[i] \in InFlight /\ up[i].kind = "work"
        <5>1. up[i] = Work(row, up[i].elem, up[i].lane)
          BY <1>12, <2>5, <3>2
        <5> QED
          BY <1>13, <5>1 DEF Work
      <4> QED
        BY <1>14, <4>1, <4>2
    <3> QED
      BY <3>1, <3>2
  <2> QED
    BY <1>0, <2>1, <2>2, <2>3, <2>4, <2>5 DEF FramesAreDue
<1>16. ASSUME NEW z \in Rows, NEW e
       PROVE  Got(z, e)' = Got(z, e)
  <2>1. ASSUME NEW lane PROVE Work(z, e, lane) \notin early
    BY <1>11 DEF Work
  <2>2. CASE z = row
    <3>1. Got(z, e) = {}
      BY <1>9, <2>2 DEF Got
    <3>2. ASSUME NEW lane \in Lanes, e \in fired
          PROVE  Work(z, e, lane) \in InFlight'
      <4>1. Work(z, e, lane) \in WorkFrames(row, fired, sample)
        BY <1>2, <2>2, <3>2 DEF WorkFrames, Work, Lanes, Mine
      <4> QED
        BY <1>2, <1>13, <2>2, <4>1
    <3>3. Got(z, e)' = {}
      BY <1>4, <1>9, <2>2, <3>2 DEF Got
    <3> QED
      BY <3>1, <3>3
  <2>3. CASE z # row
    <3>1. ASSUME NEW lane PROVE Work(z, e, lane) \notin chip'.out
      <4>1. Work(z, e, lane).row = z
        BY DEF Work
      <4> QED
        BY <1>12, <2>1, <2>3, <4>1
    <3> QED
      BY <1>4, <1>9, <1>13, <2>3, <3>1 DEF Got
  <2> QED
    BY <2>2, <2>3
<1>17. Assembled'
  <2>1. \A z, e : z \in Rows => MaskOf(z, e)' = MaskOf(z, e)
    BY <1>4, <1>16 DEF MaskOf
  <2> QED
    BY <1>0, <1>4, <1>16, <2>1 DEF Assembled, memory
<1> QED
  BY <1>0, <1>7, <1>8, <1>10, <1>15, <1>17 DEF Progress

LEMMA ChipHasStepped ==
  ASSUME SampleInvariant, ChipSteps PROVE LinkInvariant'
<1>0. /\ ChipTypes /\ MemoryTypes /\ RunnerOwns /\ Earned
      /\ chip.busy /\ chip.left > 0
      /\ UNCHANGED <<owner, runner, pc, run, refused, memory, down, up, sample, last>>
  BY DEF SampleInvariant, LinkInvariant, ChipSteps
<1>1. ChipTypes'
  BY <1>0, ChipTypesStep
<1>2. MemoryTypes' /\ RunnerOwns'
  BY <1>0 DEF MemoryTypes, RunnerOwns, Healthy, Mine, Tensor, memory
<1>3. pc = "syncing" \/ (pc = "idle" /\ ~Healthy)
  BY <1>0, BusyChip DEF Cleared
<1>4. CASE pc = "syncing"
  BY <1>0, <1>1, <1>2, <1>4, RowIsDue
     DEF LinkInvariant, Resting, Resetting, Earned, SampleIsRight
<1>5. CASE pc = "idle" /\ ~Healthy
  <2>1. ~(last.op = "run" /\ last.status = "OK")
    BY <1>0, <1>5 DEF Earned
  <2> QED
    BY <1>0, <1>1, <1>2, <1>5, <2>1 DEF LinkInvariant, Resting, Resetting, Progress,
       Sampling, Earned, SampleIsRight, Healthy
<1> QED
  BY <1>3, <1>4, <1>5

(***************************************************************************)
(* The chip answers.                                                       *)
(***************************************************************************)

LEMMA FrameEmitted ==
  ASSUME SampleInvariant, ChipEmits
  PROVE  \E frame :
           /\ up' = Append(up, frame)
           /\ chip'.out = chip.out \ {frame}
           /\ \/ frame \in chip.out /\ chip'.busy
              \/ /\ frame = CompleteFrame /\ chip.out = {} /\ chip.left = 0
                 /\ ~chip'.busy
           /\ chip.busy
           /\ chip'.config = chip.config /\ chip'.inputs = chip.inputs
           /\ chip'.time = chip.time /\ chip'.left = chip.left /\ chip'.of = chip.of
<1>0. ChipTypes /\ chip.busy
  BY DEF SampleInvariant, LinkInvariant, ChipEmits
<1>1. CASE \E frame \in chip.out :
             /\ up' = Append(up, frame)
             /\ chip' = [chip EXCEPT !.out = @ \ {frame}]
  BY <1>0, <1>1 DEF ChipTypes
<1>2. CASE /\ chip.out = {} /\ chip.left = 0
           /\ up' = Append(up, CompleteFrame)
           /\ chip' = [chip EXCEPT !.busy = FALSE]
  BY <1>0, <1>2 DEF ChipTypes
<1> QED
  BY <1>1, <1>2 DEF ChipEmits, CompleteFrame

LEMMA FrameIsDue ==
  ASSUME SampleInvariant, ChipEmits, pc = "syncing" PROVE Progress'
<1>0. /\ ChipTypes /\ RunnerInvariant
      /\ InputsArrive /\ Clock /\ Computed /\ FramesAreDue /\ Assembled
      /\ UNCHANGED <<owner, runner, pc, run, refused, memory, down, result, sample,
                     last>>
  BY DEF SampleInvariant, LinkInvariant, Progress, Sampling, ChipEmits
<1>1. PICK frame :
        /\ up' = Append(up, frame)
        /\ chip'.out = chip.out \ {frame}
        /\ \/ frame \in chip.out /\ chip'.busy
           \/ /\ frame = CompleteFrame /\ chip.out = {} /\ chip.left = 0
              /\ ~chip'.busy
        /\ chip.busy
        /\ chip'.config = chip.config /\ chip'.inputs = chip.inputs
        /\ chip'.time = chip.time /\ chip'.left = chip.left /\ chip'.of = chip.of
  BY FrameEmitted
<1>2. Answering /\ ~Asked(SyncFrame)
  BY <1>0, <1>1, BusyChip
<1> DEFINE Coming == UpFrame \union {CompleteFrame}
<1>3. frame \in Coming /\ up \in Seq(Coming) /\ frame.kind \in {"work", "complete"}
      /\ (frame.kind = "work" <=> frame \in chip.out)
  BY <1>0, <1>1 DEF FramesAreDue, UpFrame, CompleteFrame
<1> HIDE DEF Coming
<1>4. /\ up' \in Seq(Coming) /\ Len(up) \in Nat /\ Len(up') = Len(up) + 1
      /\ up' # <<>>
      /\ up'[Len(up) + 1] = frame
      /\ \A i \in 1..Len(up) : up'[i] = up[i]
      /\ \A i \in 1..Len(up') : i \in 1..Len(up) \/ i = Len(up) + 1
  BY <1>1, <1>3, LenProperties, AppendProperties
<1>5. /\ Mine' = Mine /\ UpFrame' = UpFrame /\ SyncFrame' = SyncFrame
      /\ Elements' = Elements /\ Lanes' = Lanes /\ Kind' = Kind
      /\ \A z, e, lane : Work(z, e, lane)' = Work(z, e, lane)
      /\ \A k : InputFrame(k)' = InputFrame(k) /\ Part(k)' = Part(k)
  BY <1>0 DEF Mine, UpFrame, SyncFrame, Completed, Elements, Lanes, Kind, Work,
     InputFrame, Part, Chunk
<1>6. (Answering' \/ Answered') /\ ~Asked(SyncFrame)'
  <2>1. CASE frame \in chip.out /\ chip'.busy
    <3>1. \A i \in 1..Len(up') : up'[i].kind = "work"
      BY <1>2, <1>3, <1>4, <2>1 DEF Answering
    <3> QED
      BY <1>0, <1>2, <2>1, <3>1 DEF Answering, Asked
  <2>2. CASE frame = CompleteFrame /\ ~chip'.busy
    <3>1. up'[Len(up')] = CompleteFrame
      BY <1>4, <2>2
    <3>2. ASSUME NEW i \in 1..Len(up') - 1 PROVE up'[i].kind = "work"
      <4>1. i \in 1..Len(up)
        BY <1>4
      <4> QED
        BY <1>2, <1>4, <4>1 DEF Answering
    <3> QED
      BY <1>0, <1>2, <1>4, <2>2, <3>1, <3>2 DEF Answering, Answered, Asked, CompleteFrame
  <2> QED
    BY <1>1, <2>1, <2>2
<1>7. InputsArrive'
  <2>1. \A n : Arrives(n)' <=> Arrives(n)
    BY <1>0, <1>1, <1>2, <1>5, <1>6 DEF Arrives
  <2> QED
    BY <1>0, <1>1, <1>5, <2>1 DEF InputsArrive
<1>8. Clock'
  BY <1>0, <1>1, <1>2, <1>6 DEF Clock, Completed
<1>9. Computed'
  BY <1>0, <1>1, <1>5 DEF Computed
<1>10. InFlight' = InFlight \union {frame}
  <2>1. {up'[i] : i \in 1..Len(up')} = {up[i] : i \in 1..Len(up)} \union {frame}
    <3>1. ASSUME NEW i \in 1..Len(up')
          PROVE  up'[i] \in {up[k] : k \in 1..Len(up)} \union {frame}
      BY <1>4
    <3>2. ASSUME NEW i \in 1..Len(up) PROVE i \in 1..Len(up') /\ up'[i] = up[i]
      BY <1>4
    <3>3. Len(up) + 1 \in 1..Len(up') /\ up'[Len(up) + 1] = frame
      BY <1>4
    <3> QED
      BY <3>1, <3>2, <3>3
  <2> QED
    BY <1>1, <2>1 DEF InFlight
<1>11. \A z, e, lane : Work(z, e, lane) \in InFlight' <=> Work(z, e, lane) \in InFlight
  <2>1. CASE frame \in chip.out
    <3>1. frame \in InFlight
      BY <2>1 DEF InFlight
    <3> QED
      BY <1>10, <3>1
  <2>2. CASE frame = CompleteFrame
    BY <1>10, <2>2 DEF Work, CompleteFrame
  <2> QED
    BY <1>1, <2>1, <2>2
<1>12. FramesAreDue'
  <2>1. up' \in Seq(UpFrame' \union {CompleteFrame}') /\ chip'.out \subseteq UpFrame'
    BY <1>0, <1>1, <1>4, <1>5 DEF FramesAreDue, CompleteFrame, Coming
  <2>2. ASSUME NEW f \in InFlight', f.kind = "work"
        PROVE  f.row >= run'.submitted \/ Awaited(f)'
    <3>1. f \in InFlight
      <4>1. CASE f = frame
        BY <1>3, <2>2, <4>1 DEF InFlight
      <4> QED
        BY <1>10, <4>1
    <3>2. Awaited(f)' <=> Awaited(f)
      BY <1>0, <1>5 DEF Awaited
    <3> QED
      BY <1>0, <2>2, <3>1, <3>2 DEF FramesAreDue
  <2>3. ASSUME NEW i \in 1..Len(up'), NEW j \in 1..Len(up'),
               up'[i] = up'[j], up'[i].kind = "work"
        PROVE  i = j \/ up'[i].row >= run'.submitted
    <3>1. CASE i \in 1..Len(up) /\ j \in 1..Len(up)
      BY <1>0, <1>4, <2>3, <3>1 DEF FramesAreDue
    <3>2. ASSUME NEW k \in 1..Len(up), up'[k] = frame, frame.kind = "work"
          PROVE  frame.row >= run.submitted
      <4>1. up[k] = frame /\ frame \in chip.out
        BY <1>3, <1>4, <3>2
      <4> QED
        BY <1>0, <4>1 DEF FramesAreDue
    <3>3. CASE i = Len(up) + 1 /\ j \in 1..Len(up)
      BY <1>0, <1>4, <2>3, <3>2, <3>3
    <3>4. CASE j = Len(up) + 1 /\ i \in 1..Len(up)
      BY <1>0, <1>4, <2>3, <3>2, <3>4
    <3> QED
      BY <1>4, <3>1, <3>3, <3>4
  <2>4. ASSUME NEW i \in 1..Len(up'), up'[i] \in chip'.out
        PROVE  up'[i].row >= run'.submitted
    <3>1. i # Len(up) + 1
      BY <1>1, <1>4, <2>4
    <3>2. i \in 1..Len(up) /\ up[i] \in chip.out /\ up'[i] = up[i]
      BY <1>1, <1>4, <2>4, <3>1
    <3> QED
      BY <1>0, <3>2 DEF FramesAreDue
  <2> QED
    BY <2>1, <2>2, <2>3, <2>4 DEF FramesAreDue
<1>13. Assembled'
  <2>1. \A z, e : Got(z, e)' = Got(z, e)
    BY <1>0, <1>5, <1>11 DEF Got
  <2>2. \A z, e : MaskOf(z, e)' = MaskOf(z, e)
    BY <1>5, <2>1 DEF MaskOf
  <2> QED
    BY <1>0, <1>5, <2>1, <2>2 DEF Assembled, memory
<1> QED
  BY <1>0, <1>7, <1>8, <1>9, <1>12, <1>13 DEF Progress

LEMMA FrameIsEmitted ==
  ASSUME SampleInvariant, ChipEmits PROVE LinkInvariant'
<1>0. /\ ChipTypes /\ MemoryTypes /\ RunnerOwns /\ Earned /\ Resetting
      /\ UNCHANGED <<owner, runner, pc, run, refused, memory, down, result, sample,
                     last>>
  BY DEF SampleInvariant, LinkInvariant, ChipEmits
<1>1. PICK frame :
        /\ up' = Append(up, frame)
        /\ chip'.out = chip.out \ {frame}
        /\ \/ frame \in chip.out /\ chip'.busy
           \/ /\ frame = CompleteFrame /\ chip.out = {} /\ chip.left = 0
              /\ ~chip'.busy
        /\ chip.busy
        /\ chip'.config = chip.config /\ chip'.inputs = chip.inputs
        /\ chip'.time = chip.time /\ chip'.left = chip.left /\ chip'.of = chip.of
  BY FrameEmitted
<1>2. ChipTypes'
  BY <1>0, ChipTypesEmit
<1>3. MemoryTypes' /\ RunnerOwns'
  BY <1>0 DEF MemoryTypes, RunnerOwns, Healthy, Mine, Tensor, memory
<1>4. Earned'
  BY <1>0 DEF Earned, Healthy, SampleIsRight, Elements, Lanes, memory
<1>5. pc \in {"resetting", "syncing"} \/ (pc = "idle" /\ ~Healthy)
  BY <1>1, BusyChip
<1>6. Resting'
  BY <1>0, <1>5 DEF Resting, Healthy
<1>7. Resetting'
  <2> SUFFICES ASSUME pc = "resetting" PROVE Resetting'
    BY <1>0 DEF Resetting
  <2>1. Answering /\ up = <<>> /\ Cleared
    BY <1>1, BusyChip
  <2>2. frame = CompleteFrame /\ ~chip'.busy
    BY <1>1, <2>1 DEF Cleared
  <2>3. up' = <<CompleteFrame>>
    BY <1>1, <2>1, <2>2
  <2>4. Cleared'
    BY <1>0, <1>1, <2>1 DEF Cleared, NoResult
  <2>5. Answered'
    BY <1>0, <2>1, <2>2, <2>3 DEF Answering, Answered, CompleteFrame
  <2> QED
    BY <1>0, <2>3, <2>4, <2>5
       DEF Resetting, Kind, NothingReceived, CompleteFrame, memory
<1>8. Progress'
  BY <1>0, <1>5, FrameIsDue DEF Progress, Sampling
<1> QED
  BY <1>2, <1>3, <1>4, <1>6, <1>7, <1>8 DEF LinkInvariant

(***************************************************************************)
(* Recovery, the first state, and the theorems.                            *)
(***************************************************************************)

\* The platform is cleared while no healthy session uses it.
LEMMA PlatformIsRecovered ==
  ASSUME SampleInvariant, Recover PROVE LinkInvariant'
<1>0. /\ ChipTypes /\ MemoryTypes /\ Earned /\ pc = "idle" /\ ~Healthy
      /\ UNCHANGED <<owner, runner, pc, run, refused, memory, result, sample, last>>
  BY DEF SampleInvariant, LinkInvariant, Recover, Idle, Healthy
<1>1. ChipTypes'
  BY <1>0, ChipTypesRecover
<1>2. MemoryTypes'
  BY <1>0 DEF MemoryTypes, Mine, Tensor, memory
<1>3. ~(last.op = "run" /\ last.status = "OK") /\ ~Healthy'
  BY <1>0 DEF Earned, Healthy
<1> QED
  BY <1>0, <1>1, <1>2, <1>3 DEF LinkInvariant, RunnerOwns, Resting, Resetting, Progress,
     Sampling, Earned, SampleIsRight

LEMMA InitSample == Init => SampleInvariant
<1> SUFFICES ASSUME Init PROVE SampleInvariant
  OBVIOUS
<1>1. RunnerInvariant
  BY InitInvariant
<1>2. PICK x \in Runners :
        /\ run = [runner |-> x, inPlace |-> FALSE, timestep |-> 0, chunk |-> 0,
                  submitted |-> 0, target |-> 0]
        /\ last = [op |-> "release", runner |-> x, status |-> "OK"]
        /\ output = [t \in Rows |-> JunkRow(x)]
  BY DEF Init
<1>3. /\ pc = "idle" /\ owner = None /\ down = <<>> /\ chip = IdleChip
      /\ result = NoResult /\ sample = 0 /\ refused = FALSE
      /\ mask = [z \in Runners |-> NothingReceived(z)]
      /\ runner = [z \in Runners |-> ClearedRunner]
  BY DEF Init
<1>4. ChipTypes
  <2>1. [t \in Rows |-> <<>>] \in [Rows -> Seq(ChunkRecord)] /\ <<>> \in Seq(DownFrame)
    BY EmptySeq
  <2>2. 0 \in 0..MaxSamples
    BY RunnerAssumption
  <2> QED
    BY <1>3, <2>1, <2>2 DEF ChipTypes, IdleChip, NoResult, Wrong
<1>5. MemoryTypes
  <2>1. output \in Tensor(run.runner)
    BY <1>2 DEF Tensor, JunkRow, LaneValues, Junk
  <2>2. \A z \in Runners : mask[z] \in Masks(z)
    BY <1>3 DEF NothingReceived, Masks
  <2>3. \A z \in Runners : runner[z].completed <= CompletionSync(z)
    <3> SUFFICES ASSUME NEW z \in Runners PROVE runner[z].completed <= CompletionSync(z)
      OBVIOUS
    <3>1. runner[z].completed = 0
      BY <1>3 DEF ClearedRunner
    <3> QED
      BY <3>1, ArtifactFacts
  <2>4. run.chunk <= Mine.chunks
    BY <1>2, ArtifactFacts DEF Mine
  <2> QED
    BY <1>3, <2>1, <2>2, <2>3, <2>4 DEF MemoryTypes
<1>6. ~Healthy /\ last.op # "run"
  BY <1>2, <1>3 DEF Healthy
<1> QED
  BY <1>1, <1>3, <1>4, <1>5, <1>6 DEF SampleInvariant, LinkInvariant, RunnerOwns,
     Resting, Resetting, Progress, Sampling, Earned, SampleIsRight

LEMMA NextSample ==
  ASSUME Recovered, SampleInvariant, [Next]_vars PROVE SampleInvariant'
<1>1. RunnerInvariant'
  BY NextInvariant DEF SampleInvariant
<1>2. LinkInvariant'
  <2>1. ASSUME NEW x \in Runners, ApiCall(x) PROVE LinkInvariant'
    BY <2>1, CallsAreRejected, ChipIsReleased, ChipIsDeployed, SampleIsBegun
       DEF ApiCall
  <2>2. CASE SampleStep
    BY <2>2, ChunkIsSent, EncodingFails, RowIsSubmitted, PipelineIsCompleted,
       ModelIsReset, SyncEnds, BarrierHasFailed DEF SampleStep
  <2>3. CASE HandleFrame
    BY <2>3, FrameIsStored
  <2>4. CASE ChipTakes
    BY <2>4, FrameIsTaken
  <2>5. CASE ChipSteps
    BY <2>5, ChipHasStepped
  <2>6. CASE ChipEmits
    BY <2>6, FrameIsEmitted
  <2>7. CASE Recover
    BY <2>7, PlatformIsRecovered
  <2>8. CASE UNCHANGED vars
    <3>1. UNCHANGED <<owner, runner, pc, run, refused, memory, down, up, chip, result,
                      sample, last>>
      BY <2>8 DEF vars
    <3>2. ChipTypes' /\ MemoryTypes' /\ RunnerOwns'
      BY <3>1 DEF SampleInvariant, LinkInvariant, ChipTypes, MemoryTypes, RunnerOwns,
         Healthy, Mine, Tensor, memory
    <3>3. Resting' /\ Resetting' /\ Earned'
      BY <3>1 DEF SampleInvariant, LinkInvariant, Resting, Resetting, Earned, Healthy,
         Quiet, ConfigComes, Asked, Answering, Answered, Cleared, InitFrame,
         CompleteFrame, Kind, NothingReceived, NoResult, SampleIsRight, Elements, Lanes,
         memory
    <3>4. Progress'
      <4>1. InputsArrive => InputsArrive'
        <5>1. Mine' = Mine /\ \A n : Part(n)' = Part(n)
          BY <3>1 DEF Mine, Part, Chunk
        <5>2. \A n : InputFrame(n)' = InputFrame(n)
          BY <3>1 DEF InputFrame
        <5>3. Asked(SyncFrame)' <=> Asked(SyncFrame)
          BY <3>1 DEF Asked, SyncFrame, Completed
        <5>4. \A n : Arrives(n)' <=> Arrives(n)
          <6> HIDE DEF Part, InputFrame, SyncFrame, Asked
          <6> QED
            BY <3>1, <5>1, <5>2, <5>3 DEF Arrives
        <5> HIDE DEF Mine, Part, Arrives
        <5> QED
          BY <3>1, <5>1, <5>4 DEF InputsArrive
      <4>2. Clock => Clock'
        BY <3>1 DEF Clock, Asked, SyncFrame, Completed, Answering, Answered
      <4>3. /\ Computed => Computed'
            /\ FramesAreDue => FramesAreDue'
            /\ Assembled => Assembled'
        BY <3>1, ComputedKept
      <4> QED
        BY <3>1, <4>1, <4>2, <4>3 DEF SampleInvariant, LinkInvariant, Progress, Sampling
    <3> QED
      BY <3>2, <3>3, <3>4 DEF LinkInvariant
  <2> QED
    BY <2>1, <2>2, <2>3, <2>4, <2>5, <2>6, <2>7, <2>8 DEF Next
<1> QED
  BY <1>1, <1>2 DEF SampleInvariant

LEMMA SampleInvariantHolds == ASSUME Recovered PROVE Spec => []SampleInvariant
<1>1. SampleInvariant /\ [Next]_vars => SampleInvariant'
  BY NextSample
<1> QED
  BY <1>1, InitSample, PTL DEF Spec

\* Types; no row, chunk or timestep beyond the sample (run_sample), for every
\* artifact, every T and every set of runners.
THEOREM TypesHold == ASSUME Recovered PROVE Spec => []TypeOK
<1>1. SampleInvariant => TypeOK
  <2> SUFFICES ASSUME SampleInvariant PROVE TypeOK
    OBVIOUS
  <2>1. ChipTypes /\ MemoryTypes /\ RunnerTypes
    BY DEF SampleInvariant, LinkInvariant, RunnerInvariant
  <2>2. output \in [Rows -> [Elements -> [Lanes -> LaneValues]]]
    BY <2>1 DEF MemoryTypes, Tensor, Elements, Lanes
  <2> QED
    BY <2>1, <2>2 DEF ChipTypes, MemoryTypes, RunnerTypes, Masks, Mine, TypeOK
<1> QED
  BY <1>1, SampleInvariantHolds, PTL

\* A sample that returns OK (rvrt_paicore_runner_run_sample) has every row
\* computed from this very sample's complete input on the runner's own
\* configuration, every spike and every lane in its place and zero elsewhere,
\* for every artifact, T and set of runners, whatever frames the chip puts out
\* early, whichever barriers failed before, and also in place.
THEOREM SamplesAreRight == ASSUME Recovered PROVE Spec => []SampleIsRight
<1>1. SampleInvariant => SampleIsRight
  BY DEF SampleInvariant, LinkInvariant, Earned
<1> QED
  BY <1>1, SampleInvariantHolds, PTL

\* A frame is refused only when its row was not submitted: what is awaited has
\* its lane free.
LEMMA AwaitedIsFree ==
  ASSUME SampleInvariant, HandleFrame, ~refused, refused'
  PROVE  Head(up).row >= run.submitted
<1>1. /\ pc = "syncing" /\ up[1] \in UpFrame /\ up[1] \in InFlight
      /\ up[1].row < run.submitted => Awaited(up[1])
  BY FrameLeaves
<1>2. FramesAreDue /\ Assembled /\ run.submitted \in 0..T /\ up # <<>>
  BY <1>1, RunFacts DEF SampleInvariant, LinkInvariant, Progress, Sampling, HandleFrame
<1>3. Head(up) = up[1]
  BY <1>2, OneLess DEF FramesAreDue
<1>4. Refuses(up[1])
  BY <1>1, <1>3 DEF HandleFrame, Store
<1> SUFFICES ASSUME ~(up[1].row >= run.submitted) PROVE FALSE
  BY <1>3
<1>5. up[1].row < run.submitted
  BY <1>1, <1>2 DEF UpFrame
<1>6. PICK row, e, lane : row = up[1].row /\ e = up[1].elem /\ lane = up[1].lane
  OBVIOUS
<1>7. Kind = "voltage" /\ lane \in mask[run.runner][row][e]
  BY <1>4, <1>6 DEF Refuses, Received
<1>8. row \in Rows /\ up[1] = Work(row, e, lane) /\ e \in Elements
  BY <1>1, <1>5, <1>6 DEF Awaited, UpFrame, Elements, Mine
<1>9. lane \in Got(row, e)
  BY <1>2, <1>7, <1>8 DEF Assembled, MaskOf
<1> QED
  BY <1>1, <1>8, <1>9 DEF Got

\* A frame that is awaited is never refused (runner_validate_frame_timestep, and
\* the received mask in rvrt_store_voltage_lane): lanes that an
\* earlier sample left half assembled, and frames of an earlier barrier, refuse
\* nothing, for every artifact, T and set of runners.
THEOREM RefusalsAreDue == ASSUME Recovered PROVE Spec => RefusalIsDue
<1>1. ASSUME SampleInvariant, [Next]_vars, ~refused, refused'
      PROVE  Head(up).row >= run.submitted
  <2>1. CASE HandleFrame
    BY <1>1, <2>1, AwaitedIsFree
  <2>2. ASSUME ~HandleFrame PROVE ~refused' \/ refused' = refused
    <3>1. ASSUME NEW x \in Runners, ApiCall(x) PROVE ~refused' \/ refused' = refused
      BY <3>1 DEF ApiCall, RejectBusy, FailDeploy, Deploy, Release, RejectSample,
         BeginSample
    <3>2. CASE SampleStep
      BY <3>2 DEF SampleStep, SendChunk, EncodeFails, SubmitTimestep,
         CompletePipeline, SyncUntil, ResetCompletes, SyncCompletes, BarrierFails
    <3>3. CASE ChipTakes \/ ChipSteps \/ ChipEmits \/ Recover
      BY <3>3 DEF ChipTakes, ChipSteps, ChipEmits, Recover
    <3>4. CASE UNCHANGED vars
      BY <3>4 DEF vars
    <3> QED
      BY <1>1, <2>2, <3>1, <3>2, <3>3, <3>4 DEF Next
  <2> QED
    BY <1>1, <2>1, <2>2
<1>2. SampleInvariant /\ [Next]_vars
        => [~refused /\ refused' => Head(up).row >= run.submitted]_vars
  BY <1>1
<1> QED
  BY <1>2, SampleInvariantHolds, PTL DEF Spec, RefusalIsDue
=============================================================================
