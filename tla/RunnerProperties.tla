-------------------------- MODULE RunnerProperties --------------------------
(***************************************************************************)
(* What a caller of Lib/runtime/paicore_runner.h relies on.                *)
(***************************************************************************)
EXTENDS Runner

RunRecord ==
  [runner : Runners, inPlace : BOOLEAN, timestep : Rows, chunk : Nat,
   submitted : 0..T, target : Nat]

LaneValues == {Zero, Junk, Wrong} \union 1..MaxSamples

\* Types; no row, chunk or timestep beyond the sample.
TypeOK ==
  /\ owner \in Runners \union {None}
  /\ runner \in [Runners -> [deployed : BOOLEAN, faulted : BOOLEAN,
                             completed : Nat]]
  /\ \A x \in Runners : runner[x].completed <= CompletionSync(x)
  /\ pc \in {"idle", "resetting", "sending", "sent", "syncing", "completing"}
  /\ run \in RunRecord
  /\ run.chunk <= ArtifactOf[run.runner].chunks
  /\ refused \in BOOLEAN
  /\ input \in [Rows -> BOOLEAN]
  /\ output \in [Rows -> [Elements -> [Lanes -> LaneValues]]]
  /\ \A x \in Runners :
       mask[x] \in [Rows -> [ArtifactOf[x].elements -> SUBSET ArtifactOf[x].lanes]]
  /\ sample \in 0..MaxSamples
  /\ chip.left \in Nat

\* A runner is deployed exactly while its session owns the chip: a deployment
\* that fails at any point, or a release, leaves the chip to the others.
OwnerIsDeployed == \A x \in Runners : runner[x].deployed <=> owner = x

\* Rows of which not every chunk has been encoded still hold the caller's
\* input, also when outputs replace inputs in place.
UnsentInputIntact ==
  pc # "idle" =>
    \A row \in Rows :
      \/ row > run.timestep
      \/ row = run.timestep /\ pc \in {"resetting", "sending"}
      => input[row]

\* A sample that returns OK has computed every output row from the complete
\* input rows of this very sample, on the runner's own configuration, and has
\* put each frame where it belongs: spikes where the chip fired, zero
\* elsewhere, and all lanes of each voltage.
SampleIsRight ==
  pc = "idle" /\ last.op = "run" /\ last.status = "OK" =>
    \A row \in Rows :
      /\ result[row].of = sample
      /\ \A e \in Elements, lane \in Lanes :
           output[row][e][lane] =
             IF e \in result[row].fired THEN sample ELSE Zero

\* A frame is refused only for a row that was not submitted yet: the lanes
\* that an earlier sample has left half assembled refuse nothing.
RefusalIsDue ==
  [][~refused /\ refused' => Head(up).row >= run.submitted]_vars
=============================================================================
