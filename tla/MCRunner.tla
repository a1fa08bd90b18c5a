------------------------------ MODULE MCRunner ------------------------------
EXTENDS RunnerProperties, TLC

CONSTANTS A, B, e, f, g, l, m

\* A runner of spikes and one of voltages, and the former alone.
DataArtifact ==
  [kind |-> "data", latency |-> 2, chunks |-> 2, elements |-> {e, f},
   lanes |-> {l}]
VoltageArtifact ==
  [kind |-> "voltage", latency |-> 1, chunks |-> 1, elements |-> {g},
   lanes |-> {l, m}]
TwoArtifacts == A :> DataArtifact @@ B :> VoltageArtifact
OneArtifact ==
  A :> [DataArtifact EXCEPT !.chunks = 1, !.elements = {e}]

ElementSymmetry == Permutations({e, f})
=============================================================================
