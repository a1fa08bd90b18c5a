SPECIFICATION Spec
CONSTANTS
  None = None
  A = A
  B = B
  e = e
  f = f
  g = g
  l = l
  m = m
  Runners = {A, B}
  ArtifactOf <- TwoArtifacts
  T = 2
  Early = TRUE
  Recovered = TRUE
  MaxSamples = 2
  DownDepth = 2
  UpDepth = 1
SYMMETRY ElementSymmetry
INVARIANTS
  TypeOK
  OwnerIsDeployed
  UnsentInputIntact
  SampleIsRight
PROPERTIES
  RefusalIsDue
