SPECIFICATION Spec
CONSTANTS
  None = None
  A = A
  B = B
  e = e
  f = f
  g = g
  l = l
  m = m
  Runners = {A}
  ArtifactOf <- OneArtifact
  T = 2
  Early = FALSE
  Recovered = FALSE
  MaxSamples = 2
  DownDepth = 2
  UpDepth = 2
INVARIANTS
  SampleIsRight
