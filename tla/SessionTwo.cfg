CONSTANTS
  Sessions = {s1, s2}
  None = None
  RxCapacity = 2
  PayloadLimit = 1
  MaxTime = 2
  MaxOut = 2
  DownDepth = 2
  UpDepth = 2
  EmptyRead = "idle"
  ClockRuns = TRUE
SYMMETRY Symmetry
SPECIFICATION Spec
INVARIANTS TypeOK SoleOwner HandlerServesCaller HonestTimeout HealthyIsQuiet TimelineAgrees AnswerDelivered
PROPERTIES WritesOnlyToQuietChip NoLateDelivery
