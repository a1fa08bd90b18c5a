CONSTANTS
  Sessions = {s1, s2}
  None = None
  RxCapacity = 1
  PayloadLimit = 1
  MaxTime = 2
  MaxOut = 2
  DownDepth = 1
  UpDepth = 1
  EmptyRead = "error"
  ClockRuns = TRUE
SPECIFICATION CoreSpec
INVARIANTS OverflowIsReal
PROPERTIES ImplementsService WaitReturns
