CONSTANTS
  Sessions = {s1}
  None = None
  RxCapacity = 2
  PayloadLimit = 1
  MaxTime = 2
  MaxOut = 2
  DownDepth = 2
  UpDepth = 2
  EmptyRead = "stall"
  ClockRuns = FALSE
SPECIFICATION LiveSpec
PROPERTIES EveryCallAnswered
