SPECIFICATION LiveSpec
CONSTANTS
  MaxOut = 2
  DownDepth = 1
  UpDepth = 2
  WordBytes = 1
  HighFirst = FALSE
  RxCapacity = 2
  FifoDepth = 2
  ConfigFrames = 1
  InitOut = 0
  TestOut = 2
  Pipelined = {"init", "sync"}
  MaxFrames = 3
INVARIANTS
  FramesAreTheHosts
PROPERTIES
  HandlerDrainsAnswer
  SyncWaitIsExact
  EveryRequestAnswered
  EveryFrameForwarded
