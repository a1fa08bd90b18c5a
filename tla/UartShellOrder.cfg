SPECIFICATION Spec
CONSTANTS
  MaxOut = 1
  DownDepth = 1
  UpDepth = 3
  TestOut = 1
  Commands = {"init","work","sync"}
  Patient = {}
  ClockRuns = FALSE
  CleanIrq = TRUE
  MaxCommands = 4
PROPERTY
  ControlIsOrdered
CHECK_DEADLOCK FALSE
