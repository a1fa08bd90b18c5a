SPECIFICATION LiveSpec
CONSTANTS
  MaxOut = 1
  DownDepth = 1
  UpDepth = 3
  TestOut = 1
  Commands = {"config", "init", "work", "sync", "test", "clear", "user config", "user test", "user work", "user control"}
  Patient = {"work", "sync", "test", "user config", "user test", "user work", "user control"}
  ClockRuns = TRUE
  CleanIrq = TRUE
  MaxCommands = 4
INVARIANTS
  OutputExclusive
PROPERTIES
  ReportIsOwn
  ControlIsOrdered
  RequestConcluded
CHECK_DEADLOCK FALSE
