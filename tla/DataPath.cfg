SPECIFICATION DataPathSpec
CONSTANTS
  SizeMax = 31
  Layouts <- MCLayouts
  InputRows <- MCInputRows
  MaxCapacity = 3
  Views <- MCViews
  ChipBytes = {1, 254}
  Frames <- MCFrames
  MaxFrames = 4
INVARIANTS
  UnsentRowsSurvive
  StoresHitTheirRow
  ReadsStayInside
  InputIsExact
  OutputIsDelivered
  PathsAgree
CHECK_DEADLOCK FALSE
