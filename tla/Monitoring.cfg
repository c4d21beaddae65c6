SPECIFICATION MCSpec
CONSTANTS
  k1 = k1
  k2 = k2
  Kind <- KindDef
  Filter <- FilterDef
  BufferLimit = 2
  PageLimit = 1
  MaxId = 3
  MaxGeneration = 2
  MaxRuntime = 2
  None = None
  MaxFailures = 1
  MaxUserActions = 2
  NoLink = NoLink
  Wanted <- WantedDef
  Threshold = 2
  MaxFileBytes = 4
  MaxTotalBytes = 4
  DumpPage = 1
  MaxScanned = 2
  MaxCaptured = 3
  MaxSession = 2
  MaxPart = 2
  NoTask = NoTask
CHECK_DEADLOCK FALSE
INVARIANTS PagesFollow StreamAgrees
PROPERTIES StreamRecovers HistoryWhole
