SPECIFICATION MCSpec
CONSTANTS
  Subjects = {"desktop"}
  k1 = k1
  c1 = c1
  File = {1, 2}
  Key = {k1}
  Def <- RoundDef
  Content <- RoundContent
  Caller = {}
  Conn = {c1}
  MaxCalls = 1
  FatalScans = FALSE
  Absent = Absent
  Broken = Broken
  Disabled = Disabled
  Unloadable = Unloadable
  Watcher = Watcher
  None = None
  r1 = r1
  r2 = r2
  p1 = p1
  p2 = p2
  p3 = p3
  Roots = {r1, r2}
  Ports = {p1, p2, p3}
  NoRoot = NoRoot
  NoPort = NoPort
  DesktopBudget <- CommandsOnlyDef
CHECK_DEADLOCK FALSE
INVARIANTS PoolOrSessionAsPromised
