SPECIFICATION MCSpec
CONSTANTS
  Subjects = {"requests", "streams", "lists", "sequences"}
  r1 = r1
  b1 = b1
  b2 = b2
  t1 = t1
  a = a
  b = b
  k1 = k1
  Requests = {r1}
  Backends = {b1, b2}
  NoBackend = NoBackend
  NoTransform = NoTransform
  Transforms = {t1}
  Configs <- ConfigsDef
  Routes <- RoutesDef
  Chunks = 2
  MaxChanges = 2
  Keys = {k1}
  Off = Off
  Streams <- StreamsDef
  HistoryLimit = 2
  MaxConnections = 2
  MaxPushes = 1
  MaxReceived = 1
  MaxSent = 3
  MaxReloads = 1
  Shapes = {"array", "other"}
  Elements <- ElementsDef
  NotScalar = NotScalar
  Params <- ParamsDef
  Sizes = {0, 1, 2}
  MaxItems = 3
  MaxPage = 3
  None = None
  Sequence <- SequencesDef
  Time <- TimeDef
  MaxServed = 4
CHECK_DEADLOCK FALSE
INVARIANTS OneInstant AnsweredAndRecorded BodyWhole PagesPartition CursorSound
PROPERTIES EverySettles ClientAndConsoleAgree PromiseKept
