SPECIFICATION MCSpec
CONSTANTS
  v1 = v1
  v2 = v2
  ta = ta
  tb = tb
  Subjects = {"status", "draft", "capture", "data", "drag"}
  NoInfo = NoInfo
  Unknown = Unknown
  StatusBudget <- StatusBudgetDef
  Variants = {v1, v2}
  Texts = {ta, tb}
  Deleted = Deleted
  NoRevision = NoRevision
  DraftBudget <- DraftBudgetDef
  k1 = k1
  k2 = k2
  RouteKey = {k1, k2}
  FileCount = 2
  Home <- HomeDef
  WrittenByHand <- HandDef
  OwnVariant = OwnVariant
  BadVariant = BadVariant
  NoEndpointFile = NoEndpointFile
  Unserved = Unserved
  FileNames = {1, 2, 3}
  NoPreview = NoPreview
  DataBudget <- DataBudgetDef
  c1 = c1
  c2 = c2
  e1 = e1
  e2 = e2
  EndpointRow = {e1, e2}
  CollectionRow = {c1, c2}
  RootOrder = RootOrder
  UnsortedOrder = UnsortedOrder
  NoMove = NoMove
  StartOrders <- OrdersDef
  MaxFolded = 2
  MaxRuns = 2
  MaxCaptures = 2
  MaxBatches = 1
  MaxHandEdits = 1
CHECK_DEADLOCK FALSE
INVARIANTS LateReadsLose DraftSafe MocksAsChosen DataPageTrue DropsWhereShown
PROPERTIES StatusConverges
