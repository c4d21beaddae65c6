SPECIFICATION MCSpec
CONSTANTS
  c1 = c1
  c2 = c2
  n1 = n1
  n2 = n2
  s1 = s1
  g1 = g1
  g2 = g2
  Ctx = {c1, c2}
  Name = {n1, n2}
  Seed = {s1}
  Gen = {g1, g2}
  Size = {1, 2}
  MaxEntries = 2
  MaxEntryBytes = 2
  MaxTotalBytes = 1
  None = None
  k1 = k1
  a1 = a1
  Absent = Absent
  Broken = Broken
  Disabled = Disabled
  Unloadable = Unloadable
  Watcher = Watcher
INVARIANTS StructureInv BytesAccounted LimitsRespected AnsweredWriteServed
PROPERTIES GenerationsApart EveryOpenEnds CallsAndRoutesSettle
