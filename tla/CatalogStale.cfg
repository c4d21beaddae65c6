SPECIFICATION MCFairSpec
CONSTANTS
  Subjects = {"store"}
  coll = coll
  endpoint = endpoint
  response = response
  v1 = v1
  v2 = v2
  gone = gone
  unreadable = unreadable
  absent = absent
  File = {coll, endpoint, response}
  Listed = {endpoint}
  Collections = coll
  Content = {v1, v2, unreadable}
  Unreadable = unreadable
  Gone = gone
  Refs <- RefsDef
  Observer = {o1}
  Detail <- DetailDef
  Holds <- HoldsDef
  Start <- StartDef
  Absent = absent
  None = none
  MaxEdits = 2
  MaxClock = 3
  MaxQueue = 1
  e1 = e1
  e2 = e2
  NoInfo = NoInfo
  Endpoints = {e1}
  NoEndpoint = NoEndpoint
  CatalogActs = {"toggle"}
  CatalogBudget <- StaleBudgetDef
CHECK_DEADLOCK FALSE
PROPERTIES CatalogConverges
