SPECIFICATION MCSpec
CONSTANTS
  MaxIndex = 3
  MaxAssets = 4
  Uploads = {"bin"}
  None = None
  Workspaces <- MCWorkspaces
  e1 = e1
  e2 = e2
  la = la
  lb = lb
  Listing <- ListingDef
  Label = {la, lb}
  Reserved = Reserved
  MaxSame = 2
  RawTrees <- RawTreesDef
  Root = Root
  Unsorted = Unsorted
  Nil = Nil
  Indices = {1, 9}
  LastIndex = 9
  MaxTurns = 2
  MaxTouches = 1
  s1 = s1
  s2 = s2
  dx = dx
  dy = dy
  DataName = {dx, dy}
  DataContent = {1}
  Source = {s1, s2}
  SourceRefs <- SourceRefsDef
  NoFile = NoFile
  NotServed = NotServed
  MaxRenames = 1
  MaxDataEdits = 1
INVARIANTS Complete EndpointServes TreeWhole OrderKept RenameAllOrNothing
PROPERTIES OthersUntouched
CHECK_DEADLOCK FALSE
