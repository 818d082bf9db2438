SPECIFICATION MaiSpec
CONSTANTS
  InitPageSize = 2
  GrowingFactor = 4
  PageSizeMax = 3
  InitPageNum = 1
  PercentThreshold = 90
  MaxPages = 3
  NoAddress = NoAddress
INVARIANTS
  TypeOK
  StackMatchesBitmap
  CountersMatchPages
  ObjectsAreAssigned
  PageTableCovers
  ScanFindsTheFullestPage
  LiveIsSeenAssigned
PROPERTIES
  NoDoubleAllocation
  GrowsOnlyAtThreshold
