SPECIFICATION Spec
CONSTANTS
  PageSize = 12
  CellSize = 3
  NPages = 2
  MaxLive = 3
  Requests = {3, 5, 7, 10}
INVARIANT UnmapSucceeds
CHECK_DEADLOCK FALSE
