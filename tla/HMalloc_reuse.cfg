SPECIFICATION Spec
CONSTANTS
  PageSize = 12
  CellSize = 3
  NPages = 2
  MaxLive = 3
  Requests = {1, 4, 7, 10, 13}
INVARIANTS TypeOK BlocksTile Coalesced HeaderCoversRequest
CHECK_DEADLOCK FALSE
