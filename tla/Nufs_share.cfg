SPECIFICATION Spec
CONSTANTS
  Path <- FlatPaths
  PAGE_COUNT = 8
  INODE_COUNT = 3
  EntriesPerPage = 2
  MaxSize = 4
INVARIANT PagesOwned
CHECK_DEADLOCK FALSE
