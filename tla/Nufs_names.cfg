SPECIFICATION Spec
CONSTANTS
  Path <- TreePaths
  PAGE_COUNT = 5
  INODE_COUNT = 3
  EntriesPerPage = 3
  MaxSize = 1
INVARIANTS TypeOK FreedWithLastName
PROPERTY OthersUntouched
CHECK_DEADLOCK FALSE
