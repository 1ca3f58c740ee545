SPECIFICATION MCSpec
CONSTANTS
  Procs = {p1, p2}
  Blocks = {b1, b2, b3, b4}
  Data = {0, 1}
  NoBuf = NoBuf
  inodestart = b1
  MAXOPBLOCKS = 2
  LOGSIZE = 4
  FullOps = {p1}
  FewOps = 2
  MoreOps = 4
INVARIANTS LogTypeOK CommitsAlone LogReserved QuietDurable SleeperHasWaker
PROPERTIES OpsAtomic SleepersWake
