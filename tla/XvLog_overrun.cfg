SPECIFICATION LogSpec
CONSTANTS
  Procs = {p1, p2}
  Blocks = {b1, b2, b3}
  Data = {0, 1}
  NoBuf = NoBuf
  inodestart = b1
  MAXOPBLOCKS = 1
  LOGSIZE = 2
  FullOps = {p1, p2}
PROPERTIES OpsAtomic
