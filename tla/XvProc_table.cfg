SPECIFICATION ProcSpec
CONSTANTS
  NPROC = 3
  NCPU = 1
  MaxPid = 4
INVARIANTS ProcTypeOK ZombieNoticed ParentsLive WaiterNotKilled PidsDistinct
PROPERTIES ReapedByParent WaitReturns
