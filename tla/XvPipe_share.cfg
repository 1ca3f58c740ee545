SPECIFICATION Spec
CONSTANTS
  NPROC = 3
  NCPU = 3
  MaxPid = 3
  PIPESIZE = 2
  Wrap = 4
  Lengths = {3}
  Sharing <- MCSharing
INVARIANTS PipeTypeOK NoMissedWakeup PipeOutlivesUsers
PROPERTIES ImplementsFifo
CHECK_DEADLOCK FALSE
