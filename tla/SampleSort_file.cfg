SPECIFICATION SortSpec
CONSTANTS
  Thread = {0, 1}
  NoThread = NoThread
  Rounds = 1
  Inputs <- TwoWorkerInputs
  FltMax = 99
INVARIANT FileSorted
