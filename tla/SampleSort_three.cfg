SPECIFICATION SortSpec
CONSTANTS
  Thread = {0, 1, 2}
  NoThread = NoThread
  Rounds = 1
  Inputs <- ThreeWorkerInputs
  FltMax = 99
INVARIANTS SortTypeOK SizesFinalAfterBarrier OutputSorted
PROPERTY SortTerminates
