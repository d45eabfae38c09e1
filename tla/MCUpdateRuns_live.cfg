SPECIFICATION FairSpec
CONSTANTS
  MaxOps = 2
  Workers = {w1}
  NoWorker = NoWorker
  Faults = {"late"}
CHECK_DEADLOCK FALSE
PROPERTIES EveryOperationEnds
