SPECIFICATION Spec
CONSTANTS
  MaxOps = 3
  Workers = {w1, w2}
  NoWorker = NoWorker
  Faults = {"crash"}
SYMMETRY WorkerSymmetry
CHECK_DEADLOCK FALSE
INVARIANTS AwaitingIsMasked VerdictIsComposers ComposerDoesOneThing
PROPERTIES KeepsThePromise
