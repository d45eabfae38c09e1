SPECIFICATION Spec
CONSTANTS
  MaxOps = 2
  Workers = {w1, w2}
  NoWorker = NoWorker
  Faults = {"crash", "late", "tardy"}
SYMMETRY WorkerSymmetry
CHECK_DEADLOCK FALSE
INVARIANTS TypeOK OneTick OneOperation TokenNamesTheActiveRun BackupBeforeIntent MaintenanceIsOwned
PROPERTIES RequestIsNotOverwritten TerminalIsFinal
