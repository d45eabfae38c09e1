SPECIFICATION Spec
CONSTANTS
  Backups = {b1}
  Nobody = Nobody
  Runners = {r1, r2}
  Sweepers = {p1}
  MaxAttempts = 2
  MaxClaims = 3
  MaxResumes = 2
  Faults = {"cancel", "broker", "twice"}
SYMMETRY Interchangeable
INVARIANTS NoOrphanArchive
PROPERTIES CompletedIsFinal
