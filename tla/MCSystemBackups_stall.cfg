SPECIFICATION Spec
CONSTANTS
  Backups = {b1}
  Nobody = Nobody
  Runners = {r1, r2}
  Sweepers = {p1}
  MaxAttempts = 2
  MaxClaims = 3
  MaxResumes = 1
  Faults = {"error", "post", "silence", "delete"}
SYMMETRY Interchangeable
INVARIANTS CompletedHasItsArchive SecretNeverUnattended
