SPECIFICATION FairSpec
CONSTANTS
  Backups = {b1}
  Nobody = Nobody
  Runners = {r1, r2}
  Sweepers = {p1}
  MaxAttempts = 3
  MaxClaims = 4
  MaxResumes = 0
  Faults = {"crash", "error", "post", "delete"}
PROPERTIES EveryBackupEnds
