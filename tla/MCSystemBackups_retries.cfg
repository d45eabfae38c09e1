SPECIFICATION Spec
CONSTANTS
  Backups = {b1, b2}
  Nobody = Nobody
  Runners = {r1, r2}
  Sweepers = {p1}
  MaxAttempts = 2
  MaxClaims = 2
  MaxResumes = 0
  Faults = {"crash", "error", "lost", "twice"}
SYMMETRY Interchangeable
INVARIANTS TypeOK OneBuilderPerRow
PROPERTIES ReapsOnlyTheDead FollowsTheLifecycle
