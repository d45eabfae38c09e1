SPECIFICATION FairSpec
CONSTANTS
  Last = 3
  Betas = {2}
  MaxEvents = 4
  Mishaps = {"wipe", "lost", "damage"}
CHECK_DEADLOCK FALSE
INVARIANTS  RollbackIsWhatIsOffered
PROPERTIES Converges
