SPECIFICATION Spec
CONSTANTS
  Keys = {k1}
  Versions = {1}
  MaxMembers = 2
  MaxFiles = 3
  MaxSchema = 1
  MaxLength = 1
  MaxKept = 1
  Hazards = {"crash", "cut", "upload"}
CHECK_DEADLOCK FALSE
INVARIANTS RestoreIsExact
