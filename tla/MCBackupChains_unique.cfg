SPECIFICATION Spec
CONSTANTS
  Keys = {k1, k2}
  Versions = {1}
  MaxMembers = 2
  MaxFiles = 2
  MaxSchema = 0
  MaxLength = 1
  MaxKept = 0
  Hazards = {}
CHECK_DEADLOCK FALSE
INVARIANTS KeptIsLoadable
