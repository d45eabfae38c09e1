SPECIFICATION Spec
CONSTANTS
  Keys = {k1}
  Versions = {1}
  MaxMembers = 3
  MaxFiles = 3
  MaxSchema = 0
  MaxLength = 2
  MaxKept = 1
  Hazards = {"crash", "error", "cut"}
CHECK_DEADLOCK FALSE
INVARIANTS KeptIsRestorable LinearWhenApart
 
