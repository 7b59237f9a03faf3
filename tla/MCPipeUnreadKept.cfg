SPECIFICATION Spec
CONSTANTS
  Persistances = {2}
  Sizes = {1, 3}
  MaxBytes = 6
  MaxSegments = 3
INVARIANTS
  UnreadIsKept
CHECK_DEADLOCK FALSE
