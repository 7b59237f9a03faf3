SPECIFICATION Spec
CONSTANTS
  Persistances = {0}
  Sizes = {1, 2}
  MaxBytes = 4
  MaxSegments = 3
INVARIANTS
  ReadAfterCloseFails
CHECK_DEADLOCK FALSE
