SPECIFICATION Spec
CONSTANTS
  Persistances = {3}
  Sizes = {1, 2}
  MaxBytes = 4
  MaxSegments = 3
INVARIANTS
  FetchIsSafe
CHECK_DEADLOCK FALSE
