SPECIFICATION Spec
CONSTANTS
  Persistances = {0, 3}
  Sizes = {0, 1, 2, 3}
  MaxBytes = 6
  MaxSegments = 4
INVARIANTS
  FetchedIsRead
PROPERTIES
  StreamSpec
CHECK_DEADLOCK FALSE
