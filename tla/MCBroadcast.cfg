SPECIFICATION Spec
CONSTANTS
  Queues = {q1, q2, q3, q4}
  Unreliable = {q1, q3}
INVARIANTS
  RemoveInRange
PROPERTIES
  OnlyGoneRemoved
  AtomicSpec
CHECK_DEADLOCK FALSE
