CONSTANTS
  Bodies <- MCBodies
  MaxStructure = 6
  MaxString = 5
  MaxEscapes = 4
  MaxNumber = 5
SPECIFICATION Spec
INVARIANTS AcceptsJson AcceptsOnlyValues EveryStringMatched
\* the task ends
CHECK_DEADLOCK FALSE
