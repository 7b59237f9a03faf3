CONSTANTS
  Bodies <- MCBodies
  MaxStructure = 3
  MaxString = 3
  MaxEscapes = 4
  MaxNumber = 3
SPECIFICATION Spec
INVARIANT AcceptsAllJson
\* the task ends
CHECK_DEADLOCK FALSE
