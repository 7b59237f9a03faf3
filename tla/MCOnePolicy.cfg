CONSTANTS
  MaxPolicies = 2
  MaxChunk = 1
  MaxBody = 1
SPECIFICATION Spec
INVARIANT OnePolicy
\* the exchange ends
CHECK_DEADLOCK FALSE
