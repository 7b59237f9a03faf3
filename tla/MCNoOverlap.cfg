CONSTANTS
  Bodies <- MCBodies
  Raws <- MCRaws
  Policies <- MCPolicies
  Distance = 1
  Interest = "all"
  ChunkSize = 5
  ChunkOverlap = 3
SPECIFICATION TaskSpec
INVARIANT NoOverlap
\* the task ends
CHECK_DEADLOCK FALSE
