CONSTANTS
  MaxPolicies = 2
  MaxChunk = 2
  MaxBody = 4
SPECIFICATION Spec
INVARIANTS NothingLeftBehind EndedIsFinished WholeBodyReported ReportedOnce ChunkFindsWriter
\* the exchange ends
CHECK_DEADLOCK FALSE
