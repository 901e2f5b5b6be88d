SPECIFICATION CoordSpec
CONSTANTS
  Runs = {"run"}
  Run = "run"
  Nodes = {1, 2, 3}
  Gate = 3
  RunOf <- AnswerRunOf
  Deps <- AnswerDeps
  MaxAttempts <- OneAttempt
  Backoff <- NoBackoff
  Workers = {w1}
  WorkerId <- SharedWorkerId
  LeaseSeconds = 1
  LockWait = 0
  MaxResumes = 0
  Unknowns = {"u"}
  Raises <- AnswerRaises
  Resolves <- AnswerResolves
  Results <- AnswerResults
  Patches <- AnswerPatches
  MaxCalls = 6
  MaxRevisions = 0
  NULL = NULL
INVARIANT ResolvedIsNotOpen
CHECK_DEADLOCK FALSE
