SPECIFICATION CoordSpec
CONSTANTS
  Runs = {"run"}
  Run = "run"
  Nodes = {1, 2}
  Gate = 2
  RunOf <- InquiryRunOf
  Deps <- InquiryDeps
  MaxAttempts <- OneAttempt
  Backoff <- NoBackoff
  Workers = {w1, w2}
  WorkerId <- SharedWorkerId
  LeaseSeconds = 1
  LockWait = 0
  MaxResumes = 0
  Unknowns = {"u"}
  Raises <- InquiryRaises
  Resolves <- InquiryResolves
  Results <- InquiryResults
  Patches <- InquiryPatches
  MaxCalls = 3
  MaxRevisions = 0
  NULL = NULL
INVARIANT UpToDateIsMaterialized
CHECK_DEADLOCK FALSE
