SPECIFICATION CoordSpec
CONSTANTS
  Runs = {"run"}
  Run = "run"
  Nodes = {1, 2}
  Gate = 2
  RunOf <- InquiryRunOf
  Deps <- InquiryDeps
  MaxAttempts <- FirstTwice
  Backoff <- NoBackoff
  Workers = {w1, w2}
  WorkerId <- SharedWorkerId
  LeaseSeconds = 1
  LockWait = 0
  MaxResumes = 0
  Unknowns = {"u"}
  Raises <- InquiryRaises
  Resolves <- InquiryResolves
  Results <- InquiryResults
  Patches <- InquiryPatches
  MaxCalls = 4
  MaxRevisions = 1
  NULL = NULL
INVARIANT CoordTypeOK
INVARIANT OneRevisionPerCheckpoint
PROPERTY ClosureIsEarned
PROPERTY NothingDisappears
CONSTRAINT RetryOrOtherRun
SYMMETRY WorkerSymmetry
CHECK_DEADLOCK FALSE
