SPECIFICATION Spec
CONSTANTS
  Runs = {"run", "other"}
  Nodes = {1, 2, 3, 4}
  RunOf <- ForkRunOf
  Deps <- ForkDeps
  MaxAttempts <- ForkMaxAttempts
  Backoff <- ForkBackoff
  Workers = {w1, w2}
  WorkerId <- SharedWorkerId
  LeaseSeconds = 1
  LockWait = 1
  MaxResumes = 1
  NULL = NULL
INVARIANT TypeOK
INVARIANT DependencyOrder
INVARIANT ExclusiveClaim
INVARIANT OneOutcomePerAttempt
INVARIANT RowsAreReplayOfEvents
INVARIANT AttemptsBounded
INVARIANT RunVerdict
PROPERTY OutcomesAreFinal
PROPERTY ImplementsDag
PROPERTY ImplementsOutcomes
CONSTRAINT OneForkOrTwoRuns
SYMMETRY WorkersAreAlike
CHECK_DEADLOCK FALSE
