SPECIFICATION EngineSpec
CONSTANTS
  Runs = {"run"}
  Nodes = {1, 2}
  RunOf <- ChainRunOf
  Deps <- ChainDeps
  MaxAttempts <- ChainMaxAttempts
  Backoff <- ChainBackoff
  Workers = {w1, w2}
  WorkerId <- SharedWorkerId
  LeaseSeconds = 1
  LockWait = 0
  MaxResumes = 0
  MaxCrashes = 2
  NULL = NULL
INVARIANT EngineTypeOK
PROPERTY EveryNodeSettles
PROPERTY EveryCallReturns
