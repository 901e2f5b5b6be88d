SPECIFICATION Spec
CONSTANTS
  Procs = {p1, p2}
  Items = {i1}
  Changes <- TwoChanges
  MaxVersion = 3
  MaxCrashes = 1
  NULL = NULL
INVARIANT TypeOK
INVARIANT VersionsAreContiguous
INVARIANT ContextWasPublished
PROPERTY PublishedIsImmutable
PROPERTY ImplementsVersionedTask
PROPERTY LockIsReleased
