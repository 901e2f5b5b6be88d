SPECIFICATION HandoffSpec
CONSTANTS
  Procs = {p1, p2}
  Coordinators = {c1}
  Runs = {r1, g1}
  GraphRuns = {g1}
  Handoffs = {h1, h2}
  MaxVersion = 4
  MaxFaults = 1
  NULL = NULL
INVARIANT HandoffTypeOK
INVARIANT RunRevisesOnce
INVARIANT SuccessIsMaterialized
PROPERTY ConsumedForGood
PROPERTY OnlyOwnerEndsClaim
SYMMETRY Symmetric
CHECK_DEADLOCK FALSE
