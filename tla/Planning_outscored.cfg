SPECIFICATION PlanSpec
CONSTANTS
  Ids <- NodeIds
  Roles <- PackRoles
  Orchestrator = "Lead"
  Baseline = "Analyst"
  Bindings <- PackBindings
  Inputs <- PackInputs
  Documents <- PackDocuments
  NULL = NULL
INVARIANT OpenItemsBecomeAssignments
CHECK_DEADLOCK FALSE
