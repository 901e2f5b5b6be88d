SPECIFICATION PlanSpec
CONSTANTS
  Ids <- NodeIds
  Roles <- PackRoles
  Orchestrator = "Lead"
  Baseline = "Analyst"
  Bindings <- PackBindings
  Inputs <- PackInputs
  Documents <- PackDocuments
  NULL = NULL
INVARIANTS PlanTypeOK OrderRespectsDependencies CycleIsReal NeverStuck
INVARIANTS OpenItemsAreAnswered CompiledGraphsAreValid RolesInOrder GateSeesCleanRun
PROPERTY PlanningEnds
CHECK_DEADLOCK FALSE
