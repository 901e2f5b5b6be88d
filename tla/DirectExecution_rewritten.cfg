SPECIFICATION Spec
CONSTANTS
  Procs = {p1, p2}
  Runs = {r1}
  Handoffs = {}
  MaxVersion = 3
  MaxFaults = 0
  NULL = NULL
PROPERTY TerminalSummary
CHECK_DEADLOCK FALSE
