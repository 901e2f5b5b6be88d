SPECIFICATION Spec
CONSTANTS
  Procs = {p1, p2, p3}
  Runs = {r1}
  Graphs = {g1, g2}
  Torn = Torn
  NULL = NULL
SYMMETRY Symmetry
INVARIANTS TypeOK WorkersShareGraph DirectoryHoldsGraph
