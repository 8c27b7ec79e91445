CONSTANTS
  Tasks = {a1, a2}
  Edges = {1, 2}
  Requests = {t1, t2}
  Modes = {"finite", "ongoing"}
SPECIFICATION Spec
SYMMETRY Symmetry
CHECK_DEADLOCK FALSE
INVARIANTS
  Forest
