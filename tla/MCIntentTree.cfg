CONSTANTS
  Users = {u}
  Agents = {a, b}
  Traces = {x, y}
  Contents = {w}
  Requests = {q1, q2, q3, q4}
  MaxDepth = 3
  None = None
SPECIFICATION Spec
SYMMETRY Symmetry
INVARIANTS
  TypeOK
  BranchesComplete
  OnlyCollisionsBreakChains
CHECK_DEADLOCK FALSE
