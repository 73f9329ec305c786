CONSTANTS
  Users = {u}
  Agents = {a, b}
  Traces = {x, y}
  Contents = {w}
  Requests = {q1, q2, q3, q4}
  MaxDepth = 3
  None = None
SPECIFICATION Spec
INVARIANT TraceKeepsIntents
CHECK_DEADLOCK FALSE
