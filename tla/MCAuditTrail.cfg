CONSTANTS
  Users = {u}
  Agents = {a, b}
  Traces = {x}
  Requests = {q1, q2}
  Chains <- SomeChains
  MaxRestarts = 1
  Anonymous = Anonymous
  None = None
SPECIFICATION Spec
SYMMETRY Symmetry
INVARIANTS
  TypeOK
  RowsMatchHops
  HandedHopsRecorded
  EventsExplainRows
  OneTracePerRequest
CHECK_DEADLOCK FALSE
