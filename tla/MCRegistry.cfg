CONSTANTS
  a = a
  b = b
  n = n
  m = m
  doc = doc
  r = r
  w = w
  Star = Star
  None = None
  Agents = {a, b}
  Names = {n, m}
  Types = {doc, Star}
  Caps = {r, w}
  Requests = {q1, q2}
  Boot = Boot
  Demo <- MCDemo
  Asks <- MCAsks
  Puts <- MCPuts
  MaxPuts = 2
  MaxRestarts = 1
  MaxTime = 1
SPECIFICATION Spec
INVARIANTS
  TypeOK
  NamesUnique
  PolicyEnforced
  VCsOfAcceptedRows
  ReadersAgree
CHECK_DEADLOCK FALSE
