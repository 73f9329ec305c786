CONSTANTS
  u = u
  a1 = a1
  a2 = a2
  q1 = q1
  q2 = q2
  x = x
  c1 = c1
  c2 = c2
  Users = {u}
  Agents = {a1, a2}
  Caps = {c1}
  Traces = {x}
  Requests = {q1, q2}
  Jtis = {j1, j2}
  None = None
  RootTasks = {q1}
  TraceOf <- InX
  AgentCaps <- AllCaps
  Active = {a1, a2}
  Threads = {r1}
  TokenAsks <- PlainAsks
  CallAsks <- PlainCalls
  MaxTTL = 1
  MaxTime = 1
SPECIFICATION Spec
INVARIANT RevocationReachesCalls
