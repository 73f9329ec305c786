CONSTANTS
  Users = {u}
  Agents = {a}
  Caps = {c}
  Traces = {x, y}
  Requests = {q1}
  Jtis = {j1}
  None = None
  Threads = {r1, r2}
  MaxTime = 2
  MaxTTL = 1
  MaxDepth = 3
  MaxCreds = 4
SPECIFICATION Spec
SYMMETRY Symmetry
INVARIANTS
  TypeOK
  ParentsStored
  Attenuation
  OneTrace
  RevocationIsFinal
  CleanupStrandsNothing
PROPERTIES
  ImplementsAuthority
