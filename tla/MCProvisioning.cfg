CONSTANTS
  System = system
  Subjects = {user}
  DemoUser = user
  Keys = {k1, k2, k3}
  ClientKeys = {c1}
  Names = {s1, n1}
  Seeds = {s1}
  Threads = {t1, t2}
  MaxRequests = 3
  MaxRestarts = 1
  None = None
  Torn = Torn
SPECIFICATION Spec
SYMMETRY Symmetry
INVARIANTS
  TypeOK
  KeyPairsMatch
  SignaturesVerify
  RemovalsHold
PROPERTIES
  FirstRegistrationStands
CHECK_DEADLOCK FALSE
