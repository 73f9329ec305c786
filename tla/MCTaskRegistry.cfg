CONSTANTS
  t1 = t1
  t2 = t2
  x = x
  y = y
  Tasks = {t1, t2}
  Traces = {x, y}
  TraceOf <- MCTraceOf
  Threads = {r1, r2}
  None = None
SPECIFICATION Spec
INVARIANTS
  TypeOK
  NoLostCancel
  OnlyRevokedTracesCancelled
  RegistryExact
PROPERTIES
  CancelledCallsEnd
  ImplementsCancelScope
