SPECIFICATION Spec
CONSTANTS
  Calls = {c1, c2}
  Deliveries = {d1}
  Keys = {k1}
  LogtoUsers = {u1}
  None = None
INVARIANT DuplicateWasProcessed
\* Calls are finitely many.
CHECK_DEADLOCK FALSE
