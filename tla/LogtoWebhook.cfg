SPECIFICATION Spec
CONSTANTS
  Calls = {c1, c2, c3}
  Deliveries = {d1, d2}
  Keys = {k1, k2}
  LogtoUsers = {u1, u2}
  None = None
SYMMETRY Symmetry
INVARIANTS
  OneCallPerKey
  AcceptedIsApplied
  DuplicateOfGenuine
PROPERTY
  ImplementsRevocations
\* Calls are finitely many.
CHECK_DEADLOCK FALSE
