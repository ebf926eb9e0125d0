SPECIFICATION Spec
CONSTANTS
  Calls = {c1, c2}
  Subjects = {x}
  OpenIds = {x, y}
  UnionIds = {v}
  Users = {u1, u2}
  None = None
INVARIANT UnionSharesUser
\* Calls are finitely many.
CHECK_DEADLOCK FALSE
