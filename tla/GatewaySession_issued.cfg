SPECIFICATION Spec
CONSTANTS
  Callbacks = {b1}
  SignOuts = {o1}
  ApiCalls = {a1}
  States = {st}
  Codes = {c1}
  Sids = {s1}
  Persons = {p1}
  None = None
INVARIANT IssuedIsUnchanged
\* Requests are finitely many.
CHECK_DEADLOCK FALSE
