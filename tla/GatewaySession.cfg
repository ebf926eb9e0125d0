SPECIFICATION Spec
CONSTANTS
  Callbacks = {b1, b2}
  SignOuts = {o1}
  ApiCalls = {a1}
  States = {st}
  Codes = {c1}
  Sids = {s1, s2}
  Persons = {p1, p2}
  None = None
SYMMETRY Symmetry
INVARIANTS
  OneSessionPerLogin
  ForwardedIsVerified
  SignedOutStaysOut
  RevokedIsDenied
\* Requests are finitely many.
CHECK_DEADLOCK FALSE
