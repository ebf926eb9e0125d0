SPECIFICATION LoginSpec
CONSTANTS
  Calls = {c1, c2, c3}
  Subjects = {x}
  OpenIds = {x, y}
  UnionIds = {v, w}
  Users = {u1, u2, u3}
  None = None
  Settings <- MCSettings
  MaxRestarts = 1
SYMMETRY Symmetry
INVARIANTS
  NoOrphanUser
  ResolvedIsLinked
  SharedOnlyByUnion
  TokensSurviveRestarts
PROPERTY
  ImplementsDirectory
