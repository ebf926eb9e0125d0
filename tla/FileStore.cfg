SPECIFICATION Spec
CONSTANTS
  Requests = {r1, r2}
  Files = {f1}
  Identity <- MCIdentity
  u1 = u1
  u2 = u2
  t1 = t1
  t2 = t2
  NoTenant = NoTenant
  Expires = {0, 50}
  Second = 3
  Width = 8
  DefaultExpiry = 6
  MaxExpiry = 60
  None = None
SYMMETRY Symmetry
INVARIANTS
  TypeOK
  KeptUntilAsked
  DeletedIsGone
  NoLostObject
  AgreeUnlessFaulted
  LinksHold
PROPERTY DeleteSettles
