SPECIFICATION BusinessSpec
CONSTANTS
  Requests = {r1, r2, r3}
  Items = {i1, i2}
  Tenants = {t1, t2}
  Titles = {a}
  NoTitle = NoTitle
  EmptyTitle = EmptyTitle
  NoItem = NoItem
  NoRow = NoRow
SYMMETRY Symmetry
INVARIANTS
  ItemsMatchLastEvent
  LifeCycle
  JobsAccounted
PROPERTY WriteIsOwnAndLogged
