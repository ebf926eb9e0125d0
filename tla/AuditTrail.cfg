SPECIFICATION FairSpec
CONSTANTS
  Requests = {r1, r2}
  Items = {i1, i2}
  Tenants = {t1}
  Titles = {a}
  NoTitle = NoTitle
  EmptyTitle = EmptyTitle
  NoItem = NoItem
  NoRow = NoRow
  Workers = {w1}
  Batch = 1
\* Requests are finitely many: the pipeline goes idle.
CHECK_DEADLOCK FALSE
INVARIANTS
  PublishedIsAudited
  AuditFaithful
  RecordedOnce
PROPERTIES
  ImplementsAuditLog
  OutboxDrains
