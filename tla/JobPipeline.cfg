SPECIFICATION FairPipelineSpec
CONSTANTS
  Requests = {r1}
  Items = {i1}
  Tenants = {t1}
  Titles = {a}
  NoTitle = NoTitle
  EmptyTitle = EmptyTitle
  NoItem = NoItem
  NoRow = NoRow
  Messages = {r1, m1, m2}
  JobIds = {r1}
  Workers = {w1}
  Prefetch = 2
  MaxRetries = 2
  None = None
INVARIANTS
  PipelineTypeOK
  AckedHasEffect
  InOnePlace
  EffectOfCommittedWrite
  JobEndToEnd

  
