SPECIFICATION FairSpec
CONSTANTS
  Messages = {m1}
  JobIds = {j1}
  Workers = {w1}
  Prefetch = 1
  MaxRetries = 3
  None = None
PROPERTY FailingJobIsGivenUp
