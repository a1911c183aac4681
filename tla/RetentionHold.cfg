CONSTANTS
  e1 = e1
  c1 = c1
  d1 = d1
  Engagement = {e1}
  Client = {c1}
  ClientOf <- MCClientOf
  Doc = {d1}
  EngagementOf <- MCEngagementOf
  HoldId = {h1}
  Proc = {p1, p2}
  Faulty = {p2}
  NULL = NULL
  RETENTION_WINDOW_YEARS = 1
  MaxYear = 1
  MaxVersion = 2
SPECIFICATION RetentionSpec
PROPERTY HoldAtCommitBlocksPurge
CHECK_DEADLOCK FALSE
