CONSTANTS
  Doc = {d1, d2}
  Lent = {d2}
  Parts = {"versions", "tombstones", "bytes"}
  Proc = {p1, p2}
  Faulty = {p2}
  NULL = NULL
  MaxVersion = 3
  MaxDeletes = 1
SPECIFICATION FairSpec
INVARIANTS
  DocumentsTypeOK
  VersionHistoryContiguous
  ReplacementsCounted
PROPERTIES
  VerdictFitsBytes
  VerdictFinalPerVersion
  ReplacementTakesEffect
CHECK_DEADLOCK FALSE
