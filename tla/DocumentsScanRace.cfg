CONSTANTS
  Doc = {d1}
  Lent = {}
  Parts = {"versions"}
  Proc = {p1, p2}
  Faulty = {}
  NULL = NULL
  MaxVersion = 2
  MaxDeletes = 0
SPECIFICATION Spec
INVARIANT ActiveServesCleanBytes
CHECK_DEADLOCK FALSE
