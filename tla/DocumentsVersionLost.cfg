CONSTANTS
  Doc = {d1}
  Lent = {}
  Parts = {"versions"}
  Proc = {p1}
  Faulty = {}
  NULL = NULL
  MaxVersion = 2
  MaxDeletes = 0
SPECIFICATION Spec
INVARIANT EveryPriorVersionRetained
CHECK_DEADLOCK FALSE
