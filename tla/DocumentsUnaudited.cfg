CONSTANTS
  Doc = {d1}
  Lent = {}
  Parts = {"tombstones"}
  Proc = {p1}
  Faulty = {p1}
  NULL = NULL
  MaxVersion = 1
  MaxDeletes = 1
SPECIFICATION Spec
INVARIANT DeletionAudited
CHECK_DEADLOCK FALSE
