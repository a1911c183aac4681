CONSTANTS
  NULL = NULL
  Request = {r0, r1, r2}
  Seeded = {r0}
  TaxYear = {y1}
  AdminProc = {p1, p2}
  AdminFaulty = {p2}
  MaxAttempts = 2
  Engagement = {e1, e2}
  ClientMember = {c1, c2}
  Accountant = {a1}
  SendProc = {p1, p2}
  SendFaulty = {p2}
  Attachment = {f1}
  MaxMessages = 2
  User = {u1, u2}
  Unreachable = {u2}
  Dispatch = {p1, p2}
  DispatchFaulty = {p2}
  MaxDay = 2
  MaxRuns = 3
SPECIFICATION Spec
INVARIANTS
  TypeOK
  DecisionCommittedOnce
  MailMatchesDecision
  UnwarnedDuplicatesBounded
  ThreadConfined
  WatermarkExact
PROPERTIES
  DecidedProspectHears
  OtherPartyTold
  SelectedIsMailed
CHECK_DEADLOCK FALSE
