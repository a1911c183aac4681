CONSTANTS
  Engagement = {e1}
  WithClient = {e1}
  Proc = {p1, p2, p3}
  Faulty = {p3}
  NULL = NULL
  MaxYear = 2
  MaxReopens = 1
SPECIFICATION LifecycleFairSpec
INVARIANTS
  LifecycleTypeOK
  AuditAccountsForStatus
  CompleteNeedsFreshConfirmations
  RetentionClockSound
  NoPhantomNotice
PROPERTIES
  RetentionClockFireOnce
  ImplementsLedger
  CompletionTakesEffect
CHECK_DEADLOCK FALSE
