CONSTANTS
  Engagement = {e1}
  WithClient = {e1}
  Mine = {e1}
  DocumentRequest = {r1}
  Proc = {p1}
  Faulty = {}
  PortalProc = {q1, q2}
  PortalFaulty = {q2}
  NULL = NULL
  MaxYear = 0
  MaxReopens = 0
SPECIFICATION FairSpec
INVARIANTS
  OnboardingTypeOK
  OnboardingNotifiedOnce
PROPERTIES
  StartedOnlyWhenOnboarded
  LifecycleSpec
  LastStepStartsWork
CHECK_DEADLOCK FALSE
