CONSTANTS
  Engagement = {e1}
  WithClient = {e1}
  Mine = {e1}
  DocumentRequest = {r1}
  Proc = {p1}
  Faulty = {}
  PortalProc = {q1}
  PortalFaulty = {}
  NULL = NULL
  MaxYear = 0
  MaxReopens = 0
SPECIFICATION FairSpec
PROPERTY CompleteOnboardingStartsWork
CHECK_DEADLOCK FALSE
