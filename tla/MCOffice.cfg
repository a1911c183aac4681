CONSTANTS
  NULL = NULL
  Engagement = {e1, e2}
  Person = {x1, x2, x3}
  KnownClient = {x1}
  Staff = {x2}
  InviteProc = {p1, p2}
  InviteFaulty = {p2}
  Sender = {c1, a1}
  Viewer = {c1}
  PageProc = {p1, p2}
  PageFaulty = {p2}
  MaxArrivals = 2
  DocumentRequest = {q1}
  DueEngagement = {e1}
  Interval = {1, 2}
  DefaultDays = 2
  PartsOfDay = 2
  MaxTime = 2
  Engine = {p1, p2}
  EngineFaulty = {p2}
  MaxEngineRuns = 2
  Task = {t1}
  Cli = {p1, p2}
  MaxEntries = 4
  Phase = {plan}
  PullRequest = {r1}
  StateCli = {p1, p2}
  Migrator = {p2}
  Brief = {b1}
  MaxEvents = 2
  Notice = {n1, n2, n3}
  Foreign = {n3}
  EmitFaulty = {n2}
  Tab = {t1}
  Folder = {f1, f2}
  SeededFolder = {f1}
  FolderName = {a}
  SeededName = b
  PlacedDoc = {d1}
  TreeTab = {t1, t2}
  TreeFaulty = {t2}
  MaxWrites = 3
  Draft = {d1, d2}
  MaxSends = 2
  Service = {s1, s2}
  SeededService = {s1}
  ServiceText = {v1, v2}
  ServiceTab = {t1, t2}
  MaxCalls = 2
  Kind = {k1, k2}
  Question = {q1}
  Editor = {e1, e2}
  LapsedEditor = {e2}
  AnswerTab = {c1}
  MaxSaves = 2
  Deployer = {p1, p2}
  DeployerFaulty = {p2}
  MaxDeployments = 3
  Case = {m1, m2}
  ClientUser = {u1, u2}
  Paper = {d1, d2}
  ChecklistItem = {i1}
  ChecklistTab = {k1}
  OfficeTab = {o1}
  Held = {d1}
  Asker = {p1, p2}
  ClientAsker = {p1}
  AskerFaulty = {p2}
  MaxHeld = 3
  Ask = {r1}
  DecisionTab = {t1, t2}
  Correspondent = {u1, u2}
  StarterTab = {t1, t2}
  MaxCreations = 2
  PanelTab = {t1, t2}
  SettingValue = {v1, v2}
  MaxNotes = 2
  MaxReopenings = 1
  Wanted = {r1}
  WantedTab = {t1, t2}
  WantedFaulty = {t2}
  MaxDay = 1
  Choice = {c1, c2}
  Initiated = {i1, i2}
  NewTab = {t1}
  NewCall = {p1, p2}
  NewFaulty = {t1}
SPECIFICATION Spec
INVARIANTS
  TypeOK
  NoOrphanStub
  RecordsTellHistory
  PagesShowRows
  ToldWhatHappened
  RowsStayWhole
CHECK_DEADLOCK FALSE
