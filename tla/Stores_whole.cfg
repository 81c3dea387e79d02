SPECIFICATION StoresSpec
CONSTANTS
  s1 = s1
  s2 = s2
  u1 = u1
  u2 = u2
  NoUri = NoUri
  Server = {s1, s2}
  Uri = {u1, u2}
  LanceRoot <- MCLanceRoot
  DemoRoot = u2
  Label = {"a", "b"}
  Providers = {"auto", "anthropic"}
  Absent = Absent
  Garbled = Garbled
  Broken = Broken
  Requests = 2
  Edits = 1
  Writer = {p1, p2}
  MaxLines = 2
  KeepLines = 1
  TrimEvery = 2
  Records = 6
  Clears = 1
  Reader = {r1, r2}
  Numbers = 2
  Lives = 2
  Asks = 3
  Sweeps = 1
  Address = {a1, a2, a3}
  Cost = 2
  Burst = 1
  Rate = 2
  GlobalBurst = 2
  GlobalRate = 1
  MaxTracked = 1
  Window = 6
  Ticks = 9
  Database = {d1, d2}
  Shelf = 1
  Retain = 1
  Floor = 2
  Blob = {d2}
  Metric = {"l2"}
  Versions = 3
  PlanRequests = 2
  AnnMinRows = 1
  Runs = 2
INVARIANTS
    SettingsAreSound
    TailSurvives
    AnswersAreAboutTheirVersion
    AllowancesHold
    PromisesHold
PROPERTIES
    OnlyStaleSavesLose
    UndoIsThere
CHECK_DEADLOCK FALSE
