CONSTANTS
  Accounts = {"a1", "a2"}
  LoginIds = {"l1"}
  AccountCalls = {"c1"}
  AuthorCalls = {"b1", "b2"}
  MaxGeneration = 3
  MaxRevision = 1
  MaxThreads = 1
  ModelSessions = {"s1", "s2"}
  ModelTurns = {"t1", "t2"}
  MaxActiveSessions = 1
  MaxConfigurations = 2
  ProviderErrors = {"rate_limited"}
  LastInstant = 1
  ActionTypes = {"paint", "wait"}
  EntityIds = {"e1", "e2"}
  Profiles = {"strict"}
  Operations = {o1, o2}
  Requests = {r1, r2}
  Notes = {}
  MaxToolCalls = 1
  MaxActiveTime = 1
  Times = {0}
  MaxVersion = 3
  ToolCalls = {c1, c2}
  Docs = {d1, d2}
  Outputs = {text, unfit}
  Unfit = unfit
SPECIFICATION AiSpec
INVARIANTS
  ThreadsServeTheirLogin
  EvidenceExplainsOutcome
  ReadsAreRecordedOnce
PROPERTIES
  OnlyThisProviderSpeaks
  BusySessionsBecomeFree
CHECK_DEADLOCK FALSE
