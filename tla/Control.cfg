CONSTANTS
  place = place  person = person  letter = letter
  w1 = w1  w2 = w2  k1 = k1  k2 = k2
  Quests = {"quest"}
  BlockIds = {"place", "person", "letter"}
  IdOf <- MCIdOf
  Blocks <- MCBlocks
  Needs <- MCNeeds
  Contents <- MCContents
  ChangeSets <- MCChangeSets
  RestoreKeys = {}
  Workers = {w1, w2}
  Adapter = "sqlite"
  MaxRevision = 2
  MaxRecords = 0
  Refused = Refused
  Proposals <- MCProposals
  ProposalKeys = {k1, k2}
  Users = {w1, w2}
  Projects = {"p1"}
  AuthSessions = {k1, k2}
  AccessCalls = {c1, c2}
  InOneTransaction = FALSE
  SessionTtl = 1
  LoginWindow = 1
  LoginCooldown = 1
  MaxLoginAttempts = 2
  LastMinute = 1
SPECIFICATION ControlSpec
SYMMETRY Symmetry
INVARIANTS
  ApplicationsTrue
  AProjectKeepsAnOwner
  AttemptsAreBounded
CHECK_DEADLOCK FALSE
