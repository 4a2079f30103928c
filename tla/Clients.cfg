CONSTANTS
  Quests = {q1, q2}
  Releases = {"r1"}
  Handlers = {h1, h2}
  Desks <- DesksOfOnePanel
  MaxDraft = 1
  MaxClicks = 3
  ShowCalls = {"call", "other"}
  PageCall = "call"
  PlaySessions = {"x", "y"}
  Variants = {"a"}
  LastTurn = 2
  MaxShows = 7
  FewShows = 4
  MaxSubmits = 4
  MaxLoads = 2
  LaunchCalls = {l1, l2, l3}
  Playtests = {"p1", "p2"}
  Databases = {"d1", "d2"}
  Startable <- TwoPlaytests
  NoPlayer = NoPlayer
  Actors = {"a"}
  Overlays = {"o"}
  Items = {"i"}
  Lines = {"l1"}
  Operations = {}
  Requests = {}
  Notes = {}
  MaxToolCalls = 3
  MaxActiveTime = 2
  Times = {0}
  MaxVersion = 8
  Callers = {"c1", "c2"}
  SegmentKeys = {"k1", "k2"}
  Instructions <- MCInstructions
  Bodies = {"b"}
  MaxMessages = 3
  LastDraft = 1
  FirstStates <- FirstFrames
  PlanTrees <- SmallPlans
  MaxTreeNodes = 6
  MaxTreeDepth = 3
  MaxChildren = 2
SPECIFICATION ClientsSpec
SYMMETRY Symmetry
INVARIANTS
  EditsLandOnce
  QuietMeansResting
  TheTurnIsShown
  OnePlayerListens
  RuledPlansConverge
  ConversationHolds
CHECK_DEADLOCK FALSE
