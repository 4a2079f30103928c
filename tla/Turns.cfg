CONSTANTS
  k1 = k1  k2 = k2  h1 = h1  h2 = h2
  Sessions = {"s1"}
  Keys = {k1, k2}
  Handlers = {h1, h2}
  Scenarios <- MCScenarios
  OptionIds <- MCIds
  Names = {"host", "guest", "nobody"}
  Holders = {"host", "guest"}
  MaxResource = 1
  MaxOptions = 2
  Hashes <- MCHashes
  Worlds <- MCWorlds
  InitialWorld <- MCInitialWorld
  TurnIds <- MCTurnIds
  Responses <- MCResponses
  NoKey = NoKey
  NoTurn = NoTurn
  NoResponse = NoResponse
  MaxSafe = 2
  MaxLease = 1
  MaxLag = 0
  Lists <- MCLists
  Children <- MCChildren
  Spans = {0, 1, 2}
  Full = 2
  MaxDue = 3
  MaxEvents = 4
  MaxSteps = 3
  SafeInteger = 3
  ManifestLists <- MCManifestLists
  BackendLists <- MCBackendLists
  Namespace <- MCNamespace
  CodeUnits <- MCCodeUnits
  Locale <- MCLocale
  ActionPlans <- MCActionPlans
  MaxDraws = 1
  LastDraw = 2
  Capacity = 1
  LastSecond = 1
  Advances = {0, 2}
SPECIFICATION TurnsSpec
SYMMETRY Symmetry
INVARIANTS
  PlayedAsAuthored
  CasesNeverBreak
  EventsConserved
  AgreesWithStaticPlan
  RegistryIsOfItsSet
  StreamIsItsDraws
CHECK_DEADLOCK FALSE
