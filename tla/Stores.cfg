CONSTANTS
  Sessions = {s1}
  Keys = {k1, k2, k3}
  Hashes = {h1, h2}
  Worlds = {w0, w1}
  InitialWorld = w0
  TurnIds = {t1, t2, t3}
  Responses = {ok}
  NoKey = NoKey
  NoTurn = NoTurn
  NoResponse = NoResponse
  MaxSafe = 3
  MaxLease = 2
  MaxLag = 1
  Operations = {o1, o2, o3, o4}
  Requests = {r1, r2}
  Notes = {"note"}
  MaxToolCalls = 2
  MaxActiveTime = 2
  Times = {0, 1}
  MaxVersion = 9
  AssetCalls = {k1, k2, k3}
  KindOf <- MCKindOf
  AssetRequests <- MCAssetRequests
SPECIFICATION StoresSpec
SYMMETRY Symmetry
INVARIANTS
  SingleFencedOwner
  HistoryAgrees
  BudgetPerPause
  AssetsAreWhole
PROPERTIES
  ImplementsLedger
  DurableFacts
CHECK_DEADLOCK FALSE
