CONSTANTS
  Sessions = {s1}
  Keys = {k1, k2, k3}
  Handlers = {h1, h2}
  Texts = {x}
  Hashes <- MCHashes
  Worlds <- MCWorlds
  InitialWorld <- MCInitialWorld
  TurnIds <- MCTurnIds
  Responses <- MCResponses
  NoKey = NoKey
  NoTurn = NoTurn
  NoResponse = NoResponse
  MaxSafe = 3
  MaxLease = 1
  MaxLag = 1
SPECIFICATION ServerSpec
SYMMETRY Symmetry
INVARIANTS
  RepliesAgree
  WorldIsItsTurns
  AnswersAreCurrent
