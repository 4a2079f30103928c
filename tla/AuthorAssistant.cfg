SPECIFICATION AssistantSpec
CONSTANTS
  k1 = k1
  k2 = k2
  Operations = {}
  Requests = {}
  Notes = {}
  MaxToolCalls = 4
  MaxActiveTime = 2
  Times = {0, 1}
  MaxVersion = 0
  Instructions = {"i1"}
  Bodies = {"b1", "gap"}
  Inapplicable = {"gap"}
  Keys <- MCKeys
  Kits = {"kit", "newer"}
  Modes = {TRUE, FALSE}
  ReferenceTool = TRUE
  MaxRevision = 2
  MaxStart = 11
SYMMETRY MCSymmetry
INVARIANTS EvidenceFirst LandingsTrue
CHECK_DEADLOCK FALSE
