SPECIFICATION AssistantSpec
CONSTANTS
  k1 = k1
  k2 = k2
  Operations = {}
  Requests = {}
  Notes = {}
  MaxToolCalls = 12
  MaxActiveTime = 2
  Times = {0, 1}
  MaxVersion = 0
  Instructions = {"i1"}
  Bodies = {"b1"}
  Inapplicable = {"gap"}
  Keys = {}
  Kits = {"kit"}
  Modes = {TRUE}
  ReferenceTool = FALSE
  MaxRevision = 1
  MaxStart = 30

INVARIANTS RecordsEachRevision
CHECK_DEADLOCK FALSE
