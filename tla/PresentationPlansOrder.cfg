CONSTANTS
  Actors = {"a"}
  Overlays = {"o"}
  Items = {"i"}
  Lines = {"l1"}
  FirstStates <- FirstFrames
  PlanTrees <- SmallPlans
  MaxTreeNodes = 6
  MaxTreeDepth = 3
  MaxChildren = 2
SPECIFICATION PlansSpec
INVARIANT AcceptedPlansConverge
CHECK_DEADLOCK FALSE
