SPECIFICATION Spec
CONSTANTS
  Items <- TwoItems
  Edit = {"seed", "e1"}
  Original = "seed"
  Empty = "empty"
  None = None
  Radius = 0
  MaxClicks = 3
  MaxFaults = 1
CHECK_DEADLOCK FALSE
INVARIANTS
  PendingShown
  SavedWhenQuiet
  PushLosesNothing
