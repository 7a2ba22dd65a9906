SPECIFICATION Spec
CONSTANTS
  Items <- TwoItems
  Edit = {"seed", "e1"}
  Original = "seed"
  Empty = "empty"
  None = None
  Radius = 0
  MaxClicks = 4
  MaxFaults = 0
CHECK_DEADLOCK FALSE
INVARIANTS
  ApprovedAsShown
