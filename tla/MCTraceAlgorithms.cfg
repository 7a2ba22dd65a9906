SPECIFICATION Spec
CONSTANTS
  None = None
  Window = 3
  MaxTime = 2
  TimelineSize = 4
  TreeSize = 4
  AgentsSize = 8
INVARIANTS
  TreeShown
  TimelineSound
  SearchKeepsAncestry
  EveryVisibleOnce
  GroupsAgree
  AgentsGrouped
  NumbersDiffer
CHECK_DEADLOCK FALSE
