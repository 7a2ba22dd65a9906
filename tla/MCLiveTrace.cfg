CONSTANTS
  None = None
  root = root
  branch = branch
  call = call
  Spans <- MCSpans
  Parent <- MCParent
  Path <- MCPath
  Start <- MCStart
  End <- MCEnd
  Tokens <- MCTokens
  Matching <- MCMatching
  MaxFetches = 2
  MaxFaults = 1
  MaxClicks = 1
SPECIFICATION MCSpec
INVARIANTS TypeOK RowsWhole AddsUp
PROPERTY EventKeepsUserState
CHECK_DEADLOCK FALSE
