SPECIFICATION Spec
CONSTANTS
  Ingester = {i1}
  Handler = {h1}
  Owner = {o1}
  MaxPeriod = 1
  MaxFaults <- Fetching
  MaxFaultsInAll = 2
CHECK_DEADLOCK FALSE
INVARIANTS
  NeverLost
