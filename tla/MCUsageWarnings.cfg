SPECIFICATION Spec
CONSTANTS
  Ingester = {i1, i2}
  Handler = {h1, h2}
  Owner = {o1}
  MaxPeriod = 2
  MaxFaults <- Every
  MaxFaultsInAll = 3
CHECK_DEADLOCK FALSE
CONSTRAINT Bounded
SYMMETRY Symmetry
INVARIANTS
  NotLost
  DeliveredOnce
  RepeatsBounded
