SPECIFICATION Spec
CONSTANTS
  Span = {"s1", "s2"}
  Recordable = {"s1"}
  Patch = {"patch"}
  Project = {"p1"}
  Trace = {"t1"}
  Worker = {w1, w2}
  ProjectOf <- OneProject
  TraceOf <- OneTrace
  BatchSize = 2
  MaxUpsertErrors = 1
  MaxMergeErrors = 1
  MaxSpanErrors = 1
  MaxCrashes = 1
SYMMETRY WorkerSymmetry
CHECK_DEADLOCK FALSE
INVARIANTS
  NoVersionTie
  ClickhouseFollows
  ClickhouseCatchesUp
  CountedPerDelivery
  SignalsSeeSpans
  NoStubTrace
  PatchNotDropped
