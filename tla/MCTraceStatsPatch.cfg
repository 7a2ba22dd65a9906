SPECIFICATION Spec
CONSTANTS
  Span = {"s1", "s2"}
  Recordable = {"s1", "s2"}
  Patch = {"patch"}
  Project = {"p1"}
  Trace = {"t1"}
  Worker = {w1, w2}
  ProjectOf <- OneProject
  TraceOf <- OneTrace
  BatchSize = 2
  MaxUpsertErrors = 0
  MaxMergeErrors = 0
  MaxSpanErrors = 0
  MaxCrashes = 0
SYMMETRY WorkerSymmetry
CHECK_DEADLOCK FALSE
INVARIANTS
  PatchesDoNotCount
