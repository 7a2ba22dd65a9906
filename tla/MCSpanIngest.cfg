SPECIFICATION Spec
CONSTANTS
  Msg <- TwoMsgs
  Span <- TwoSpans
  Trace = {"t1"}
  Hash = {"h1"}
  Worker = {w1, w2}
  SpansOf <- OneEach
  TraceOf <- OneTrace
  Messages <- SharedMessage
  Tools <- NoTools
  Recordable <- TwoSpans
  TooLarge = {}
  MaxPositions = 2
  BatchSize = 2
  Prefetch = 2
  MaxCopies = 1
  MaxFaults = 1
  MaxErrors = 1
SYMMETRY WorkerSymmetry
CHECK_DEADLOCK FALSE
INVARIANTS
  StoreInv
  HashesResolve
  NoAcceptedRequestLost
