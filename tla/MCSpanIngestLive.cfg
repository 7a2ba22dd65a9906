SPECIFICATION FairSpec
CONSTANTS
  Msg <- OneMsg
  Span <- OneSpan
  Trace = {"t1"}
  Hash = {"h1"}
  Worker = {w1, w2}
  SpansOf <- OnlySpan
  TraceOf <- OnlyTrace
  Messages <- OneMessage
  Tools <- OnlyNoTools
  Recordable <- OneSpan
  TooLarge = {}
  MaxPositions = 2
  BatchSize = 2
  Prefetch = 2
  MaxCopies = 2
  MaxFaults = 2
  MaxErrors = 1
CHECK_DEADLOCK FALSE
INVARIANTS
  RowsPerCopy
PROPERTIES
  AcceptedEventuallyStored
