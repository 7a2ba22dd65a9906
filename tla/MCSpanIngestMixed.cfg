SPECIFICATION Spec
CONSTANTS
  Msg <- MixedMsgs
  Span <- MixedSpans
  Trace = {"t1", "t2"}
  Hash = {"h1", "h2"}
  Worker = {w1}
  SpansOf <- MixedSpansOf
  TraceOf <- MixedTraces
  Messages <- MixedMessages
  Tools <- MixedTools
  Recordable = {"s1", "s2"}
  TooLarge = {"big"}
  MaxPositions = 2
  BatchSize = 3
  Prefetch = 2
  MaxCopies = 1
  MaxFaults = 1
  MaxErrors = 1
CHECK_DEADLOCK FALSE
PROPERTIES
  Refines
