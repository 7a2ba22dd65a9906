SPECIFICATION FairSpec
CONSTANTS
  Pod = {"pod1", "pod2"}
  Conn = {"c1", "c2", "c3"}
  Key = {"traces", "trace_1"}
  PodOf <- TwoPods
  KeyOf <- TwoKeys
  Message = {"m1", "m3"}
  ChannelOf <- Split
  MaxStreamErrors = 1
CHECK_DEADLOCK FALSE
INVARIANTS
  TypeOK
  NoGap
PROPERTIES
  CleanupKeepsOpen
  NothingLeaks
