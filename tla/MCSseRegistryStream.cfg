SPECIFICATION FairSpec
CONSTANTS
  Pod = {"pod1"}
  Conn = {"c1", "c2"}
  Key = {"traces"}
  PodOf <- OnePod
  KeyOf <- OneKey
  Message = {"m1"}
  ChannelOf <- AllTraces
  MaxStreamErrors = 1
CHECK_DEADLOCK FALSE
PROPERTIES
  Resubscribes
