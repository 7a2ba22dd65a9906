SPECIFICATION Spec
CONSTANTS
  h1 = h1
  h2 = h2
  r1 = r1
  s1 = s1
  Handlers = {h1, h2}
  Readers = {r1}
  Subs = {s1}
  None = None
  MaxSent = 3
  MaxFaults = 0
  MaxRequests = 1
INVARIANTS
  OneTierMetered
CHECK_DEADLOCK FALSE
