SPECIFICATION MCSpec
CONSTANTS
  h1 = h1
  h2 = h2
  r1 = r1
  s1 = s1
  Handlers = {h1, h2}
  Readers = {r1}
  Subs = {s1}
  None = None
  MaxSent = 2
  MaxFaults = 1
  MaxRequests = 1
INVARIANTS
  TypeOK
  NewestHeals
  HobbyDefaultsFollow
  CacheFollows
  MeteredOnceCreated
PROPERTIES
  CustomStays
SYMMETRY Symmetry
CHECK_DEADLOCK FALSE
