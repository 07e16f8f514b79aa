\* Three clients for two cache places and four lookups: one hit between the
\* three puts.  One document and one redirect, as this run is about the order.
CONSTANTS
  loop = loop
  web = web
  p1 = p1
  p2 = p2
  Url = {u1, u2, u3}
  OpaqueId = {}
  Base <- mcBase
  LoopbackBase <- mcLoopbackBase
  Port <- mcPort
  Documents <- mcOneDocument
  Requested <- mcOneRequested
  Request = {r1, r2, r3, r4}
  CIMD_CACHE_TTL = 1
  CIMD_CACHE_MAX = 2
  CodeTTL = 1
  MaxTime = 1
  MaxRotations = 0
  None = None
CHECK_DEADLOCK FALSE
SPECIFICATION Spec
SYMMETRY Symmetry
INVARIANTS
  CapIsKept
  RecentlyUsedStay
