\* The /token leg comes after an /authorize that hit an old entry.
CONSTANTS
  loop = loop
  web = web
  p1 = p1
  p2 = p2
  Url = {u1}
  OpaqueId = {}
  Base <- mcBase
  LoopbackBase <- mcLoopbackBase
  Port <- mcPort
  Documents <- mcDocuments
  Requested <- mcOneRequested
  Request = {r1, r2, r3}
  CIMD_CACHE_TTL = 3
  CIMD_CACHE_MAX = 1
  CodeTTL = 2
  MaxTime = 3
  MaxRotations = 0
  None = None
SPECIFICATION Spec
CHECK_DEADLOCK FALSE
PROPERTY TokenLegNeedsNoFetch
