\* Two clients for one cache place, three lookups asking for any of three
\* redirects, one rotation of a document.
CONSTANTS
  loop = loop
  web = web
  p1 = p1
  p2 = p2
  Url = {u1, u2}
  OpaqueId = {o1}
  Base <- mcBase
  LoopbackBase <- mcLoopbackBase
  Port <- mcPort
  Documents <- mcDocuments
  Requested <- mcRequested
  Request = {r1, r2, r3}
  CIMD_CACHE_TTL = 2
  CIMD_CACHE_MAX = 1
  CodeTTL = 1
  MaxTime = 2
  MaxRotations = 1
  None = None
\* Every lookup has answered and the clock stands at its bound.
CHECK_DEADLOCK FALSE
SPECIFICATION Spec
SYMMETRY Symmetry
INVARIANTS
  TypeOK
  CacheIsCanonical
  OwnRedirectOnly
PROPERTY HitsAreFresh
