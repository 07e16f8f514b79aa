\* Two sessions and two bearers, three calls that build up to three clients, the
\* clock passing the TTL twice.
CONSTANTS
  Session = {s1, s2}
  Bearer = {b1, b2}
  Client = {x1, x2, x3}
  Call = {k1, k2, k3}
  None = None
  TTL = 1
  MaxTime = 4
\* The process ends once it is shut down and its calls are answered.
CHECK_DEADLOCK FALSE
SPECIFICATION Spec
SYMMETRY Symmetry
INVARIANTS
  TypeOK
  CachedClientsAreOpen
  NoHandleLeaks
  CallsAreIsolated
  ClosedInUseOnlyAfterTTL
  BuiltOncePerTTL
  AbandonedSessionsAreSwept
