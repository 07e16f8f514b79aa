\* Two sign-ins, three POSTs that may race on one page or be spread over both, two
\* accepted tokens (any validation may also fail), two /token calls; the clock
\* passes the TTL.
CONSTANTS
  SessionId = {s1, s2}
  AuthCode = {c1, c2, c3}
  Token = {good, other}
  ValidTokens = {good, other}
  Post = {p1, p2, p3}
  Redemption = {r1, r2}
  None = None
  TTL = 2
  MaxTime = 3
SPECIFICATION Spec
SYMMETRY Symmetry
INVARIANTS
  TypeOK
  IndexConsistent
  OneGrantPerSession
  CodeRedeemsItsOwnToken
  NoGrantAfterExpiry
  RedirectCarriesOwnCode
  UndisturbedCodeIsHonoured
