\* One page submitted twice at the same time.
CONSTANTS
  SessionId = {s1}
  AuthCode = {c1, c2}
  Token = {good, other}
  ValidTokens = {good, other}
  Post = {p1, p2}
  Redemption = {r1}
  None = None
  TTL = 2
  MaxTime = 2
SPECIFICATION Spec
PROPERTY CompletedSessionKeepsItsToken
