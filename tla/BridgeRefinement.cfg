\* Two POSTs on one page or on two, one accepted and one refused token, checked
\* as an implementation of CodeGrant.
CONSTANTS
  SessionId = {s1, s2}
  AuthCode = {c1, c2}
  Token = {good, other}
  ValidTokens = {good}
  Post = {p1, p2}
  Redemption = {r1, r2}
  None = None
  TTL = 2
  MaxTime = 3
SPECIFICATION FairSpec
PROPERTIES
  Promise
  EveryPostIsAnswered
