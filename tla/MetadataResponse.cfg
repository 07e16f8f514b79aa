\* Two responses through one middleware, in one to three pieces.
CONSTANTS
  Request = {r1, r2}
  MaxPieces = 3
  None = None
\* Every response ends.
CHECK_DEADLOCK FALSE
SPECIFICATION FairSpec
INVARIANTS
  TypeOK
  OwnWholeResponse
  LengthIsHonest
  AdvertisesCimd
  NoTruncatedSuccess
PROPERTY EveryResponseIsForwarded
