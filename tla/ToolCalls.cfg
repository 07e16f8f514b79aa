\* Three calls for two intents: one repeated after a lost answer, beside another
\* that competes for the loop or for the one thread; or one repeated twice.  No
\* symmetry, as liveness is checked.
CONSTANTS
  Call = {k1, k2, k3}
  Intent = {i1, i2}
  Tool <- mcTool
  Mode = {"broker"}
  Messages <- mcMessages
  Workers = 1
  None = None
\* The behaviour ends when the calls are made.
CHECK_DEADLOCK FALSE
SPECIFICATION FairSpec
INVARIANTS
  TypeOK
  DuplicatesNeedDoubt
  RedeemFailuresNameTheBroker
PROPERTIES
  Promise
  EveryCallEnds
