SPECIFICATION FairSpec
CONSTANTS
  Callers = {c1, c2}
  Limit = 2
  Window = 3
  MaxCount = 4
INVARIANTS
  TypeOK
  EveryCounterExpires
  WindowIsBounded
PROPERTIES
  LockoutEnds
