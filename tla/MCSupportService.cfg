SPECIFICATION FairSpec
CONSTANTS
  Tickets = {t1, t2}
  Customers = {c1}
  Reviews = {r1, r2}
  MaxPosts = 2
  None = None
INVARIANTS
  TypeOK
  RefusalIsFinal
  OneAuthorPerDecision
  AcceptedIsOnItsWay
PROPERTIES
  AcceptedSettles
CHECK_DEADLOCK FALSE
