SPECIFICATION FairSpec
CONSTANTS
  Tickets = {t1}
  Customers = {c1}
  Reviews = {r1, r2}
  MaxPosts = 1
  None = None
PROPERTIES
  UnpausedIsRefused
CHECK_DEADLOCK FALSE
