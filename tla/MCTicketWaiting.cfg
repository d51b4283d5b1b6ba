SPECIFICATION FairSpec
CONSTANTS
  Tickets = {t1}
  Workers = {w1, w2}
  Actions <- MCActions
  RequireApproval <- MCRequireApproval
  MaxReflectionLoops = 1
  Windows = {1}
  MaxBoots = 3
  MaxInbox = 2
  None = None
PROPERTIES
  WaitingEnds
CHECK_DEADLOCK FALSE
