SPECIFICATION FairSpec
CONSTANTS
  Tickets = {t1}
  Workers = {w1, w2}
  Actions <- MCActions
  RequireApproval <- MCRequireApproval
  MaxReflectionLoops = 1
  Windows = {0, 1}
  MaxBoots = 3
  MaxInbox = 2
  None = None
INVARIANTS
  TypeOK
  EffectOnlyIfApproved
  CompletedMeansExecuted
  OncePerProcess
  AcceptsExactlyInPause
PROPERTIES
  ImplementsLifecycle
  ReachesReview
  DecisionIsCarriedOut
CHECK_DEADLOCK FALSE
