SPECIFICATION Spec
CONSTANTS
  BrentNow = 1015
  None = None
  RM = RM
  BlankReason = blank
  Reasons = {blank, stated}
  FirstPlan = "PLAN-002"
  Plans <- MCPlans
  Trigger <- MCTrigger
  Collateral <- MCCollateral
  PreArmed <- MCPreArmed
  Ranks <- MCRanks
  LevelsOf <- MCLevelsOf
  Brents <- MCBrents
  Presets <- MCPresets
PROPERTY
  ArmedBeforeTheEvent
