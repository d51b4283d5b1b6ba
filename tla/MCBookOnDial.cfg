SPECIFICATION FactsSpec
CONSTANTS
  BrentNow = 1015
  Book <- MCBook
  Facilities <- MCFacilities
  Dial <- MCDial
  Warnings <- MCWarnings
  Versions <- MCVersions
  Data <- MCData
  ReturnUnit = 2
  Watch <- MCWatch
  Clients <- MCClients
  DemoFacility = "Long"
  DemoClient = "C1"
  TopUp = "Bond"
  TopUpPortfolio = "Mandate"
  ScenarioLevel = 790
  PreConflict = 724
  SmallMove = 1
INVARIANTS
  FactsTypeOK
  BreachHeadroomCureAgree
  TriggerInvertsShock
  WarnedBeforeTheCall
  BetaIsLeastSquares
  PoolIsRevalued
  FrozenIsWhatTheDialShows
PROPERTIES
  OneDangerousEnd
