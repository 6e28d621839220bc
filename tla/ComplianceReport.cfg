SPECIFICATION Spec
CONSTANTS
  Templates <- MCTemplates
  Seeds <- MCSeeds
  Policies = 3
  Today = 7
  Leaps = {1, 8}
  MaxEvents = 1
INVARIANT NoReportAboveD
PROPERTIES
  MetHolds
  OthersChangeNothing
CHECK_DEADLOCK FALSE
