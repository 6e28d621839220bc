SPECIFICATION Spec
CONSTANTS
  TicksPerSecond = 2
  Instances <- MCInstances
INVARIANTS
  CriticalIsProhibited
  GoIsEvidenced
  HighGoOutranksIncidents
  NeverUnderstated
  LabelLagsUnderASecond
CHECK_DEADLOCK FALSE
