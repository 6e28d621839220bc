SPECIFICATION Spec
CONSTANTS
  Risks = {r1, r2}
  Calls = {c1, c2}
  Likelihoods = {4}
  Impacts = {1, 4}
  Strategies = {"mitigate", "accept"}
  MaxRequests = 3
SYMMETRY Symmetry
INVARIANTS
  ReportBacksItsStatus
  StatusIsTheLastWrite
  MatrixFitsRegister
PROPERTY KeepsLifecycle
CHECK_DEADLOCK FALSE
