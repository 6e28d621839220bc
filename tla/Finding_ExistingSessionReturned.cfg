SPECIFICATION Spec
CONSTANTS
  Calls = {c1, c2, c3}
  Warmer = Warmer
  Requests <- MCRequests
  Seed <- MCSeed
  Threads = 2
  Nothing = Nothing
PROPERTIES
  ExistingSessionReturned
CHECK_DEADLOCK FALSE
