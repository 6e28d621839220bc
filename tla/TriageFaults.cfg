\* One message, two resume calls, every failure and a restart.
CONSTANTS
  c1 = c1
  r1 = r1
  r2 = r2
  t1 = t1
  None = None
  Calls = {c1}
  Resumes = {r1, r2}
  Threads = {t1}
  Labels <- AllLabels
  Revisions = {"escalation"}
  Faults = {"ticket", "classify", "reflect", "precedent", "audit", "record", "schema"}
  MaxInFlight = 1
  MaxRestarts = 1
SPECIFICATION FairSpec
INVARIANTS EscalatedNotAnswered RepliesLeaveATrail
PROPERTIES EveryCallSettles
CHECK_DEADLOCK FALSE
