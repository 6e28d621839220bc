\* Calls of one thread overlap, reflection may raise, the process restarts once.
CONSTANTS
  c1 = c1
  c2 = c2
  r1 = r1
  t1 = t1
  None = None
  Calls = {c1, c2}
  Resumes = {r1}
  Threads = {t1}
  Labels <- PlainLabels
  Revisions = {"escalation"}
  Faults = {"reflect"}
  MaxInFlight = 2
  MaxRestarts = 1
SPECIFICATION Spec
SYMMETRY Symmetry
INVARIANTS TypeOK VerdictsAreHuman TracesFollowGraph TurnsPaired RepliesLeaveATrail
\* every call and resume may be used up
CHECK_DEADLOCK FALSE
