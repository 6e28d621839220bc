\* A client that waits for its reply: one call in flight per thread.
CONSTANTS
  c1 = c1
  c2 = c2
  r1 = r1
  r2 = r2
  t1 = t1
  t2 = t2
  None = None
  Calls = {c1, c2}
  Resumes = {r1, r2}
  Threads = {t1, t2}
  Labels <- FlaggedLabels
  Revisions = {"escalation"}
  Faults = {"ticket"}
  MaxInFlight = 1
  MaxRestarts = 1
SPECIFICATION Spec
INVARIANTS ReplyIsForItsMessage AtMostOneTicket ResumeDecidesPending
PROPERTIES KeepsReviewPromise
CHECK_DEADLOCK FALSE
