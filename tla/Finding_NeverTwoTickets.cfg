\* The worker may crash.
CONSTANTS
  c1 = c1
  c2 = c2
  w1 = w1
  None = None
  Calls = {c1, c2}
  WorkflowIds = {w1}
  Intents = {"escalation", "faq"}
  Troubles = {"crash"}
  MaxTroubles = 2
SPECIFICATION Spec
INVARIANTS NeverTwoTickets
\* every call may have been answered
CHECK_DEADLOCK FALSE
