\* Two calls of one session; anything may go wrong, twice in all.
CONSTANTS
  c1 = c1
  c2 = c2
  w1 = w1
  None = None
  Calls = {c1, c2}
  WorkflowIds = {w1}
  Intents = {"escalation", "faq"}
  Troubles = {"timeout", "raise", "insert", "crash"}
  MaxTroubles = 2
SPECIFICATION FairSpec
INVARIANTS TypeOK TicketsFitAnswers TroubleBeforeDuplicates
PROPERTIES HistoryStands EveryCallAnswered
\* every call may have been answered
CHECK_DEADLOCK FALSE
