\* Five calls, three of which may be cut short in their append.
CONSTANTS
  c1 = c1
  c2 = c2
  c3 = c3
  c4 = c4
  c5 = c5
  Calls = {c1, c2, c3, c4, c5}
  MaxCuts = 3
SPECIFICATION Spec
INVARIANTS ReadableVerifies IntactIsComplete AtMostOneLost
PROPERTIES LinesStay
\* every call may have been recorded
CHECK_DEADLOCK FALSE
