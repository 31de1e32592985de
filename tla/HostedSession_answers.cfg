SPECIFICATION Spec
CONSTANTS
  Callers = {c1}
  Workers = {w1, w2}
  None = None
  MaxCalls = 3
  MaxAsks = 2
  MaxFaults = 1
INVARIANT
  AnswersOwnQuestion
\* The front ends stop calling, or wait in a command for an answer that no call is left to give.
CHECK_DEADLOCK FALSE
