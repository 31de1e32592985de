SPECIFICATION FairSpec
CONSTANTS
  Callers = {c1, c2}
  Workers = {w1, w2}
  None = None
  MaxCalls = 3
  MaxAsks = 2
  MaxFaults = 1
INVARIANTS
  TypeOK
  SingleClaim
  OfferedOrClaimed
  WaitingIsAnswerable
  NothingRunsForEver
  AnswersOwnQuestionUndisturbed

  
\* The front ends stop calling, or wait in a command for an answer that no call is left to give.
CHECK_DEADLOCK FALSE
