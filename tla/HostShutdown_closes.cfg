SPECIFICATION FairSpec
CONSTANTS
  Closers = {c1, c2}
  Callers = {f1, f2}
  Workers = {w1, w2}
  Sessions = {s1, s2}
  Opened = {s1}
  Asking = {s1}
  None = None
  NumDisposers = 2
  MaxCalls = 2
  MaxCloses = 3
  MaxFaults = 1
INVARIANTS
  TypeOK
  OrderlyClose
  BarrierKept
PROPERTIES
  ShutdownReturns
CHECK_DEADLOCK FALSE
