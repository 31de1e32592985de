CONSTANTS
  N = 3
  MaxParallel = 2
SPECIFICATION FairSpec
INVARIANTS
  TypeOK
  OneResultEach
  ParallelLimit
  WriterAlone
  NothingAfterDiscard
PROPERTY BatchEnds
