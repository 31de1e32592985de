CONSTANTS
  N = 3
  MaxParallel = 2
SPECIFICATION Spec
INVARIANT DiscardedNeverRan
