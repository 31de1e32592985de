CONSTANTS
  Modes = {"build"}
  SafetyLimit = 1
  MaxCalls = 1
  MaxTurns = 2
  MaxAsks = 1
  MaxFaults = 1
SPECIFICATION FairSpec
INVARIANTS
  NothingRunsOverUnknown
  ReducerNeverRejects
PROPERTIES
  ImplementsLedger
  TurnEnds
