CONSTANTS
  Modes = {"build", "plan"}
  SafetyLimit = 2
  MaxCalls = 2
  MaxTurns = 1
  MaxAsks = 2
  MaxFaults = 1
SPECIFICATION Spec
INVARIANTS
  TypeOK
  OpsClosedAtRest
  OpIdsFresh
  AnsweredBeforeAsking
  ProviderBudget
  WriteAhead
  NothingTwice
  Consent
  CheckpointUnspent
