CONSTANTS
  Modes = {"build"}
  SafetyLimit = 1
  MaxCalls = 1
  MaxTurns = 1
  MaxAsks = 1
  MaxFaults = 0
SPECIFICATION Spec
INVARIANT SettledSessionContinues
