CONSTANTS
 a = a
 b = b
 Sessions = {a, b}
 NoSession = NoSession
 Logs <- MCLogs
 MaxEvents = 2
 MaxOps = 2
 MaxBreaks = 1
 MaxFaults = 1
SPECIFICATION Spec
INVARIANTS TypeOK ViewFollowsRuntime StaleIsKnown BufferingIsAwaited LifeMatchesStore
PROPERTY LateAnswersChangeNothing
CHECK_DEADLOCK FALSE
