CONSTANTS
    Task = 0
    Calls <- MCCalls
    Times <- MCTimes
    MaxWaits = 2
    Windows <- MCFullWindow
    None = None
SPECIFICATION Spec
INVARIANT WaitsPlacedInnermost
INVARIANT CallerIsInnermostContainer
INVARIANT WaitListsWellFormed
INVARIANT BacktracesAttached
INVARIANT NoAbort
INVARIANT PreviousIsLatestRunning
INVARIANT ExecutingEntryIsInnermost
