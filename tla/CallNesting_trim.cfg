CONSTANTS
    Task = 0
    Calls <- MCCalls
    Times <- MCTimes
    MaxWaits = 2
    Windows <- MCWindows
    None = None
SPECIFICATION Spec
INVARIANT NoAbort
