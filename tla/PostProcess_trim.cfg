CONSTANTS
    Profiles <- MCProfiles
    Windows <- MCTrimWindows
    KindLists <- MCKindLists
    Threshold = 2
    None = None
SPECIFICATION Spec
INVARIANT NoAbort
