CONSTANTS
    Profiles <- MCProfiles
    Windows <- MCWindows
    KindLists <- MCKindLists
    Threshold = 2
    None = None
SPECIFICATION Spec
INVARIANT TypeOK
INVARIANT TrimmedIntoWindow
INVARIANT SkewBounded
INVARIANT NoFalseLatencyAlarm
INVARIANT ColorsDistinct
PROPERTY AuditRefinement
