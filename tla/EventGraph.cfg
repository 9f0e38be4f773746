CONSTANTS
    Nodes <- MCNodes
    Idx <- MCIdx
    MaxGen <- MCMaxGen
    Logs <- PassLogs
    None = None
SPECIFICATION Spec
INVARIANT TypeOK
INVARIANT NoAbort
INVARIANT CriticalPredecessorSound
INVARIANT TriggerFollowsPreconditions
INVARIANT LatestArrivalKept
