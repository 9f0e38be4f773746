CONSTANTS
    Nodes <- MCNodes
    Idx <- MCIdx
    MaxGen <- MCMaxGen
    Logs <- MissingPhaseLogs
    None = None
SPECIFICATION Spec
INVARIANT NoAbort
