CONSTANTS
    Nodes <- MCNodes
    Idx <- MCIdx
    MaxGen <- MCMaxGen
    Logs <- HandshakeLogs
    None = None
SPECIFICATION Spec
INVARIANT NoAbort
