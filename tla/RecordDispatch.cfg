CONSTANTS
    None = None
    P = P
    P2 = P2
    O = O
    Parent = Parent
    Lg = Lg
    FT = FT
    FM1 = FM1
    FM2 = FM2
    FC = FC
    FF = FF
    W1 = W1
    W2 = W2
    W3 = W3
    E1 = E1
    FI = FI
    FX = FX
    FP1 = FP1
    FP2 = FP2
    FP3 = FP3
    CallThreshold = 1
    ProcNode <- MCProcNode
    MemNode <- MCMemNode
    VisibleChoices <- MCVisibleChoices
    Logs <- MCDispatchLogs
INIT Init
NEXT Next
INVARIANTS
    TypeOK
    NoAbort
    RowsInChannels
    ChannelUidsFresh
    InitiationOpIsParent
    WaitsOnOwner
    ReferencesResolve
    FilterKeepsNamedMems
    AffinityIsBestLogged
    ProfTimesResolved
