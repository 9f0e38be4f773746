CONSTANTS
    Kinds = {"mem"}
    Entries <- MCEntries
    Times <- MCTimes
    Sizes = {1, 2}
    DeclaredCapacity = 0
    Dynamic = FALSE
    MaxStamp <- MCMaxStamp
    MaxWaits = 0
    None = None
SPECIFICATION Spec
INVARIANT MemCapacityIsPeak
