CONSTANTS
    Kinds = {"gpu", "mem"}
    Entries <- MCEntries
    Times <- MCTimes
    Sizes = {1}
    DeclaredCapacity = 0
    Dynamic = FALSE
    MaxStamp <- MCMaxStamp
    MaxWaits = 1
    None = None
SPECIFICATION Spec
INVARIANTS TypeOK SameLevelDisjoint LevelsOptimal UtilTracksRunning StackedLevelsOrdered
