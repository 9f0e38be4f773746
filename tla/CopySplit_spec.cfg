CONSTANTS
    Mems <- MCMems
    Rows <- MCRows
    MaxRows = 4
    None = None
SPECIFICATION Spec
INVARIANT SplitMatchesSpec
