\* Construction in both modes with every failure, repeated Stores and
\* Updates, and Close.
\* A failed construction is final, so deadlock is
\* not checked.
SPECIFICATION Spec
CONSTANTS
    tb1 = tb1
    tb2 = tb2
    tb3 = tb3
    Tables <- MCTables
SYMMETRY TableSymmetry
INVARIANTS
    TypeOK
    FallbackOnlyIfAllStored
    UpdateNilMeansAllUpdated
CHECK_DEADLOCK FALSE
