SPECIFICATION Spec
CONSTANTS
    Programs <- MCPrograms
    MaxNarrow = 1
INVARIANT RowsMeanCalls
PROPERTIES
    PassIsHandedItsOwn
    FlatteningEnds
CHECK_DEADLOCK FALSE
