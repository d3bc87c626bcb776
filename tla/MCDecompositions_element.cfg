SPECIFICATION Spec
CONSTANTS
    Programs <- MCOneOfTwo
    MaxNarrow = 0
INVARIANT RowsMeanCalls
CHECK_DEADLOCK FALSE
