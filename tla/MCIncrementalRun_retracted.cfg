SPECIFICATION Spec
CONSTANTS
    Programs <- RowsAtOnce
INVARIANTS
    RowsAsFromNothing
