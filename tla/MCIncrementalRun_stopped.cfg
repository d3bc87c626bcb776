SPECIFICATION Spec
CONSTANTS
    Programs <- StoppedAnytime
INVARIANTS
    RowsAsFromNothing
