SPECIFICATION Spec
CONSTANTS
    Programs <- HolesBelow
INVARIANTS
    ColumnsAsFromNothing
