SPECIFICATION Spec
CONSTANTS
    Programs <- SoundPrograms
INVARIANTS
    TypeOK
    RowsAsFromNothing
    ColumnsAsFromNothing
    ObjectiveAsFromNothing
    EndsAreLayerEnds
    StartIsOfSameVariable
PROPERTIES
    UnchangedPrefixKept
