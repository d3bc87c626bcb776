SPECIFICATION Spec
CONSTANTS
    MaxColumns = 2
    MaxRows = 4
    MaxLayers = 3
    Retries = FALSE
INVARIANTS
    TypeOK
    SequencesAgree
    NothingRefused
    FailureTold
