SPECIFICATION FairSpec
CONSTANTS
    MaxDecisions = 4
    MaxJoins = 3
    MaxLayers = 2
    MaxSelectors = 1
INVARIANTS
    TypeOK
    RootsLead
    ColumnOrder
    EveryDecisionHasColumn
    CutKeepsColumns
PROPERTIES
    KeptColumnsStable
    BuildEnds
    ImplementsClasses
