SPECIFICATION FormsSpec
CONSTANTS
    Values <- MCValues
    Models <- MCModels
    Capabilities <- MCCapabilities
    MaxColumns = 8
    Coefficients <- MCCoefficients
    MaxRowId = 8
    MaxTerms = 6
INVARIANTS
    FormsTypeOK
    IntervalsAreDomains
    NoColumnTwice
    RowIsSum
    RowsMeanConstraint
    HolesMeanDomain
    DeclaredIsPosted
