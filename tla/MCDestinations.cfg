CONSTANTS
    d1 = d1
    d2 = d2
    t1 = t1
    t2 = t2
    Names <- MCNames
    Tokens <- MCTokens
    Ids <- MCIds
    SourceModes <- AllSources
    Configs <- RoutingConfigs
SPECIFICATION Spec
SYMMETRY NameSymmetry
INVARIANTS
    TypeOK
    RefCountMatchesUnits
    MapsMatchRegistry
    NoClosedHandleServed
PROPERTIES
    UnchangedUnitKept
