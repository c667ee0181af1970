CONSTANTS
    d1 = d1
    d2 = d2
    t1 = t1
    t2 = t2
    Names <- MCNames
    Tokens <- MCTokens
    Ids <- MCIds
    SourceModes <- Watched
    Configs <- ConvergeConfigs
SPECIFICATION LiveSpec
PROPERTIES
    RoutesConverge
    RefinesRoutingTable
