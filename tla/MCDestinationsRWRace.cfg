CONSTANTS
    d1 = d1
    d2 = d2
    t1 = t1
    t2 = t2
    r1 = r1
    Names <- MCNames
    Tokens <- MCTokens
    Readers <- MCReaders
    Ids <- MCIds
    SourceModes <- Watched
    Configs <- ReaderConfigs
SPECIFICATION RWSpec
SYMMETRY NameSymmetry
PROPERTY
    NoRegistryRace
