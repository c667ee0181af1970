\* Catalog discovery, loads and two concurrent Close calls (the second
\* close can panic), with the discovery goroutine fair.  No symmetry: the
\* run checks a liveness property.  A driver that has finished all of its
\* loads and Closes stops, so deadlock is not checked.
SPECIFICATION LiveSpec
CONSTANTS
    k1 = k1
    k2 = k2
    c1 = c1
    c2 = c2
    Tasks <- MCTasks
    Closers <- TwoClosers
    MaxRetry <- MCMaxRetry
INVARIANTS
    TypeOK
    ReadHasCatalog
PROPERTY
    ClosedStopsDiscovery
CHECK_DEADLOCK FALSE
