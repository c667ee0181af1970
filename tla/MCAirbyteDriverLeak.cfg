\* A load that passed IsClosed before Close registers its runner after it.
SPECIFICATION Spec
CONSTANTS
    k1 = k1
    k2 = k2
    c1 = c1
    c2 = c2
    Tasks <- MCTasks
    Closers <- OneCloser
    MaxRetry <- MCMaxRetry
SYMMETRY TaskSymmetry
INVARIANTS
    NoRunnerAfterClose
CHECK_DEADLOCK FALSE
