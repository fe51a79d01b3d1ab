SPECIFICATION Spec
CONSTANTS
    Nil = Nil
    Raised = Raised
    Custom = "custom"
    MaxHeight = 4
    Catalogs <- MCDistinctCatalogs
INVARIANT TypeOK
INVARIANT StatusVersionRight
INVARIANT NextBlockVersionRight
INVARIANT LatestVersionRight
CHECK_DEADLOCK FALSE
