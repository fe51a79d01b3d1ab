SPECIFICATION Spec
CONSTANTS
    a = a
    Nil = Nil
    Url = Url
    Unsupported = Unsupported
    Ids <- MCIds
    UrlHeight = 1
    MaxHeight = 2
    MaxFaults = 2
INVARIANT RestoreReturns
