CONSTANTS
    Handles = {h1, h2}
    Families = {f1}
    Ids = {i1, i2}
    CanOutliveFuture = TRUE
    NoId = NoId
    NoHandle = NoHandle
    NoFamily = NoFamily
SPECIFICATION SpecUnsaved
INVARIANT
    UnsavedRegenerationDeletesSource
