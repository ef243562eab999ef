CONSTANTS
    h1 = h1
    h2 = h2
    h3 = h3
    f1 = f1
    f2 = f2
    Handles = {h1, h2, h3}
    Families = {f1, f2}
    Ids = {i1, i2, i3}
    CanOutliveFuture = TRUE
    NoId = NoId
    NoHandle = NoHandle
    NoFamily = NoFamily
    PoolSize = 1
    Record = i1
    Owner = h1
    Home <- MCHome
SPECIFICATION PoolSpec
PROPERTY
    EveryCallReturns
