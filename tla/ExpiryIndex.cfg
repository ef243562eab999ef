CONSTANTS
    Ids = {1, 2, 3}
    MaxTime = 1
    Never = Never
    Absent = Absent
    Cleaners = {c1, c2}
    Limits = {1, 3}
    CleanupBatchSize = 2
SPECIFICATION FairSpec
INVARIANTS
    TypeOK
    IndexExact
PROPERTIES
    CleanupRemovesOnlyExpired
    CleanupReachesAll
