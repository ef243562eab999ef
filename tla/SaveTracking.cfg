CONSTANTS
    Keys = {k1}
    Vals = {v1, v2}
    NoVal = NoVal
    NoRecord = NoRecord
    Saves = {s1, s2, s3}
    RevisionModulus = 4
SYMMETRY Symmetry
SPECIFICATION Spec
INVARIANTS
    TypeOK
    CleanIsStored
    ActiveSavesExact
PROPERTY
    OnlyStandaloneSaveCleans
