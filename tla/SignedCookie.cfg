CONSTANTS
    Servers = {p, q}
    Keys = {k1, k2, k3}
    NoKey = NoKey
    PrefixLen = 3
    TagLen = 32
    MaxValueLen = 3800
    PayloadLens = {2815, 2816}
    MaxLifetime = 1
    CookieBound = 1
    Horizon = 5
SYMMETRY Symmetry
SPECIFICATION Spec
INVARIANTS
    TypeOK
    LiveCookiesLoad
    NothingUnsignedGetsSigned
    RefusesOnlyOversized
