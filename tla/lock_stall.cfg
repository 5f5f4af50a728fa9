CONSTANTS
    c1 = c1  c2 = c2  c3 = c3
    Client = {c1, c2, c3}
    Id = {i1, i2}
    NoId = NoId
    Excl = Excl
    ReadOnly = {c3}
    Breakers = {c2}
    TTL = 3
    Settle = 1
    SkewAbort = 6
    Offset <- Exact
    Window = 1
    MaxMisses = 0
    Overdue = 1
SPECIFICATION FairSpec
PROPERTIES DisplacedHolderStops
