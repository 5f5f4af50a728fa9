CONSTANTS
    c1 = c1  c2 = c2  c3 = c3
    Client = {c1, c2}
    Id = {i1, i2}
    NoId = NoId
    Excl = Excl
    ReadOnly = {}
    Breakers = {}
    TTL = 34
    Settle = 2
    SkewAbort = 68
    Offset <- OneAhead
    Window = 1
    MaxMisses = 1
    Overdue = 1
SPECIFICATION Spec
SYMMETRY IdSymmetry
INVARIANTS IInv MutualExclusion HolderVisible
PROPERTIES ImplementsRWLock
