CONSTANTS
    Volume = {a, b}
    Key = {k1, k2}
    Passphrase = {p1, p2}
    Layout = {top, two}
    Top = top
    NoHeader = NoHeader
    Torn = Torn
    Nothing = Nothing
    Destinations = {"local", "in place", "objects", "staged"}
    Targets = {top}
    Blind = TRUE
    Gap = FALSE
SPECIFICATION Spec
INVARIANTS IInv Recoverable RollbackSafe VolumesFound
PROPERTIES ImplementsHeaderCell OldHeaderKept
CHECK_DEADLOCK FALSE
