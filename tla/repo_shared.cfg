CONSTANTS
    Client = {a, b}
    Block = {b1, b2, b3}
    Vol = {v1, v2, v3}
    MaxTime = 2
    None = None
    Shared = TRUE
    StrictDelete = FALSE
    Rebuilders = {}
    StopIn = {"upload"}
SPECIFICATION Spec
SYMMETRY Symmetry
INVARIANTS VersionsRestorable ListedVersionsFound
PROPERTIES ImplementsVersionStore
