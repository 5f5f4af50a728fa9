CONSTANTS
    Client = {a}
    Block = {b1, b2}
    Vol = {v1, v2, v3}
    MaxTime = 2
    None = None
    Shared = FALSE
    StrictDelete = TRUE
    Rebuilders = {a}
    StopIn = {"upload", "unrecorded", "record", "drop", "compact", "purge", "rebuild"}
SPECIFICATION Spec
SYMMETRY Symmetry
INVARIANTS TypeOK VersionsRestorable ListedVersionsFound DedupSound
PROPERTIES RepairUnblocks
