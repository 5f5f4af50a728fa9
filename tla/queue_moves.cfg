CONSTANTS
    Job = {j1, j2}
    Conn <- Both
    Needs <- Relays
    Slots = 1
    MaxRetries = 1
    MaxQuits = 1
    Commanded = {j1}
    Patient = FALSE
SPECIFICATION Spec
INVARIANTS OriginalsSafe SweptWhenWhole
CHECK_DEADLOCK FALSE
