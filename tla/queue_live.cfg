CONSTANTS
    Job = {j1, j2}
    Conn <- Both
    Needs <- Relays
    Slots = 1
    MaxRetries = 1
    MaxQuits = 0
    Commanded = {j1}
    Patient = TRUE
SPECIFICATION FairSpec
PROPERTIES QueuedJobsRun
CHECK_DEADLOCK FALSE
