CONSTANTS
    Job = {j1}
    MaxLength = 2
    Interval = 2
    Tiers = {"Fast"}
    Exact = TRUE
    Absent = Absent
    Leftovers = {}
    Cut = FALSE
    MaxEdits = 0
    MaxFaults = 1
    MaxRetries = 1
    MaxCrashes = 0
SPECIFICATION FairSpec
PROPERTY RetrySucceeds
CHECK_DEADLOCK FALSE
