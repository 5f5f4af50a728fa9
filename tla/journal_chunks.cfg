CONSTANTS
    Job = {j1}
    MaxLength = 2
    Interval = 2
    Tiers = {"Fast", "Verified", "MissionCritical"}
    Exact = FALSE
    Absent = Absent
    Leftovers <- Partial
    Cut = FALSE
    MaxEdits = 2
    MaxFaults = 1
    MaxRetries = 1
    MaxCrashes = 2
SPECIFICATION Spec
INVARIANTS TypeOK DestinationWhole TrustedChunks NoLeftover
CHECK_DEADLOCK FALSE
