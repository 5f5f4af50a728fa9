CONSTANTS
    MaxCommands = 1
    Rotations = {}
    Syncs = {1}
    Batch = 1
    MaxReports = 0
    Bad = {}
    Policy = {p}
    Credential = {k}
    MaxVersion = 2
    MaxPending = 1
    MaxLost = 1
    MaxStops = 1
    MaxChanges = 2
    Unreliable = {"beat", "policies", "unregister"}
    Delayed = {}
    Denied = {"store", "apply", "delete", "remove"}
SPECIFICATION FairSpec
INVARIANTS PoliciesInForce NothingLeftBehind
PROPERTIES ConsoleReaches
CHECK_DEADLOCK FALSE
