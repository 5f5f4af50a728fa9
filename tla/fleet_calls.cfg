CONSTANTS
    MaxCommands = 2
    Rotations = {1}
    Syncs = {}
    Batch = 1
    MaxReports = 3
    Bad = {3}
    Policy = {}
    Credential = {}
    MaxVersion = 1
    MaxPending = 2
    MaxLost = 1
    MaxStops = 1
    MaxChanges = 0
    Unreliable = {"report", "beat", "policies", "applied", "complete", "rotate", "unregister"}
    Delayed = {"beat", "complete", "rotate"}
    Denied = {"token"}
SPECIFICATION Spec
INVARIANTS TypeOK CommandsOnce ResultsTrue ReportsAccounted ReportsInOrder NotStranded
CHECK_DEADLOCK FALSE
