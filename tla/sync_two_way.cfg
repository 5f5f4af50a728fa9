CONSTANTS
    Path = {p, q, c1, c2}
    UserPath = {p, q}
    NoFile = NoFile
    Nothing = Nothing
    Size <- Sizes
    Policies = {"SourceWins", "DestWins", "NewestWins", "CreateConflictCopy", "Skip", "Quarantine", "Ask"}
    DeletePercent = 50
    Windows = {"idle", "origin", "doomed"}
    Faults = {"refuse", "tear", "stop", "cancel"}
    MaxClock = 5
SPECIFICATION FairSpec
INVARIANTS TypeOK InSyncIsEqual
PROPERTIES OverwrittenIsSaved CarriesUserChanges Converges
CHECK_DEADLOCK FALSE
