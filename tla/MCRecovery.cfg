SPECIFICATION ComponentsSpec
CONSTANTS
    Parts = {"stopped", "crashed", "checked", "predicted", "migrated", "upgraded", "requests", "walks"}
    Keys = {1, 2, 3, 4}
    Limit = 2
    MaxChanges = 2
    MaxPushes = 2
    MaxEvents = 2
    MaxCrashes = 2
    ChecksEnabled = TRUE
    Upgrade = TRUE
    Stops = TRUE
INVARIANTS StatusOwned ReadyMeansAnalysed PredictedWhenReady ListsPaged
CHECK_DEADLOCK FALSE
