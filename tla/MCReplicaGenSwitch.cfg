\* Sync and EnforceRetention called in turn while the database starts a new generation.
CONSTANTS
    g1 = g1
    g2 = g2
    Gen <- MCTwoGens
    NoGen = NoGen
    MaxIndex = 1
    MaxOffset = 1
    MaxTime = 2
    RetentionInterval = 1
    MaxFailures = 0
    MaxCrashes = 0
    MonitorEnabled = FALSE
SPECIFICATION Spec
INVARIANT RestorableLastPos
