\* The monitor and retainer goroutines, scheduled fairly, with no I/O errors.
CONSTANTS
    g1 = g1
    g2 = g2
    Gen <- MCOneGen
    NoGen = NoGen
    MaxIndex = 1
    MaxOffset = 2
    MaxTime = 2
    RetentionInterval = 1
    MaxFailures = 0
    MaxCrashes = 1
    MonitorEnabled = TRUE
SPECIFICATION FairSpec
PROPERTY CatchesUp
