\* EnforceRetention after the only snapshot has left the retention window.
CONSTANTS
    g1 = g1
    g2 = g2
    Gen <- MCOneGen
    NoGen = NoGen
    MaxIndex = 1
    MaxOffset = 1
    MaxTime = 2
    RetentionInterval = 1
    MaxFailures = 0
    MaxCrashes = 0
    MonitorEnabled = FALSE
SPECIFICATION Spec
PROPERTY RetentionKeepsFreshSnapshot
