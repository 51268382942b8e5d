\* RestInv on the interleaved monitor and retainer (MonitorEnabled on), with failures and a crash.
CONSTANTS
    g1 = g1
    g2 = g2
    Gen <- MCOneGen
    NoGen = NoGen
    MaxIndex = 2
    MaxOffset = 2
    MaxTime = 2
    RetentionInterval = 1
    MaxFailures = 1
    MaxCrashes = 1
    MonitorEnabled = TRUE
SPECIFICATION Spec
INVARIANT RestInvOneGen
