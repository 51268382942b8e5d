\* SnapshotIndexAt on every directory of three indexes with mtimes in
\* 1..2: two snapshots with the same latest mtime.
CONSTANTS
    MaxIndex = 2
    MaxTime = 2
SPECIFICATION Spec
\* A call returns and the model stops there.
CHECK_DEADLOCK FALSE
INVARIANT SnapshotIndexAtTieHighest
