\* WALIndexAt asked for a specific index, on every directory of three
\* indexes: the index it reports as found must exist.
CONSTANTS
    MaxIndex = 2
    MaxTime = 2
SPECIFICATION Spec
\* A call returns and the model stops there.
CHECK_DEADLOCK FALSE
INVARIANT WALIndexAtFound
