\* Every lookup and reader call on every directory of three indexes with
\* mtimes in 1..2, including ties and .tmp leftovers.
CONSTANTS
    MaxIndex = 2
    MaxTime = 2
SPECIFICATION Spec
\* A call returns and the model stops there.
CHECK_DEADLOCK FALSE
INVARIANT TypeOK
INVARIANT SnapshotIndexAtCorrect
INVARIANT WALIndexAtLatest
INVARIANT ReaderOpensIndex


\* The inductive invariant LookupProofs proves.
INVARIANT LookupInv
