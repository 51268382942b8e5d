------------------------------- MODULE Lookup -------------------------------
(***************************************************************************)
(* The restore-side lookups of src/replica.go: SnapshotIndexAt and         *)
(* WALIndexAt, which scan one directory of a generation, and the readers   *)
(* SnapshotReader and WALReader, which open the file of one index.  One    *)
(* call runs on one directory: its ReadDir result is the directory's files *)
(* in name order, that is by the 16 hex digit index and then by the        *)
(* extension; each turn of the call's loop is one step, and the loop's     *)
(* place in that list is the position of the next name to visit.  A file  *)
(* is its index, its extension and its mtime; names the parsers reject are *)
(* the `.tmp` files compressFile writes before its rename.                 *)
(***************************************************************************)
EXTENDS Integers, Sequences

CONSTANTS
    MaxIndex,   \* highest file index in the directory
    MaxTime     \* latest file mtime

ASSUME LookupAssumption == MaxIndex \in Nat /\ MaxTime \in Nat \ {0}

Idx      == 0..MaxIndex
MTime    == 1..MaxTime          \* a file's mtime
ZeroTime == 0                   \* time.Time{}: "no timestamp"
MaxInt64 == MaxIndex + 1        \* math.MaxInt64: above every index
Absent   == -1                  \* no file of this name

SnapshotExts == <<".snapshot", ".snapshot.gz", ".snapshot.gz.tmp">>
WALExts      == <<".wal", ".wal.gz", ".wal.gz.tmp">>

\* ParseSnapshotPath and ParseWALPath (spec.md 4.1).
ParseSnapshotPath(ext) == ext \in {".snapshot", ".snapshot.gz"}
ParseWALPath(ext)      == ext \in {".wal", ".wal.gz"}

Ops == {"SnapshotIndexAt", "WALIndexAt", "SnapshotReader", "WALReader"}

VARIABLES
    op,         \* the call
    dir,        \* its directory: "ok", "missing", or "error" (an I/O error)
    files,      \* files[k]: mtime of the k-th name of the directory, or Absent
    ts,         \* the timestamp argument
    arg,        \* maxIndex of WALIndexAt, index of the readers
    pc,         \* "start", "loop", "gz" (WALReader's second open), "done"
    next,       \* the loop's place in the ReadDir result: the position of
                \* the first name it has not visited
    index,      \* the loop's index
    max,        \* SnapshotIndexAt's max mtime
    ret         \* the call's result [val, err]

vars == <<op, dir, files, ts, arg, pc, next, index, max, ret>>
inputs == <<op, dir, files, ts, arg>>

Exts == IF op \in {"SnapshotIndexAt", "SnapshotReader"} THEN SnapshotExts
                                                        ELSE WALExts
NameCount == (MaxIndex + 1) * Len(Exts)

\* The k-th file name of the directory in name order.
Name(k) == [idx |-> (k - 1) \div Len(Exts),
            ext |-> Exts[((k - 1) % Len(Exts)) + 1]]

FileAt(k) == [idx |-> Name(k).idx, ext |-> Name(k).ext, mtime |-> files[k]]

\* ioutil.ReadDir: the files that exist, sorted by name; the loop has still
\* to visit those from the k-th name on.
ToVisit(k) == {j \in k..NameCount : files[j] # Absent}

\* The loop's next turn visits the j-th name.
IsNext(j) == j \in ToVisit(next) /\ \A i \in ToVisit(next) : j <= i

\* The file of index i with extension e exists.
Exists(i, e) == \E k \in 1..NameCount : Name(k) = [idx |-> i, ext |-> e]
                                          /\ files[k] # Absent

\* Mutant: `!fi.ModTime().Before(timestamp)` for "not after".
NotAfterStrict(fi) == ts = ZeroTime \/ fi.mtime < ts

\* `!timestamp.IsZero() && fi.ModTime().After(timestamp)` does not hold.
NotAfter(fi) == ts = ZeroTime \/ fi.mtime <= ts

Return(v, e) == /\ ret' = [val |-> v, err |-> e]
                /\ pc' = "done"

Init ==
    /\ op \in Ops
    /\ \/ dir = "ok" /\ files \in [1..NameCount -> {Absent} \cup MTime]
       \/ dir \in {"missing", "error"} /\ files = [k \in 1..NameCount |-> Absent]
    /\ ts \in IF op \in {"SnapshotIndexAt", "WALIndexAt"}
                THEN {ZeroTime} \cup MTime ELSE {ZeroTime}
    /\ arg \in CASE op = "WALIndexAt"      -> Idx \cup {MaxInt64}
                 [] op = "SnapshotIndexAt" -> {0}
                 [] OTHER                  -> Idx
    /\ pc = "start"
    /\ next = 1
    /\ index = 0
    /\ max = ZeroTime
    /\ ret = [val |-> IF op \in {"SnapshotIndexAt", "WALIndexAt"} THEN 0
                     ELSE "none",
             err |-> "none"]

-----------------------------------------------------------------------------
(* SnapshotIndexAt(generation, timestamp).                                 *)

SnapshotIndexAtReadDir ==
    /\ pc = "start" /\ op = "SnapshotIndexAt"
    /\ \/ dir = "missing" /\ Return(0, "NoSnapshots") /\ UNCHANGED <<next, index>>
       \/ dir = "error" /\ Return(0, "IOError") /\ UNCHANGED <<next, index>>
       \/ /\ dir = "ok"
          /\ next' = 1
          /\ index' = -1
          /\ pc' = "loop"
          /\ UNCHANGED ret
    /\ UNCHANGED <<inputs, max>>

\* Mutant: `!fi.ModTime().Before(max)` for "newer"; a tie replaces.
SnapshotIndexAtScanTieReplaces ==
    \E j \in 1..NameCount :
       LET fi == FileAt(j) IN
       /\ pc = "loop" /\ op = "SnapshotIndexAt" /\ IsNext(j)
       /\ next' = j + 1
       /\ IF /\ ParseSnapshotPath(fi.ext) /\ NotAfter(fi)
             /\ max = ZeroTime \/ fi.mtime >= max
            THEN index' = fi.idx /\ max' = fi.mtime
            ELSE UNCHANGED <<index, max>>
       /\ UNCHANGED <<inputs, pc, ret>>

\* A snapshot not after the timestamp replaces the one found so far when
\* max is zero or its mtime is strictly later.
SnapshotIndexAtScan ==
    \E j \in 1..NameCount :
       LET fi == FileAt(j) IN
       /\ pc = "loop" /\ op = "SnapshotIndexAt" /\ IsNext(j)
       /\ next' = j + 1
       /\ IF /\ ParseSnapshotPath(fi.ext) /\ NotAfter(fi)
             /\ max = ZeroTime \/ fi.mtime > max
            THEN index' = fi.idx /\ max' = fi.mtime
            ELSE UNCHANGED <<index, max>>
       /\ UNCHANGED <<inputs, pc, ret>>

\* Mutant: the `index == -1` check dropped.
SnapshotIndexAtReturnNoCheck ==
    /\ pc = "loop" /\ op = "SnapshotIndexAt" /\ ToVisit(next) = {}
    /\ Return(index, "nil")
    /\ UNCHANGED <<inputs, next, index, max>>

SnapshotIndexAtReturn ==
    /\ pc = "loop" /\ op = "SnapshotIndexAt" /\ ToVisit(next) = {}
    /\ IF index = -1 THEN Return(0, "NoSnapshots") ELSE Return(index, "nil")
    /\ UNCHANGED <<inputs, next, index, max>>

-----------------------------------------------------------------------------
(* WALIndexAt(generation, maxIndex, timestamp).                            *)

WALIndexAtReadDir ==
    /\ pc = "start" /\ op = "WALIndexAt"
    /\ \/ dir = "missing" /\ Return(0, "nil") /\ UNCHANGED next
       \/ dir = "error" /\ Return(0, "IOError") /\ UNCHANGED next
       \/ dir = "ok" /\ next' = 1 /\ pc' = "loop" /\ UNCHANGED ret
    /\ UNCHANGED <<inputs, index, max>>

\* Mutant: the `idx > maxIndex` skip dropped.
WALIndexAtScanNoMax ==
    \E j \in 1..NameCount :
       LET fi == FileAt(j) IN
       /\ pc = "loop" /\ op = "WALIndexAt" /\ IsNext(j)
       /\ next' = j + 1
       /\ IF ParseWALPath(fi.ext) /\ NotAfter(fi) /\ ~(fi.idx < index)
            THEN index' = fi.idx
            ELSE UNCHANGED index
       /\ UNCHANGED <<inputs, pc, max, ret>>

\* A WAL file not after the timestamp, at most maxIndex and not below the
\* index found so far becomes the index.
WALIndexAtScan ==
    \E j \in 1..NameCount :
       LET fi == FileAt(j) IN
       /\ pc = "loop" /\ op = "WALIndexAt" /\ IsNext(j)
       /\ next' = j + 1
       /\ IF ParseWALPath(fi.ext) /\ NotAfter(fi)
             /\ ~(fi.idx > arg) /\ ~(fi.idx < index)
            THEN index' = fi.idx
            ELSE UNCHANGED index
       /\ UNCHANGED <<inputs, pc, max, ret>>

\* A maxIndex other than math.MaxInt64 must be the index found.
WALIndexAtReturn ==
    /\ pc = "loop" /\ op = "WALIndexAt" /\ ToVisit(next) = {}
    /\ IF arg # MaxInt64 /\ index # arg THEN Return(index, "IndexNotFound")
                                       ELSE Return(index, "nil")
    /\ UNCHANGED <<inputs, next, index, max>>

-----------------------------------------------------------------------------
(* SnapshotReader(generation, index) and WALReader(generation, index).    *)

SnapshotReaderReadDir ==
    /\ pc = "start" /\ op = "SnapshotReader"
    /\ \/ dir = "missing" /\ Return("none", "NotExist") /\ UNCHANGED next
       \/ dir = "error" /\ Return("none", "IOError") /\ UNCHANGED next
       \/ dir = "ok" /\ next' = 1 /\ pc' = "loop" /\ UNCHANGED ret
    /\ UNCHANGED <<inputs, index, max>>

\* Mutant: the `index != idx` test dropped; the first snapshot is opened.
SnapshotReaderScanAnyIndex ==
    \E j \in 1..NameCount :
       LET fi == FileAt(j) IN
       /\ pc = "loop" /\ op = "SnapshotReader" /\ IsNext(j)
       /\ \/ ParseSnapshotPath(fi.ext) /\ Return(fi.ext, "nil") /\ UNCHANGED next
          \/ ~ParseSnapshotPath(fi.ext) /\ next' = j + 1 /\ UNCHANGED <<pc, ret>>
       /\ UNCHANGED <<inputs, index, max>>

\* The first snapshot file of the index is opened, as it is (".snapshot")
\* or through a gzip reader (".snapshot.gz"); os.Open or gzip.NewReader
\* may fail.
SnapshotReaderScan ==
    \E j \in 1..NameCount :
       LET fi == FileAt(j) IN
       /\ pc = "loop" /\ op = "SnapshotReader" /\ IsNext(j)
       /\ \/ /\ ParseSnapshotPath(fi.ext) /\ fi.idx = arg
             /\ Return(fi.ext, "nil") \/ Return("none", "IOError")
             /\ UNCHANGED next
          \/ /\ ~(ParseSnapshotPath(fi.ext) /\ fi.idx = arg)
             /\ next' = j + 1
             /\ UNCHANGED <<pc, ret>>
       /\ UNCHANGED <<inputs, index, max>>

SnapshotReaderReturn ==
    /\ pc = "loop" /\ op = "SnapshotReader" /\ ToVisit(next) = {}
    /\ Return("none", "NotExist")
    /\ UNCHANGED <<inputs, next, index, max>>

\* os.Open(<index>.wal): the file, or on a NotExist error the .gz next.
WALReaderOpen ==
    /\ pc = "start" /\ op = "WALReader"
    /\ \/ Exists(arg, ".wal") /\ Return(".wal", "nil")
       \/ Exists(arg, ".wal") /\ Return("none", "IOError")
       \/ ~Exists(arg, ".wal") /\ dir = "error" /\ Return("none", "IOError")
       \/ ~Exists(arg, ".wal") /\ dir # "error" /\ pc' = "gz" /\ UNCHANGED ret
    /\ UNCHANGED <<inputs, next, index, max>>

\* os.Open(<index>.wal.gz) wrapped in a gzip reader, or its error.
WALReaderOpenGz ==
    /\ pc = "gz"
    /\ \/ Exists(arg, ".wal.gz") /\ Return(".wal.gz", "nil")
       \/ Exists(arg, ".wal.gz") /\ Return("none", "IOError")
       \/ ~Exists(arg, ".wal.gz") /\ Return("none", "NotExist")
    /\ UNCHANGED <<inputs, next, index, max>>

-----------------------------------------------------------------------------

Next ==
    \/ SnapshotIndexAtReadDir \/ SnapshotIndexAtScan \/ SnapshotIndexAtReturn
    \/ WALIndexAtReadDir \/ WALIndexAtScan \/ WALIndexAtReturn
    \/ SnapshotReaderReadDir \/ SnapshotReaderScan \/ SnapshotReaderReturn
    \/ WALReaderOpen \/ WALReaderOpenGz

Spec == Init /\ [][Next]_vars

-----------------------------------------------------------------------------
(* Properties: the reference definitions of spec.md 4.5 and 4.9.           *)

\* A file's mtime does not exceed ts; a zero ts bounds nothing.
NoLaterThanTs(fi) == ts = ZeroTime \/ fi.mtime <= ts

\* The files of the directory.
Files == {FileAt(k) : k \in {j \in 1..NameCount : files[j] # Absent}}

TypeOK ==
    /\ op \in Ops
    /\ dir \in {"ok", "missing", "error"}
    /\ files \in [1..NameCount -> {Absent} \cup MTime]
    /\ ts \in {ZeroTime} \cup MTime
    /\ arg \in Idx \cup {MaxInt64}
    /\ pc \in {"start", "loop", "gz", "done"}
    /\ next \in 1..(NameCount + 1)
    /\ index \in {-1} \cup Idx
    /\ max \in {ZeroTime} \cup MTime
    /\ ret \in [val : IF op \in {"SnapshotIndexAt", "WALIndexAt"}
                       THEN Idx ELSE {"none", Exts[1], Exts[2]},
               err : {"none", "nil", "NoSnapshots", "IOError", "IndexNotFound",
                      "NotExist"}]

(* SnapshotIndexAt returns the index of a snapshot with the greatest      *)
(* mtime not after the timestamp (the latest one for a zero timestamp),   *)
(* and NoSnapshots exactly when there is none (spec.md 4.5 and the law   *)
(* of spec.md 8 on SnapshotIndexAt(g, 0)).  Of snapshots that tie on that *)
(* mtime it returns the lowest index: the strict After of line 658 keeps  *)
(* the first one in ReadDir's name order.                                 *)
SnapshotIndexAtCorrect ==
    op = "SnapshotIndexAt" /\ pc = "done" /\ dir # "error" =>
        LET C == {fi \in Files : ParseSnapshotPath(fi.ext) /\ NoLaterThanTs(fi)} IN
        IF C = {} THEN ret = [val |-> 0, err |-> "NoSnapshots"]
        ELSE /\ ret.err = "nil"
             /\ \E fi \in C : /\ fi.idx = ret.val
                              /\ \A o \in C :
                                 o.mtime < fi.mtime \/ (o.mtime = fi.mtime /\ fi.idx <= o.idx)

(* The interface comment of SnapshotIndexAt (lines 51-52, 636-637) says   *)
(* it returns the highest index: of the snapshots with the latest mtime   *)
(* not after the timestamp, a successful call returns the highest index.  *)
SnapshotIndexAtTieHighest ==
    op = "SnapshotIndexAt" /\ pc = "done" /\ ret.err = "nil" =>
        LET C == {fi \in Files : ParseSnapshotPath(fi.ext) /\ NoLaterThanTs(fi)}
            Latest == {fi \in C : \A o \in C : o.mtime <= fi.mtime}
        IN  \A fi \in Latest : fi.idx <= ret.val

(* WALIndexAt with maxIndex math.MaxInt64 returns the greatest index of a *)
(* WAL file not after the timestamp, and 0 when there is none (spec.md    *)
(* 4.5, and its open question on the zero index).                         *)
WALIndexAtLatest ==
    op = "WALIndexAt" /\ arg = MaxInt64 /\ pc = "done" /\ dir # "error" =>
        LET C == {fi \in Files : ParseWALPath(fi.ext) /\ NoLaterThanTs(fi)} IN
        /\ ret.err = "nil"
        /\ IF C = {} THEN ret.val = 0
           ELSE /\ \E fi \in C : fi.idx = ret.val
                /\ \A o \in C : o.idx <= ret.val

(* WALIndexAt with a maxIndex succeeds exactly when a WAL file of that    *)
(* index not after the timestamp exists, and otherwise fails with         *)
(* IndexNotFound (spec.md 4.5).                                           *)
WALIndexAtFound ==
    op = "WALIndexAt" /\ arg # MaxInt64 /\ pc = "done" /\ dir # "error" =>
        (ret.err = "nil" <=>
            \E fi \in Files : ParseWALPath(fi.ext) /\ NoLaterThanTs(fi) /\ fi.idx = arg)

(* SnapshotReader and WALReader open a file of the index they are asked   *)
(* for, the uncompressed one when it exists, and report NotExist exactly  *)
(* when the index has no file (spec.md 4.9); opening an existing file may *)
(* only fail with an I/O error.                                           *)
ReaderOpensIndex ==
    op \in {"SnapshotReader", "WALReader"} /\ pc = "done" /\ dir # "error" =>
        LET Parses(e) == IF op = "SnapshotReader" THEN ParseSnapshotPath(e)
                                                  ELSE ParseWALPath(e)
            C == {fi \in Files : Parses(fi.ext) /\ fi.idx = arg}
        IN  IF C = {} THEN ret.err = "NotExist"
            ELSE /\ ret.err \in {"nil", "IOError"}
                 /\ ret.err = "nil" =>
                        /\ Exists(arg, ret.val)
                        /\ (Exists(arg, Exts[1]) => ret.val = Exts[1])

=============================================================================
