---------------------------- MODULE LookupProofs ----------------------------
(***************************************************************************)
(* Proofs of the Lookup properties for every directory size and every     *)
(* mtime range.  Each call's loop keeps an invariant over the names it    *)
(* has visited, the positions below `next` whose file exists: the         *)
(* SnapshotIndexAt loop holds the latest snapshot among them not after    *)
(* the timestamp, the WALIndexAt loop the greatest WAL index among them   *)
(* not after the timestamp and not above maxIndex, and the SnapshotReader *)
(* loop has met no snapshot of the index.  When the loop runs out, the    *)
(* visited names are all the files of the directory.                      *)
(***************************************************************************)
EXTENDS Lookup, TLAPS

\* The positions below n whose file exists: what the loop has visited when
\* n is its place.
Visited(n) == {j \in 1..(n - 1) : files[j] # Absent}

\* The visited snapshots SnapshotIndexAt does not skip.
SnapSeen(n) == {j \in Visited(n) : /\ ParseSnapshotPath(Name(j).ext)
                                   /\ NoLaterThanTs(FileAt(j))}

\* The visited WAL files WALIndexAt does not skip for their name, their
\* mtime or maxIndex.
WALSeen(n) == {j \in Visited(n) : /\ ParseWALPath(Name(j).ext)
                                  /\ NoLaterThanTs(FileAt(j))
                                  /\ Name(j).idx <= arg}

\* index i and max m are those of a latest snapshot seen below n, the
\* lowest index of those that tie.
SnapLoopOK(n, i, m) ==
    IF SnapSeen(n) = {} THEN i = -1 /\ m = ZeroTime
    ELSE \E j \in SnapSeen(n) :
            /\ Name(j).idx = i /\ files[j] = m
            /\ \A o \in SnapSeen(n) :
               files[o] < m \/ (files[o] = m /\ i <= Name(o).idx)

\* index i is the greatest WAL index seen below n, or 0.
WALLoopOK(n, i) ==
    IF WALSeen(n) = {} THEN i = 0
    ELSE \E j \in WALSeen(n) : /\ Name(j).idx = i
                               /\ \A o \in WALSeen(n) : Name(o).idx <= i

\* No snapshot of the index is below n.
ReaderLoopOK(n) ==
    \A j \in Visited(n) : ~(ParseSnapshotPath(Name(j).ext) /\ Name(j).idx = arg)

\* The loop invariants of SnapshotIndexAt, WALIndexAt and SnapshotReader.
SnapLoopInv == op = "SnapshotIndexAt" /\ pc = "loop" => SnapLoopOK(next, index, max)
WALLoopInv == op = "WALIndexAt" /\ pc = "loop" => WALLoopOK(next, index)
ReaderLoopInv == op = "SnapshotReader" /\ pc = "loop" => ReaderLoopOK(next)

\* A directory ReadDir cannot read has no files.
DirInv == dir # "ok" => \A k \in 1..NameCount : files[k] = Absent

\* Before a call's first step.
StartInv == pc = "start" => next = 1 /\ index = 0 /\ max = ZeroTime

\* At WALReader's second open, the first found no .wal file.
GzInv == pc = "gz" => op = "WALReader" /\ dir # "error" /\ ~Exists(arg, ".wal")

\* WALIndexAt's index is always an index.
WALIndexInv == op = "WALIndexAt" => index \in Idx

\* The inductive invariant: the loops' invariants, what holds before a
\* call's first step and at WALReader's second open, and the properties.
LookupInv ==
    /\ TypeOK /\ DirInv /\ StartInv /\ GzInv /\ WALIndexInv
    /\ SnapLoopInv /\ WALLoopInv /\ ReaderLoopInv
    /\ SnapshotIndexAtCorrect /\ WALIndexAtLatest /\ ReaderOpensIndex

-----------------------------------------------------------------------------

USE LookupAssumption
USE DEF Idx, MTime, ZeroTime, MaxInt64, Absent

\* The directory has three names per index, in the order of Exts.
LEMMA ExtsFacts ==
    /\ Exts \in {SnapshotExts, WALExts}
    /\ Len(Exts) = 3
    /\ NameCount = (MaxIndex + 1) * 3
    /\ NameCount \in Nat
BY DEF Exts, NameCount, SnapshotExts, WALExts

\* The k-th name: its index and its extension.
LEMMA NameType ==
    ASSUME NEW k \in 1..NameCount
    PROVE  /\ Name(k).idx \in Idx
           /\ Name(k).ext = Exts[((k - 1) % 3) + 1]
           /\ ((k - 1) % 3) + 1 \in 1..3
           /\ k = 3 * Name(k).idx + ((k - 1) % 3) + 1
BY ExtsFacts DEF Name

\* A name is at one place only: index i with the e-th extension is the
\* (3i + e)-th name.
LEMMA NamePlace ==
    ASSUME NEW k \in 1..NameCount, NEW i, NEW e \in 1..3,
           Name(k) = [idx |-> i, ext |-> Exts[e]]
    PROVE  k = 3 * i + e
<1>1. Name(k).idx = i /\ Name(k).ext = Exts[e]
  OBVIOUS
<1>2. Exts[((k - 1) % 3) + 1] = Exts[e]
  BY <1>1, NameType
<1>3. ((k - 1) % 3) + 1 = e
  BY <1>2, NameType, ExtsFacts DEF SnapshotExts, WALExts
<1>. QED
  BY <1>1, <1>3, NameType

\* Names come in index order.
LEMMA NameOrder ==
    ASSUME NEW k1 \in 1..NameCount, NEW k2 \in 1..NameCount, k1 <= k2
    PROVE  Name(k1).idx <= Name(k2).idx
BY NameType

\* The loop's next name: it lies at or after next and exists, and after
\* the turn the loop has visited it as well.
LEMMA NextVisited ==
    ASSUME next \in 1..(NameCount + 1), NEW j \in 1..NameCount, IsNext(j)
    PROVE  /\ j >= next /\ files[j] # Absent
           /\ j + 1 \in 1..(NameCount + 1)
           /\ Visited(j + 1) = Visited(next) \cup {j}
BY ExtsFacts DEF IsNext, ToVisit, Visited

\* A loop with no name left to visit has visited every file.
LEMMA AllVisited ==
    ASSUME next \in 1..(NameCount + 1), ToVisit(next) = {}
    PROVE  Visited(next) = {k \in 1..NameCount : files[k] # Absent}
BY ExtsFacts DEF ToVisit, Visited

\* Files are the files of the names that exist.
LEMMA FilesAt ==
    ASSUME NEW P(_)
    PROVE  (\E fi \in Files : P(fi)) <=>
           \E k \in 1..NameCount : files[k] # Absent /\ P(FileAt(k))
BY DEF Files

\* The file of index i with extension e exists exactly when Files has it.
LEMMA ExistsFiles ==
    ASSUME NEW i, NEW e
    PROVE  Exists(i, e) <=> \E fi \in Files : fi.idx = i /\ fi.ext = e
<1>1. \A k \in 1..NameCount :
         Name(k) = [idx |-> i, ext |-> e] <=> Name(k).idx = i /\ Name(k).ext = e
  BY DEF Name
<1>2. ASSUME Exists(i, e) PROVE \E fi \in Files : fi.idx = i /\ fi.ext = e
  <2>1. PICK k \in 1..NameCount : Name(k) = [idx |-> i, ext |-> e] /\ files[k] # Absent
    BY <1>2 DEF Exists
  <2>2. FileAt(k) \in Files
    BY <2>1 DEF Files
  <2>. QED
    BY <1>1, <2>1, <2>2 DEF FileAt
<1>3. ASSUME NEW fi \in Files, fi.idx = i, fi.ext = e PROVE Exists(i, e)
  <2>1. PICK k \in 1..NameCount : files[k] # Absent /\ fi = FileAt(k)
    BY DEF Files
  <2>. QED
    BY <1>1, <1>3, <2>1 DEF FileAt, Exists
<1>. QED
  BY <1>2, <1>3

\* A step that leaves the call's inputs alone leaves the directory's names,
\* files and visited set alone.
LEMMA InputsFrame ==
    ASSUME UNCHANGED inputs
    PROVE  /\ Exts' = Exts /\ NameCount' = NameCount
           /\ \A k : Name(k)' = Name(k) /\ FileAt(k)' = FileAt(k)
           /\ Files' = Files
           /\ \A i, e : Exists(i, e)' = Exists(i, e)
           /\ \A n : ToVisit(n)' = ToVisit(n)
BY DEF inputs, Exts, NameCount, Name, FileAt, Files, Exists, ToVisit

\* After a step that leaves the inputs alone, the loop invariants are about
\* the loop's new state.
LEMMA LoopFrame ==
    ASSUME UNCHANGED inputs
    PROVE  /\ SnapLoopInv' <=> (op = "SnapshotIndexAt" /\ pc' = "loop"
                                  => SnapLoopOK(next', index', max'))
           /\ WALLoopInv' <=> (op = "WALIndexAt" /\ pc' = "loop"
                                  => WALLoopOK(next', index'))
           /\ ReaderLoopInv' <=> (op = "SnapshotReader" /\ pc' = "loop"
                                  => ReaderLoopOK(next'))
<1>1. /\ \A k : Name(k)' = Name(k) /\ FileAt(k)' = FileAt(k)
      /\ op' = op /\ files' = files /\ ts' = ts /\ arg' = arg
  BY InputsFrame DEF inputs
<1>. QED
  BY <1>1 DEF SnapLoopInv, WALLoopInv, ReaderLoopInv, SnapLoopOK, WALLoopOK,
     ReaderLoopOK, SnapSeen, WALSeen, Visited, NoLaterThanTs

\* The results a call may return.
RetType ==
    [val : IF op \in {"SnapshotIndexAt", "WALIndexAt"}
             THEN Idx ELSE {"none", Exts[1], Exts[2]},
     err : {"none", "nil", "NoSnapshots", "IOError", "IndexNotFound",
            "NotExist"}]

\* After a step that leaves the inputs alone, TypeOK is about the loop's
\* state and the result.
LEMMA TypeFrame ==
    ASSUME TypeOK, UNCHANGED inputs,
           pc' \in {"start", "loop", "gz", "done"},
           next' \in 1..(NameCount + 1),
           index' \in {-1} \cup Idx,
           max' \in {ZeroTime} \cup MTime,
           ret' \in RetType
    PROVE  TypeOK'
<1>1. Exts' = Exts /\ NameCount' = NameCount
  BY InputsFrame
<1>. QED
  BY <1>1 DEF TypeOK, RetType, inputs

\* The inputs never change, and neither does DirInv.
LEMMA DirFrame ==
    ASSUME DirInv, UNCHANGED inputs
    PROVE  DirInv'
BY InputsFrame DEF DirInv, inputs

\* What each property requires of the result r of a finished call.
SnapOK(r) ==
    LET C == {fi \in Files : ParseSnapshotPath(fi.ext) /\ NoLaterThanTs(fi)} IN
    IF C = {} THEN r = [val |-> 0, err |-> "NoSnapshots"]
    ELSE /\ r.err = "nil"
         /\ \E fi \in C : /\ fi.idx = r.val
                          /\ \A o \in C :
                             o.mtime < fi.mtime \/ (o.mtime = fi.mtime /\ fi.idx <= o.idx)

WALLatestOK(r) ==
    LET C == {fi \in Files : ParseWALPath(fi.ext) /\ NoLaterThanTs(fi)} IN
    /\ r.err = "nil"
    /\ IF C = {} THEN r.val = 0
       ELSE /\ \E fi \in C : fi.idx = r.val
            /\ \A o \in C : o.idx <= r.val

ReaderOK(r) ==
    LET Parses(e) == IF op = "SnapshotReader" THEN ParseSnapshotPath(e)
                                              ELSE ParseWALPath(e)
        C == {fi \in Files : Parses(fi.ext) /\ fi.idx = arg}
    IN  IF C = {} THEN r.err = "NotExist"
        ELSE /\ r.err \in {"nil", "IOError"}
             /\ r.err = "nil" =>
                    /\ Exists(arg, r.val)
                    /\ (Exists(arg, Exts[1]) => r.val = Exts[1])

\* After a step that leaves the inputs alone, each property says that a
\* call that has finished has a correct result.
LEMMA PropsFrame ==
    ASSUME UNCHANGED inputs
    PROVE  /\ SnapshotIndexAtCorrect' <=>
                (op = "SnapshotIndexAt" /\ pc' = "done" /\ dir # "error"
                    => SnapOK(ret'))
           /\ WALIndexAtLatest' <=>
                (op = "WALIndexAt" /\ arg = MaxInt64 /\ pc' = "done"
                    /\ dir # "error" => WALLatestOK(ret'))
           /\ ReaderOpensIndex' <=>
                (op \in {"SnapshotReader", "WALReader"} /\ pc' = "done"
                    /\ dir # "error" => ReaderOK(ret'))
<1>1. /\ Exts' = Exts /\ Files' = Files
      /\ \A i, e : Exists(i, e)' = Exists(i, e)
  BY InputsFrame
<1>2. op' = op /\ dir' = dir /\ ts' = ts /\ arg' = arg
  BY DEF inputs
<1>. QED
  BY <1>1, <1>2 DEF SnapshotIndexAtCorrect, WALIndexAtLatest, ReaderOpensIndex,
     SnapOK, WALLatestOK, ReaderOK, NoLaterThanTs

THEOREM InitLookupInv == Init => LookupInv
<1> SUFFICES ASSUME Init PROVE LookupInv
  OBVIOUS
<1>1. TypeOK
  BY ExtsFacts DEF Init, TypeOK, Ops
<1>2. DirInv
  BY DEF Init, DirInv
<1>. QED
  BY <1>1, <1>2 DEF Init, LookupInv, StartInv, GzInv, WALIndexInv,
     SnapLoopInv, WALLoopInv, ReaderLoopInv,
     SnapshotIndexAtCorrect, WALIndexAtLatest, ReaderOpensIndex

\* The loop invariants hold whenever no loop runs.
LEMMA NoLoop ==
    ASSUME pc' # "loop"
    PROVE  SnapLoopInv' /\ WALLoopInv' /\ ReaderLoopInv'
BY DEF SnapLoopInv, WALLoopInv, ReaderLoopInv

\* A WAL file of the index exists exactly when WALReader's candidates are
\* not empty.
LEMMA WALCands ==
    LET C == {fi \in Files : ParseWALPath(fi.ext) /\ fi.idx = arg} IN
    C # {} <=> Exists(arg, ".wal") \/ Exists(arg, ".wal.gz")
<1>1. \A fi \in Files : ParseWALPath(fi.ext) <=> fi.ext \in {".wal", ".wal.gz"}
  BY DEF ParseWALPath
<1>. QED
  BY <1>1, ExistsFiles

LEMMA WALReaderOpenInv ==
    ASSUME LookupInv, WALReaderOpen
    PROVE  LookupInv'
<1>1. /\ UNCHANGED <<inputs, next, index, max>>
      /\ op = "WALReader" /\ pc = "start"
      /\ pc' \in {"gz", "done"}
  BY DEF WALReaderOpen, Return
<1>2. Exts = WALExts
  BY <1>1 DEF Exts
<1>3. TypeOK'
  <2>1. ret' \in RetType
    BY <1>1, <1>2 DEF LookupInv, TypeOK, RetType, WALReaderOpen, Return, WALExts
  <2>. QED
    BY <1>1, <2>1, TypeFrame DEF LookupInv, TypeOK
<1>4. GzInv'
  BY <1>1, InputsFrame DEF GzInv, WALReaderOpen, Return, inputs
<1>5. ReaderOpensIndex'
  <2>1. SUFFICES ASSUME pc' = "done", dir # "error" PROVE ReaderOK(ret')
    BY <1>1, PropsFrame
  <2>2. CASE Exists(arg, ".wal") /\ Return(".wal", "nil")
    BY <2>2, <1>1, <1>2, WALCands DEF ReaderOK, Return, WALExts
  <2>3. CASE Exists(arg, ".wal") /\ Return("none", "IOError")
    BY <2>3, <1>1, WALCands DEF ReaderOK, Return
  <2>. QED
    BY <2>1, <2>2, <2>3 DEF WALReaderOpen
<1>6. SnapshotIndexAtCorrect' /\ WALIndexAtLatest'
  BY <1>1, PropsFrame
<1>. QED
  BY <1>1, <1>3, <1>4, <1>5, <1>6, NoLoop, DirFrame
  DEF LookupInv, StartInv, WALIndexInv, inputs

LEMMA WALReaderOpenGzInv ==
    ASSUME LookupInv, WALReaderOpenGz
    PROVE  LookupInv'
<1>1. /\ UNCHANGED <<inputs, next, index, max>> /\ pc' = "done"
      /\ op = "WALReader" /\ dir # "error" /\ ~Exists(arg, ".wal")
  BY DEF WALReaderOpenGz, Return, LookupInv, GzInv
<1>2. Exts = WALExts
  BY <1>1 DEF Exts
<1>3. TypeOK'
  <2>1. ret' \in RetType
    BY <1>1, <1>2 DEF LookupInv, TypeOK, RetType, WALReaderOpenGz, Return, WALExts
  <2>. QED
    BY <1>1, <2>1, TypeFrame DEF LookupInv, TypeOK
<1>5. ReaderOpensIndex'
  <2>1. SUFFICES ReaderOK(ret')
    BY <1>1, PropsFrame
  <2>2. CASE Exists(arg, ".wal.gz") /\ Return(".wal.gz", "nil")
    BY <2>2, <1>1, <1>2, WALCands DEF ReaderOK, Return, WALExts
  <2>3. CASE Exists(arg, ".wal.gz") /\ Return("none", "IOError")
    BY <2>3, <1>1, WALCands DEF ReaderOK, Return
  <2>4. CASE ~Exists(arg, ".wal.gz") /\ Return("none", "NotExist")
    BY <2>4, <1>1, WALCands DEF ReaderOK, Return
  <2>. QED
    BY <2>2, <2>3, <2>4 DEF WALReaderOpenGz
<1>6. SnapshotIndexAtCorrect' /\ WALIndexAtLatest'
  BY <1>1, PropsFrame
<1>. QED
  BY <1>1, <1>3, <1>5, <1>6, NoLoop, DirFrame
  DEF LookupInv, StartInv, GzInv, WALIndexInv, inputs

\* A directory ReadDir cannot read has no files.
LEMMA NoFiles ==
    ASSUME DirInv, dir # "ok"
    PROVE  Files = {} /\ \A i, e : ~Exists(i, e)
BY DEF DirInv, Files, Exists

\* The loop starts having visited nothing.
LEMMA VisitedNone ==
    Visited(1) = {} /\ SnapSeen(1) = {} /\ WALSeen(1) = {}
BY DEF Visited, SnapSeen, WALSeen

LEMMA SnapshotIndexAtReadDirInv ==
    ASSUME LookupInv, SnapshotIndexAtReadDir
    PROVE  LookupInv'
<1>1. /\ UNCHANGED <<inputs, max>> /\ op = "SnapshotIndexAt" /\ pc = "start"
      /\ pc' \in {"loop", "done"}
      /\ max = ZeroTime /\ TypeOK /\ DirInv
  BY DEF SnapshotIndexAtReadDir, Return, LookupInv, StartInv
<1>2. TypeOK'
  <2>1. next' \in 1..(NameCount + 1) /\ index' \in {-1} \cup Idx
    BY <1>1, ExtsFacts DEF SnapshotIndexAtReadDir, Return, TypeOK
  <2>2. ret' \in RetType
    BY <1>1 DEF TypeOK, RetType, SnapshotIndexAtReadDir, Return
  <2>. QED
    BY <1>1, <2>1, <2>2, TypeFrame DEF TypeOK
<1>3. SnapLoopInv'
  <2>1. SUFFICES ASSUME pc' = "loop" PROVE SnapLoopOK(next', index', max')
    BY <1>1, LoopFrame
  <2>. QED
    BY <2>1, <1>1, VisitedNone DEF SnapshotIndexAtReadDir, Return, SnapLoopOK
<1>4. SnapshotIndexAtCorrect'
  <2>1. SUFFICES ASSUME pc' = "done", dir # "error" PROVE SnapOK(ret')
    BY <1>1, PropsFrame
  <2>2. dir = "missing" /\ ret' = [val |-> 0, err |-> "NoSnapshots"]
    BY <2>1 DEF SnapshotIndexAtReadDir, Return
  <2>. QED
    BY <1>1, <2>2, NoFiles DEF SnapOK
<1>5. WALLoopInv' /\ ReaderLoopInv' /\ WALIndexAtLatest' /\ ReaderOpensIndex'
  BY <1>1, LoopFrame, PropsFrame
<1>. QED
  BY <1>1, <1>2, <1>3, <1>4, <1>5, DirFrame
  DEF LookupInv, StartInv, GzInv, WALIndexInv, inputs

LEMMA WALIndexAtReadDirInv ==
    ASSUME LookupInv, WALIndexAtReadDir
    PROVE  LookupInv'
<1>1. /\ UNCHANGED <<inputs, index, max>> /\ op = "WALIndexAt" /\ pc = "start"
      /\ pc' \in {"loop", "done"}
      /\ index = 0 /\ TypeOK /\ DirInv
  BY DEF WALIndexAtReadDir, Return, LookupInv, StartInv
<1>2. TypeOK'
  <2>1. next' \in 1..(NameCount + 1)
    BY <1>1, ExtsFacts DEF WALIndexAtReadDir, Return, TypeOK
  <2>2. ret' \in RetType
    BY <1>1 DEF TypeOK, RetType, WALIndexAtReadDir, Return
  <2>. QED
    BY <1>1, <2>1, <2>2, TypeFrame DEF TypeOK
<1>3. WALLoopInv'
  <2>1. SUFFICES ASSUME pc' = "loop" PROVE WALLoopOK(next', index')
    BY <1>1, LoopFrame
  <2>. QED
    BY <2>1, <1>1, VisitedNone DEF WALIndexAtReadDir, Return, WALLoopOK
<1>4. WALIndexAtLatest'
  <2>1. SUFFICES ASSUME pc' = "done", dir # "error"
                 PROVE  WALLatestOK(ret')
    BY <1>1, PropsFrame
  <2>2. dir = "missing" /\ ret' = [val |-> 0, err |-> "nil"]
    BY <2>1 DEF WALIndexAtReadDir, Return
  <2>. QED
    BY <1>1, <2>2, NoFiles DEF WALLatestOK
<1>5. SnapLoopInv' /\ ReaderLoopInv' /\ SnapshotIndexAtCorrect'
      /\ ReaderOpensIndex'
  BY <1>1, LoopFrame, PropsFrame
<1>. QED
  BY <1>1, <1>2, <1>3, <1>4, <1>5, DirFrame
  DEF LookupInv, StartInv, GzInv, WALIndexInv, inputs

LEMMA SnapshotReaderReadDirInv ==
    ASSUME LookupInv, SnapshotReaderReadDir
    PROVE  LookupInv'
<1>1. /\ UNCHANGED <<inputs, index, max>> /\ op = "SnapshotReader"
      /\ pc = "start" /\ pc' \in {"loop", "done"}
      /\ TypeOK /\ DirInv
  BY DEF SnapshotReaderReadDir, Return, LookupInv
<1>2. TypeOK'
  <2>1. next' \in 1..(NameCount + 1)
    BY <1>1, ExtsFacts DEF SnapshotReaderReadDir, Return, TypeOK
  <2>2. ret' \in RetType
    BY <1>1 DEF TypeOK, RetType, SnapshotReaderReadDir, Return
  <2>. QED
    BY <1>1, <2>1, <2>2, TypeFrame DEF TypeOK
<1>3. ReaderLoopInv'
  <2>1. SUFFICES ASSUME pc' = "loop" PROVE ReaderLoopOK(next')
    BY <1>1, LoopFrame
  <2>. QED
    BY <2>1, <1>1, VisitedNone DEF SnapshotReaderReadDir, Return, ReaderLoopOK
<1>4. ReaderOpensIndex'
  <2>1. SUFFICES ASSUME pc' = "done", dir # "error" PROVE ReaderOK(ret')
    BY <1>1, PropsFrame
  <2>2. dir = "missing" /\ ret'.err = "NotExist"
    BY <2>1 DEF SnapshotReaderReadDir, Return
  <2>. QED
    BY <1>1, <2>2, NoFiles DEF ReaderOK
<1>5. SnapLoopInv' /\ WALLoopInv' /\ SnapshotIndexAtCorrect'
      /\ WALIndexAtLatest'
  BY <1>1, LoopFrame, PropsFrame
<1>. QED
  BY <1>1, <1>2, <1>3, <1>4, <1>5, DirFrame
  DEF LookupInv, StartInv, GzInv, WALIndexInv, inputs

\* When the loop has visited every file, the candidates of the properties
\* are the files it has seen.
LEMMA SeenFiles ==
    ASSUME next \in 1..(NameCount + 1), ToVisit(next) = {}
    PROVE  /\ {fi \in Files : ParseSnapshotPath(fi.ext) /\ NoLaterThanTs(fi)}
                = {FileAt(j) : j \in SnapSeen(next)}
           /\ arg = MaxInt64 =>
                {fi \in Files : ParseWALPath(fi.ext) /\ NoLaterThanTs(fi)}
                = {FileAt(j) : j \in WALSeen(next)}
<1>1. Visited(next) = {k \in 1..NameCount : files[k] # Absent}
  BY AllVisited
<1>2. {fi \in Files : ParseSnapshotPath(fi.ext) /\ NoLaterThanTs(fi)}
        = {FileAt(j) : j \in SnapSeen(next)}
  <2>1. ASSUME NEW fi \in Files, ParseSnapshotPath(fi.ext), NoLaterThanTs(fi)
        PROVE  \E j \in SnapSeen(next) : fi = FileAt(j)
    <3>1. PICK k \in 1..NameCount : files[k] # Absent /\ fi = FileAt(k)
      BY DEF Files
    <3>2. k \in SnapSeen(next)
      BY <1>1, <2>1, <3>1 DEF SnapSeen, FileAt
    <3>. QED
      BY <3>1, <3>2
  <2>2. ASSUME NEW j \in SnapSeen(next)
        PROVE  /\ FileAt(j) \in Files
               /\ ParseSnapshotPath(FileAt(j).ext) /\ NoLaterThanTs(FileAt(j))
    BY <1>1 DEF SnapSeen, Files, FileAt
  <2>. QED
    BY <2>1, <2>2
<1>3. ASSUME arg = MaxInt64
      PROVE  {fi \in Files : ParseWALPath(fi.ext) /\ NoLaterThanTs(fi)}
               = {FileAt(j) : j \in WALSeen(next)}
  <2>1. \A k \in 1..NameCount : Name(k).idx <= arg
    BY <1>3, NameType
  <2>2. ASSUME NEW fi \in Files, ParseWALPath(fi.ext), NoLaterThanTs(fi)
        PROVE  \E j \in WALSeen(next) : fi = FileAt(j)
    <3>1. PICK k \in 1..NameCount : files[k] # Absent /\ fi = FileAt(k)
      BY DEF Files
    <3>2. k \in WALSeen(next)
      BY <1>1, <2>1, <2>2, <3>1 DEF WALSeen, FileAt
    <3>. QED
      BY <3>1, <3>2
  <2>3. ASSUME NEW j \in WALSeen(next)
        PROVE  /\ FileAt(j) \in Files
               /\ ParseWALPath(FileAt(j).ext) /\ NoLaterThanTs(FileAt(j))
    BY <1>1 DEF WALSeen, Files, FileAt
  <2>. QED
    BY <2>2, <2>3
<1>. QED
  BY <1>2, <1>3

LEMMA SnapshotIndexAtReturnInv ==
    ASSUME LookupInv, SnapshotIndexAtReturn
    PROVE  LookupInv'
<1>1. /\ UNCHANGED <<inputs, next, index, max>> /\ op = "SnapshotIndexAt"
      /\ pc = "loop" /\ pc' = "done" /\ ToVisit(next) = {}
      /\ TypeOK /\ SnapLoopOK(next, index, max)
      /\ ret' = IF index = -1 THEN [val |-> 0, err |-> "NoSnapshots"]
                ELSE [val |-> index, err |-> "nil"]
  BY DEF SnapshotIndexAtReturn, Return, LookupInv, SnapLoopInv
<1>2. next \in 1..(NameCount + 1) /\ index \in {-1} \cup Idx
  BY <1>1 DEF TypeOK
<1>3. TypeOK'
  <2>1. ret' \in RetType
    BY <1>1, <1>2 DEF RetType
  <2>. QED
    BY <1>1, <2>1, TypeFrame DEF TypeOK
<1>4. SnapshotIndexAtCorrect'
  <2>1. SUFFICES SnapOK(ret')
    BY <1>1, PropsFrame
  <2>2. CASE SnapSeen(next) = {}
    BY <2>2, <1>1, <1>2, SeenFiles DEF SnapLoopOK, SnapOK
  <2>3. CASE SnapSeen(next) # {}
    <3>1. PICK j \in SnapSeen(next) :
             /\ Name(j).idx = index /\ files[j] = max
             /\ \A o \in SnapSeen(next) :
                files[o] < max \/ (files[o] = max /\ index <= Name(o).idx)
      BY <2>3, <1>1 DEF SnapLoopOK
    <3>2. j \in 1..NameCount
      BY <1>2, ExtsFacts DEF SnapSeen, Visited
    <3>3. index # -1
      BY <3>1, <3>2, NameType
    <3>4. FileAt(j).idx = index /\ FileAt(j).mtime = max
      BY <3>1 DEF FileAt
    <3>5. \A o \in SnapSeen(next) :
             \/ FileAt(o).mtime < FileAt(j).mtime
             \/ FileAt(o).mtime = FileAt(j).mtime /\ FileAt(j).idx <= FileAt(o).idx
      BY <3>1, <3>4 DEF FileAt
    <3>. QED
      BY <1>1, <1>2, <2>3, <3>3, <3>4, <3>5, SeenFiles DEF SnapOK
  <2>. QED
    BY <2>2, <2>3
<1>5. SnapLoopInv' /\ WALLoopInv' /\ ReaderLoopInv' /\ WALIndexAtLatest'
      /\ ReaderOpensIndex'
  BY <1>1, LoopFrame, PropsFrame
<1>. QED
  BY <1>1, <1>3, <1>4, <1>5, DirFrame
  DEF LookupInv, StartInv, GzInv, WALIndexInv, inputs

LEMMA WALIndexAtReturnInv ==
    ASSUME LookupInv, WALIndexAtReturn
    PROVE  LookupInv'
<1>1. /\ UNCHANGED <<inputs, next, index, max>> /\ op = "WALIndexAt"
      /\ pc = "loop" /\ pc' = "done" /\ ToVisit(next) = {}
      /\ TypeOK /\ WALLoopOK(next, index) /\ index \in Idx
      /\ ret'.val = index
      /\ ret' \in [val : Idx, err : {"nil", "IndexNotFound"}]
      /\ arg = MaxInt64 => ret' = [val |-> index, err |-> "nil"]
  BY DEF WALIndexAtReturn, Return, LookupInv, WALLoopInv, WALIndexInv
<1>2. next \in 1..(NameCount + 1)
  BY <1>1 DEF TypeOK
<1>3. TypeOK'
  <2>1. ret' \in RetType
    BY <1>1 DEF RetType
  <2>. QED
    BY <1>1, <2>1, TypeFrame DEF TypeOK
<1>4. WALIndexAtLatest'
  <2>1. SUFFICES ASSUME arg = MaxInt64 PROVE WALLatestOK(ret')
    BY <1>1, PropsFrame
  <2>2. CASE WALSeen(next) = {}
    BY <2>1, <2>2, <1>1, <1>2, SeenFiles DEF WALLoopOK, WALLatestOK
  <2>3. CASE WALSeen(next) # {}
    <3>1. PICK j \in WALSeen(next) :
             /\ Name(j).idx = index
             /\ \A o \in WALSeen(next) : Name(o).idx <= index
      BY <2>3, <1>1 DEF WALLoopOK
    <3>2. FileAt(j).idx = index /\ \A o \in WALSeen(next) : FileAt(o).idx <= index
      BY <3>1 DEF FileAt
    <3>. QED
      BY <1>1, <1>2, <2>1, <2>3, <3>2, SeenFiles DEF WALLatestOK
  <2>. QED
    BY <2>2, <2>3
<1>5. SnapLoopInv' /\ WALLoopInv' /\ ReaderLoopInv' /\ SnapshotIndexAtCorrect'
      /\ ReaderOpensIndex'
  BY <1>1, LoopFrame, PropsFrame
<1>. QED
  BY <1>1, <1>3, <1>4, <1>5, DirFrame
  DEF LookupInv, StartInv, GzInv, WALIndexInv, inputs

LEMMA SnapshotReaderReturnInv ==
    ASSUME LookupInv, SnapshotReaderReturn
    PROVE  LookupInv'
<1>1. /\ UNCHANGED <<inputs, next, index, max>> /\ op = "SnapshotReader"
      /\ pc = "loop" /\ pc' = "done" /\ ToVisit(next) = {}
      /\ TypeOK /\ ReaderLoopOK(next)
      /\ ret' = [val |-> "none", err |-> "NotExist"]
  BY DEF SnapshotReaderReturn, Return, LookupInv, ReaderLoopInv
<1>2. next \in 1..(NameCount + 1)
  BY <1>1 DEF TypeOK
<1>3. TypeOK'
  <2>1. ret' \in RetType
    BY <1>1 DEF RetType
  <2>. QED
    BY <1>1, <2>1, TypeFrame DEF TypeOK
<1>4. ReaderOpensIndex'
  <2>1. SUFFICES ReaderOK(ret')
    BY <1>1, PropsFrame
  <2>2. Visited(next) = {k \in 1..NameCount : files[k] # Absent}
    BY <1>1, <1>2, AllVisited
  <2>3. \A fi \in Files : ~(ParseSnapshotPath(fi.ext) /\ fi.idx = arg)
    BY <1>1, <2>2 DEF ReaderLoopOK, Files, FileAt
  <2>. QED
    BY <1>1, <2>3 DEF ReaderOK
<1>5. SnapLoopInv' /\ WALLoopInv' /\ ReaderLoopInv' /\ SnapshotIndexAtCorrect'
      /\ WALIndexAtLatest'
  BY <1>1, LoopFrame, PropsFrame
<1>. QED
  BY <1>1, <1>3, <1>4, <1>5, DirFrame
  DEF LookupInv, StartInv, GzInv, WALIndexInv, inputs

\* One turn adds the name it visits to those seen, when the loop does not
\* skip it.
LEMMA SeenStep ==
    ASSUME next \in 1..(NameCount + 1), NEW j \in 1..NameCount, IsNext(j)
    PROVE  /\ SnapSeen(j + 1) =
                SnapSeen(next) \cup
                  {o \in {j} : ParseSnapshotPath(Name(o).ext)
                               /\ NoLaterThanTs(FileAt(o))}
           /\ WALSeen(j + 1) =
                WALSeen(next) \cup
                  {o \in {j} : /\ ParseWALPath(Name(o).ext)
                               /\ NoLaterThanTs(FileAt(o))
                               /\ Name(o).idx <= arg}
<1>1. Visited(j + 1) = Visited(next) \cup {j}
  BY NextVisited
<1>. QED
  BY <1>1 DEF SnapSeen, WALSeen

LEMMA SnapshotIndexAtScanInv ==
    ASSUME LookupInv, SnapshotIndexAtScan
    PROVE  LookupInv'
<1>1. PICK j \in 1..NameCount :
         /\ pc = "loop" /\ op = "SnapshotIndexAt" /\ IsNext(j)
         /\ next' = j + 1
         /\ IF /\ ParseSnapshotPath(FileAt(j).ext) /\ NotAfter(FileAt(j))
               /\ max = ZeroTime \/ FileAt(j).mtime > max
              THEN index' = FileAt(j).idx /\ max' = FileAt(j).mtime
              ELSE UNCHANGED <<index, max>>
         /\ UNCHANGED <<inputs, pc, ret>>
  BY DEF SnapshotIndexAtScan
<1>2. /\ TypeOK /\ SnapLoopOK(next, index, max)
      /\ next \in 1..(NameCount + 1) /\ files[j] \in MTime
      /\ j + 1 \in 1..(NameCount + 1)
      /\ FileAt(j).idx = Name(j).idx /\ FileAt(j).ext = Name(j).ext
      /\ FileAt(j).mtime = files[j] /\ Name(j).idx \in Idx
  BY <1>1, NextVisited, NameType DEF LookupInv, SnapLoopInv, TypeOK, FileAt
<1>3. \A o \in SnapSeen(next) : files[o] \in MTime
  <2>1. SnapSeen(next) \subseteq Visited(next)
    BY DEF SnapSeen
  <2>2. \A o \in Visited(next) : o \in 1..NameCount /\ files[o] # Absent
    BY <1>2, ExtsFacts DEF Visited
  <2>. QED
    BY <1>2, <2>1, <2>2 DEF TypeOK
<1>4. TypeOK'
  <2>1. index' \in {-1} \cup Idx /\ max' \in {ZeroTime} \cup MTime
    BY <1>1, <1>2 DEF TypeOK
  <2>. QED
    BY <1>1, <1>2, <2>1, TypeFrame DEF TypeOK, RetType
<1>5. SnapLoopOK(next', index', max')
  <2> DEFINE Q == ParseSnapshotPath(Name(j).ext) /\ NoLaterThanTs(FileAt(j))
  <2>1. SnapSeen(j + 1) = SnapSeen(next) \cup (IF Q THEN {j} ELSE {})
    BY <1>2, <1>1, SeenStep
  <2>2. SnapSeen(next) # {} => max \in MTime
    BY <1>2, <1>3 DEF SnapLoopOK
  <2>3. CASE Q /\ (max = ZeroTime \/ files[j] > max)
    <3>1. index' = Name(j).idx /\ max' = files[j]
      BY <2>3, <1>1, <1>2 DEF NotAfter, NoLaterThanTs
    <3>2. \A o \in SnapSeen(next) : files[o] < files[j]
      <4>1. SUFFICES ASSUME SnapSeen(next) # {} PROVE \A o \in SnapSeen(next) : files[o] < files[j]
        OBVIOUS
      <4>2. \A o \in SnapSeen(next) : files[o] <= max
        BY <4>1, <1>2, <1>3 DEF SnapLoopOK
      <4>. QED
        BY <4>1, <4>2, <2>2, <2>3, <1>2, <1>3
    <3>3. j \in SnapSeen(j + 1)
      BY <2>1, <2>3
    <3>. QED
      BY <1>1, <1>2, <2>1, <2>3, <3>1, <3>2, <3>3 DEF SnapLoopOK
  <2>4. CASE Q /\ ~(max = ZeroTime \/ files[j] > max)
    <3>1. UNCHANGED <<index, max>>
      BY <2>4, <1>1, <1>2 DEF NotAfter, NoLaterThanTs
    <3>2. SnapSeen(next) # {}
      BY <2>4, <1>2 DEF SnapLoopOK
    <3>3. files[j] <= max
      BY <2>4, <2>2, <3>2, <1>2
    <3>4. PICK w \in SnapSeen(next) :
             /\ Name(w).idx = index /\ files[w] = max
             /\ \A o \in SnapSeen(next) :
                files[o] < max \/ (files[o] = max /\ index <= Name(o).idx)
      BY <3>2, <1>2 DEF SnapLoopOK
    <3>5. index <= Name(j).idx
      <4>1. w \in 1..(next - 1)
        BY DEF SnapSeen, Visited
      <4>2. j >= next
        BY <1>1, <1>2, NextVisited
      <4>3. w \in 1..NameCount /\ w <= j
        BY <4>1, <4>2, <1>2, ExtsFacts
      <4>. QED
        BY <3>4, <4>3, NameOrder
    <3>6. files[j] < max \/ (files[j] = max /\ index <= Name(j).idx)
      <4>1. files[j] \in Int /\ max \in Int
        BY <1>2, <2>2, <3>2 DEF MTime
      <4>. QED
        BY <3>3, <3>5, <4>1
    <3>. QED
      BY <1>1, <1>2, <2>1, <2>4, <3>1, <3>4, <3>6 DEF SnapLoopOK
  <2>5. CASE ~Q
    <3>1. UNCHANGED <<index, max>>
      BY <2>5, <1>1, <1>2 DEF NotAfter, NoLaterThanTs
    <3>. QED
      BY <1>1, <1>2, <2>1, <2>5, <3>1 DEF SnapLoopOK
  <2>. QED
    BY <2>3, <2>4, <2>5
<1>6. SnapLoopInv'
  BY <1>1, <1>5, LoopFrame
<1>7. WALLoopInv' /\ ReaderLoopInv' /\ SnapshotIndexAtCorrect'
      /\ WALIndexAtLatest' /\ ReaderOpensIndex'
  BY <1>1, LoopFrame, PropsFrame
<1>. QED
  BY <1>1, <1>4, <1>6, <1>7, DirFrame
  DEF LookupInv, StartInv, GzInv, WALIndexInv, inputs

LEMMA WALIndexAtScanInv ==
    ASSUME LookupInv, WALIndexAtScan
    PROVE  LookupInv'
<1>1. PICK j \in 1..NameCount :
         /\ pc = "loop" /\ op = "WALIndexAt" /\ IsNext(j)
         /\ next' = j + 1
         /\ IF /\ ParseWALPath(FileAt(j).ext) /\ NotAfter(FileAt(j))
               /\ ~(FileAt(j).idx > arg) /\ ~(FileAt(j).idx < index)
              THEN index' = FileAt(j).idx
              ELSE UNCHANGED index
         /\ UNCHANGED <<inputs, pc, max, ret>>
  BY DEF WALIndexAtScan
<1>2. /\ TypeOK /\ WALLoopOK(next, index) /\ index \in Idx
      /\ next \in 1..(NameCount + 1) /\ j + 1 \in 1..(NameCount + 1)
      /\ arg \in Idx \cup {MaxInt64}
      /\ FileAt(j).idx = Name(j).idx /\ FileAt(j).ext = Name(j).ext
      /\ Name(j).idx \in Idx
  BY <1>1, NextVisited, NameType DEF LookupInv, WALLoopInv, WALIndexInv,
     TypeOK, FileAt
<1>3. index' \in Idx
  BY <1>1, <1>2
<1>4. TypeOK'
  BY <1>1, <1>2, <1>3, TypeFrame DEF TypeOK, RetType
<1>5. WALLoopOK(next', index')
  <2> DEFINE Q == /\ ParseWALPath(Name(j).ext) /\ NoLaterThanTs(FileAt(j))
                  /\ Name(j).idx <= arg
  <2>1. WALSeen(j + 1) = WALSeen(next) \cup (IF Q THEN {j} ELSE {})
    BY <1>2, <1>1, SeenStep
  <2>2. \A o \in WALSeen(next) : Name(o).idx \in Idx
    <3>1. \A o \in WALSeen(next) : o \in 1..NameCount
      BY <1>2, ExtsFacts DEF WALSeen, Visited
    <3>. QED
      BY <3>1, NameType
  <2>3. CASE Q /\ Name(j).idx >= index
    <3>1. index' = Name(j).idx
      BY <2>3, <1>1, <1>2 DEF NotAfter, NoLaterThanTs
    <3>2. \A o \in WALSeen(next) : Name(o).idx <= Name(j).idx
      BY <2>3, <2>2, <1>2 DEF WALLoopOK
    <3>3. j \in WALSeen(j + 1)
      BY <2>1, <2>3
    <3>. QED
      BY <1>1, <1>2, <2>1, <2>3, <3>1, <3>2, <3>3 DEF WALLoopOK
  <2>4. CASE Q /\ Name(j).idx < index
    <3>1. UNCHANGED index
      BY <2>4, <1>1, <1>2 DEF NotAfter, NoLaterThanTs
    <3>2. WALSeen(next) # {}
      BY <2>4, <1>2 DEF WALLoopOK
    <3>. QED
      BY <1>1, <1>2, <2>1, <2>4, <3>1, <3>2 DEF WALLoopOK
  <2>5. CASE ~Q
    <3>1. UNCHANGED index
      BY <2>5, <1>1, <1>2 DEF NotAfter, NoLaterThanTs
    <3>. QED
      BY <1>1, <1>2, <2>1, <2>5, <3>1 DEF WALLoopOK
  <2>. QED
    BY <2>3, <2>4, <2>5, <1>2
<1>6. WALLoopInv'
  BY <1>1, <1>5, LoopFrame
<1>7. SnapLoopInv' /\ ReaderLoopInv' /\ SnapshotIndexAtCorrect'
      /\ WALIndexAtLatest' /\ ReaderOpensIndex'
  BY <1>1, LoopFrame, PropsFrame
<1>. QED
  BY <1>1, <1>3, <1>4, <1>6, <1>7, DirFrame
  DEF LookupInv, StartInv, GzInv, WALIndexInv, inputs

\* The name order puts an index's .snapshot right before its .snapshot.gz:
\* a loop that reaches the .snapshot.gz of an index without having met a
\* snapshot of it finds no .snapshot of it.
LEMMA GzAfterPlain ==
    ASSUME op = "SnapshotReader", next \in 1..(NameCount + 1),
           NEW j \in 1..NameCount, IsNext(j), ReaderLoopOK(next),
           Name(j).idx = arg, Name(j).ext = ".snapshot.gz"
    PROVE  ~Exists(arg, ".snapshot")
<1>1. Exts = SnapshotExts
  BY DEF Exts
<1>2. j = 3 * arg + 2
  <2>1. Name(j) = [idx |-> arg, ext |-> Exts[2]]
    BY <1>1 DEF SnapshotExts, Name
  <2>. QED
    BY <2>1, NamePlace
<1>3. SUFFICES ASSUME NEW k \in 1..NameCount,
                      Name(k) = [idx |-> arg, ext |-> ".snapshot"],
                      files[k] # Absent
               PROVE  FALSE
  BY DEF Exists
<1>4. k = 3 * arg + 1
  BY <1>1, <1>3, NamePlace DEF SnapshotExts
<1>5. k < next
  <2>1. SUFFICES ASSUME k >= next PROVE FALSE
    BY ExtsFacts
  <2>2. k \in ToVisit(next)
    BY <1>3, <2>1 DEF ToVisit
  <2>3. arg \in Int
    BY NameType
  <2>. QED
    BY <1>2, <1>4, <2>2, <2>3 DEF IsNext
<1>6. k \in Visited(next)
  BY <1>3, <1>5, ExtsFacts DEF Visited
<1>. QED
  BY <1>3, <1>6 DEF ReaderLoopOK, ParseSnapshotPath

LEMMA SnapshotReaderScanInv ==
    ASSUME LookupInv, SnapshotReaderScan
    PROVE  LookupInv'
<1>1. PICK j \in 1..NameCount :
         /\ pc = "loop" /\ op = "SnapshotReader" /\ IsNext(j)
         /\ \/ /\ ParseSnapshotPath(FileAt(j).ext) /\ FileAt(j).idx = arg
               /\ Return(FileAt(j).ext, "nil") \/ Return("none", "IOError")
               /\ UNCHANGED next
            \/ /\ ~(ParseSnapshotPath(FileAt(j).ext) /\ FileAt(j).idx = arg)
               /\ next' = j + 1
               /\ UNCHANGED <<pc, ret>>
         /\ UNCHANGED <<inputs, index, max>>
  BY DEF SnapshotReaderScan
<1>2. /\ TypeOK /\ ReaderLoopOK(next)
      /\ next \in 1..(NameCount + 1) /\ j + 1 \in 1..(NameCount + 1)
      /\ FileAt(j).idx = Name(j).idx /\ FileAt(j).ext = Name(j).ext
      /\ files[j] # Absent
      /\ Exts = SnapshotExts
  BY <1>1, NextVisited DEF LookupInv, ReaderLoopInv, TypeOK, FileAt, Exts
<1>3. CASE /\ ParseSnapshotPath(Name(j).ext) /\ Name(j).idx = arg
           /\ Return(Name(j).ext, "nil") \/ Return("none", "IOError")
           /\ UNCHANGED next
  <2>1. pc' = "done"
      /\ ret' \in {[val |-> Name(j).ext, err |-> "nil"],
                   [val |-> "none", err |-> "IOError"]}
    BY <1>3 DEF Return
  <2>2. TypeOK'
    <3>1. ret' \in RetType
      BY <1>1, <1>2, <1>3, <2>1 DEF RetType, SnapshotExts, ParseSnapshotPath
    <3>. QED
      BY <1>1, <1>2, <2>1, <3>1, TypeFrame DEF TypeOK
  <2>3. ReaderOK(ret')
    <3>1. FileAt(j) \in {fi \in Files : ParseSnapshotPath(fi.ext) /\ fi.idx = arg}
      BY <1>2, <1>3 DEF Files
    <3>2. Exists(arg, Name(j).ext)
      BY <1>2, <1>3 DEF Exists, Name
    <3>3. Name(j).ext = ".snapshot.gz" => ~Exists(arg, ".snapshot")
      BY <1>1, <1>2, <1>3, GzAfterPlain
    <3>4. Name(j).ext \in {".snapshot", ".snapshot.gz"}
      BY <1>3 DEF ParseSnapshotPath
    <3>. QED
      BY <1>1, <1>2, <2>1, <3>1, <3>2, <3>3, <3>4 DEF ReaderOK, SnapshotExts
  <2>. QED
    BY <1>1, <2>1, <2>2, <2>3, NoLoop, PropsFrame, DirFrame
    DEF LookupInv, StartInv, GzInv, WALIndexInv, inputs
<1>4. CASE /\ ~(ParseSnapshotPath(Name(j).ext) /\ Name(j).idx = arg)
           /\ next' = j + 1
           /\ UNCHANGED <<pc, ret>>
  <2>1. TypeOK'
    BY <1>1, <1>2, <1>4, TypeFrame DEF TypeOK, RetType
  <2>2. ReaderLoopOK(next')
    <3>1. Visited(j + 1) = Visited(next) \cup {j}
      BY <1>1, <1>2, NextVisited
    <3>. QED
      BY <1>2, <1>4, <3>1 DEF ReaderLoopOK
  <2>3. ReaderLoopInv'
    BY <1>1, <2>2, LoopFrame
  <2>. QED
    BY <1>1, <1>4, <2>1, <2>3, LoopFrame, PropsFrame, DirFrame
    DEF LookupInv, StartInv, GzInv, WALIndexInv, SnapLoopInv, WALLoopInv, inputs
<1>. QED
  BY <1>1, <1>2, <1>3, <1>4

LEMMA StutterInv ==
    ASSUME LookupInv, UNCHANGED vars
    PROVE  LookupInv'
<1>1. UNCHANGED inputs /\ UNCHANGED <<pc, next, index, max, ret>>
  BY DEF vars, inputs
<1>2. TypeOK'
  BY <1>1, TypeFrame DEF LookupInv, TypeOK, RetType
<1>3. GzInv'
  BY <1>1, InputsFrame DEF LookupInv, GzInv, inputs
<1>4. SnapLoopInv' /\ WALLoopInv' /\ ReaderLoopInv'
  BY <1>1, LoopFrame DEF LookupInv, SnapLoopInv, WALLoopInv, ReaderLoopInv
<1>5. SnapshotIndexAtCorrect' /\ WALIndexAtLatest' /\ ReaderOpensIndex'
  BY <1>1, PropsFrame DEF LookupInv, SnapshotIndexAtCorrect, WALIndexAtLatest,
     ReaderOpensIndex, SnapOK, WALLatestOK, ReaderOK
<1>. QED
  BY <1>1, <1>2, <1>3, <1>4, <1>5, DirFrame
  DEF LookupInv, StartInv, WALIndexInv, inputs

\* Every step of every call keeps LookupInv.
THEOREM NextLookupInv == LookupInv /\ [Next]_vars => LookupInv'
<1> SUFFICES ASSUME LookupInv, [Next]_vars PROVE LookupInv'
  OBVIOUS
<1>. QED
  BY SnapshotIndexAtReadDirInv, SnapshotIndexAtScanInv, SnapshotIndexAtReturnInv,
     WALIndexAtReadDirInv, WALIndexAtScanInv, WALIndexAtReturnInv,
     SnapshotReaderReadDirInv, SnapshotReaderScanInv, SnapshotReaderReturnInv,
     WALReaderOpenInv, WALReaderOpenGzInv, StutterInv DEF Next

\* LookupInv holds in every state of every call.
THEOREM LookupInvariant == Spec => []LookupInv
BY InitLookupInv, NextLookupInv, PTL DEF Spec

\* Every call keeps its variables in their types: in particular a lookup
\* returns an index (SnapshotIndexAt never lets its -1 out) and a reader
\* the extension of a file it opened (TypeOK).
THEOREM LookupTypeCorrect == Spec => []TypeOK
BY LookupInvariant, PTL DEF LookupInv

\* SnapshotIndexAt returns the index of a snapshot with the latest mtime
\* not after the timestamp, and NoSnapshots exactly when there is none,
\* on every directory (SnapshotIndexAtCorrect).
THEOREM SnapshotIndexAtCorrectness == Spec => []SnapshotIndexAtCorrect
BY LookupInvariant, PTL DEF LookupInv

\* WALIndexAt with no maxIndex returns the greatest WAL index not after the
\* timestamp, or 0 when there is none, on every directory (WALIndexAtLatest).
THEOREM WALIndexAtLatestness == Spec => []WALIndexAtLatest
BY LookupInvariant, PTL DEF LookupInv

\* SnapshotReader and WALReader open a file of the index asked for, the
\* uncompressed one when it exists, and report NotExist exactly when the
\* index has none, on every directory (ReaderOpensIndex).
THEOREM ReaderOpensIndexAlways == Spec => []ReaderOpensIndex
BY LookupInvariant, PTL DEF LookupInv

=============================================================================
