------------------------ MODULE ReplicaRefinementProofs ------------------------
(***************************************************************************)
(* Proof that Replica implements ReplicaAbstract under the mapping          *)
(* lastPos <- pos, for every value of the constants.                       *)
(*                                                                         *)
(* Spec => Abstract!Spec needs more than TypeInv.  That r.pos stays inside *)
(* the shadow WAL rests on what the destination tree holds: CalcPos takes  *)
(* its index from a snapshot or WAL file and its offset from a WAL file's  *)
(* size, so every file must stand for an existing shadow file, and a WAL  *)
(* file may be no longer than its shadow file.  Snapshots are taken at    *)
(* DB.Pos(), so that must name an existing shadow file too, also as       *)
(* EnforceRetention holds it in rpos.  That the shadow WAL only grows      *)
(* needs that no shadow file exists past the database's index: a          *)
(* checkpoint creates the next one empty.  And CalcPos may move r.pos      *)
(* anywhere only because Sync calls it with r.pos zero.                    *)
(***************************************************************************)
EXTENDS ReplicaProofs

\* DB.Pos() names a shadow file, and none exists past it.
DBPosInv ==
    dbGen # NoGen =>
        /\ shadow[dbGen][dbIdx] # NoShadow
        /\ \A i \in Idx : i > dbIdx => shadow[dbGen][i] = NoShadow

\* Every WAL file stands for a shadow file and is no longer than it.
WALInv ==
    \A g \in Gen, i \in Idx :
        wal[g][i] # NoWAL => /\ shadow[g][i] # NoShadow
                             /\ wal[g][i].size <= shadow[g][i]

\* Every snapshot stands for a shadow file.
SnapInv ==
    \A g \in Gen, i \in Idx : snap[g][i] # NoSnap => shadow[g][i] # NoShadow

\* r.pos is zero or inside its shadow file.
PosInv ==
    \/ pos = ZeroPos
    \/ /\ pos.gen \in Gen
       /\ shadow[pos.gen][pos.idx] # NoShadow
       /\ pos.off <= shadow[pos.gen][pos.idx]

\* Sync reaches CalcPos only with r.pos zero; EnforceRetention snapshots at
\* a DB.Pos() it read.
LocalsInv ==
    /\ mpc = "calcpos" => pos = ZeroPos
    /\ rpc = "snapshot" => shadow[rpos.gen][rpos.idx] # NoShadow

RefInv == DBPosInv /\ WALInv /\ SnapInv /\ PosInv /\ LocalsInv

\* The shadow WAL grows from one state to the next.
Grows == \A g \in Gen, i \in Idx : shadow'[g][i] >= shadow[g][i]

-----------------------------------------------------------------------------

USE ConstantsAssumption
USE DEF Idx, Off, Time, Bytes, NoShadow, NoSnap, NoWAL, WALFile, PosType,
        ZeroPos

LEMMA InitRefInv == Init => RefInv
BY DEF Init, RefInv, DBPosInv, WALInv, SnapInv, PosInv, LocalsInv, NoShadow

\* A step that only grows the shadow WAL keeps every file, r.pos and the
\* goroutines' locals inside it.
LEMMA GrowthKeeps ==
    ASSUME DataInv, RefInv,
           shadow' \in [Gen -> [Idx -> {NoShadow} \cup Off]], Grows,
           UNCHANGED <<wal, snap, pos, mpc, rpc, rpos>>
    PROVE  WALInv' /\ SnapInv' /\ PosInv' /\ LocalsInv'
<1>1. ASSUME NEW g \in Gen, NEW i \in Idx
      PROVE  /\ shadow[g][i] # NoShadow => shadow'[g][i] # NoShadow
             /\ \A n \in Int : n <= shadow[g][i] => n <= shadow'[g][i]
  BY DEF DataInv, Grows
<1>2. WALInv'
  <2> SUFFICES ASSUME NEW g \in Gen, NEW i \in Idx, wal'[g][i] # NoWAL
               PROVE  shadow'[g][i] # NoShadow
                      /\ wal'[g][i].size <= shadow'[g][i]
    BY DEF WALInv
  <2>1. wal[g][i] \in WALFile
    <3>1. wal[g][i] \in {NoWAL} \cup WALFile /\ wal[g][i] # NoWAL
      BY DEF DataInv
    <3>2. QED
      BY <3>1, Zenon
  <2>2. wal[g][i].size \in Int
    BY <2>1
  <2>3. shadow[g][i] # NoShadow /\ wal[g][i].size <= shadow[g][i]
    BY DEF RefInv, WALInv
  <2>4. QED
    BY <1>1, <2>2, <2>3
<1>3. SnapInv'
  BY <1>1 DEF RefInv, SnapInv
<1>4. PosInv'
  <2>1. CASE pos = ZeroPos
    BY <2>1 DEF PosInv
  <2>2. CASE pos # ZeroPos
    <3>1. pos.gen \in Gen /\ shadow[pos.gen][pos.idx] # NoShadow
          /\ pos.off <= shadow[pos.gen][pos.idx] /\ pos.idx \in Idx
          /\ pos.off \in Int
      BY <2>2 DEF RefInv, PosInv, DataInv
    <3>2. QED
      BY <3>1, <1>1 DEF PosInv
  <2>3. QED
    BY <2>1, <2>2
<1>5. LocalsInv'
  <2>1. rpc = "snapshot" => rpos.gen \in Gen /\ rpos.idx \in Idx
    BY DEF DataInv
  <2>2. QED
    BY <2>1, <1>1 DEF RefInv, LocalsInv
<1>6. QED
  BY <1>2, <1>3, <1>4, <1>5

\* Raising one cell of the shadow table to a size keeps it a shadow table
\* and grows it.
LEMMA CellGrows ==
    ASSUME NEW f \in [Gen -> [Idx -> {NoShadow} \cup Off]], NEW g \in Gen,
           NEW i \in Idx, NEW v \in Off, v >= f[g][i]
    PROVE  /\ [f EXCEPT ![g][i] = v] \in [Gen -> [Idx -> {NoShadow} \cup Off]]
           /\ \A x \in Gen, y \in Idx : [f EXCEPT ![g][i] = v][x][y] >= f[x][y]
<1>1. [f EXCEPT ![g][i] = v] \in [Gen -> [Idx -> {NoShadow} \cup Off]]
  BY ExceptCellType
<1>2. \A x \in Gen, y \in Idx : [f EXCEPT ![g][i] = v][x][y] >= f[x][y]
  OBVIOUS
<1>3. QED
  BY <1>1, <1>2

\* The database's steps grow the shadow WAL and keep RefInv: an append
\* lengthens the current shadow file, a checkpoint and a new generation
\* create an empty one where none was.
LEMMA DBWriteRefInv == DataInv /\ RefInv /\ DBWrite => RefInv' /\ Grows
<1> SUFFICES ASSUME DataInv, RefInv, DBWrite PROVE RefInv' /\ Grows
  OBVIOUS
<1>1. /\ dbGen # NoGen /\ shadow[dbGen][dbIdx] < MaxOffset
      /\ shadow' = [shadow EXCEPT ![dbGen][dbIdx] = @ + 1]
      /\ UNCHANGED <<dbGen, dbIdx, wal, snap, pos, mpc, rpc, rpos>>
  BY Zenon DEF DBWrite, dstVars, monVars, retVars
<1>2. dbGen \in Gen /\ dbIdx \in Idx
  <2>1. dbGen \in Gen \cup {NoGen} /\ dbIdx \in Idx
    BY DEF DataInv
  <2>2. QED
    BY <1>1, <2>1, Zenon
<1>3. shadow[dbGen][dbIdx] + 1 \in Off
      /\ shadow[dbGen][dbIdx] + 1 >= shadow[dbGen][dbIdx]
  <2>1. shadow[dbGen][dbIdx] \in {NoShadow} \cup Off
    BY <1>2 DEF DataInv
  <2>2. QED
    BY <1>1, <2>1
<1>4. shadow' \in [Gen -> [Idx -> {NoShadow} \cup Off]] /\ Grows
  <2>1. shadow' = [shadow EXCEPT ![dbGen][dbIdx] = shadow[dbGen][dbIdx] + 1]
    BY <1>1, <1>2 DEF DataInv
  <2>2. /\ [shadow EXCEPT ![dbGen][dbIdx] = shadow[dbGen][dbIdx] + 1]
             \in [Gen -> [Idx -> {NoShadow} \cup Off]]
        /\ \A x \in Gen, y \in Idx :
             [shadow EXCEPT ![dbGen][dbIdx] = shadow[dbGen][dbIdx] + 1][x][y]
               >= shadow[x][y]
    <3>1. shadow \in [Gen -> [Idx -> {NoShadow} \cup Off]]
      BY DEF DataInv
    <3>2. QED
      BY <1>2, <1>3, <3>1, CellGrows, Zenon
  <2>3. QED
    BY <2>1, <2>2 DEF Grows
<1>5. DBPosInv'
  BY <1>1 DEF DataInv, RefInv, DBPosInv, NoShadow, Off, Idx
<1>6. QED
  BY <1>1, <1>4, <1>5, GrowthKeeps DEF RefInv

LEMMA DBCheckpointRefInv == DataInv /\ RefInv /\ DBCheckpoint => RefInv' /\ Grows
<1> SUFFICES ASSUME DataInv, RefInv, DBCheckpoint PROVE RefInv' /\ Grows
  OBVIOUS
<1>1. /\ dbGen # NoGen /\ dbIdx < MaxIndex /\ dbIdx' = dbIdx + 1
      /\ shadow' = [shadow EXCEPT ![dbGen][dbIdx + 1] = 0]
      /\ UNCHANGED <<dbGen, wal, snap, pos, mpc, rpc, rpos>>
  BY Zenon DEF DBCheckpoint, dstVars, monVars, retVars
<1>2. dbGen \in Gen /\ dbIdx + 1 \in Idx
  <2>1. dbGen \in Gen \cup {NoGen} /\ dbIdx \in Idx
    BY DEF DataInv
  <2>2. dbGen \in Gen
    BY <1>1, <2>1, Zenon
  <2>3. dbIdx + 1 \in Idx
    BY <1>1, <2>1
  <2>4. QED
    BY <2>2, <2>3
<1>3. 0 \in Off /\ 0 >= shadow[dbGen][dbIdx + 1]
  BY <1>1, <1>2 DEF RefInv, DBPosInv, DataInv
<1>4. shadow' \in [Gen -> [Idx -> {NoShadow} \cup Off]] /\ Grows
  <2>1. shadow \in [Gen -> [Idx -> {NoShadow} \cup Off]]
    BY DEF DataInv
  <2>2. /\ [shadow EXCEPT ![dbGen][dbIdx + 1] = 0]
             \in [Gen -> [Idx -> {NoShadow} \cup Off]]
        /\ \A x \in Gen, y \in Idx :
             [shadow EXCEPT ![dbGen][dbIdx + 1] = 0][x][y] >= shadow[x][y]
    BY <1>2, <1>3, <2>1, CellGrows, Zenon
  <2>3. QED
    BY <1>1, <2>2 DEF Grows
<1>5. DBPosInv'
  BY <1>1 DEF DataInv, RefInv, DBPosInv, NoShadow, Off, Idx
<1>6. QED
  BY <1>1, <1>4, <1>5, GrowthKeeps DEF RefInv

LEMMA DBNewGenerationRefInv ==
    DataInv /\ RefInv /\ DBNewGeneration => RefInv' /\ Grows
<1> SUFFICES ASSUME DataInv, RefInv, DBNewGeneration PROVE RefInv' /\ Grows
  OBVIOUS
<1>1. PICK g \in Gen :
        /\ \A i \in Idx : shadow[g][i] = NoShadow
        /\ dbGen' = g /\ dbIdx' = 0
        /\ shadow' = [shadow EXCEPT ![g][0] = 0]
        /\ UNCHANGED <<wal, snap, pos, mpc, rpc, rpos>>
  BY Zenon DEF DBNewGeneration, dstVars, monVars, retVars
<1>2. shadow' \in [Gen -> [Idx -> {NoShadow} \cup Off]] /\ Grows
  BY <1>1, CellGrows DEF DataInv, Grows
<1>3. DBPosInv'
  BY <1>1 DEF DataInv, DBPosInv, NoShadow, Off, Idx
<1>4. QED
  BY <1>1, <1>2, <1>3, GrowthKeeps DEF RefInv

\* The steps that write neither a file nor r.pos, nor make Sync reach
\* CalcPos or EnforceRetention reach its snapshot, keep RefInv.
LEMMA QuietStepsRefInv ==
    DataInv /\ RefInv
      /\ (Tick \/ SyncWALEOF \/ SyncCompress \/ SyncFail \/ RetainGenerations
          \/ RetainDone \/ RetainFail)
      => RefInv'
<1> SUFFICES ASSUME DataInv, RefInv,
                    Tick \/ SyncWALEOF \/ SyncCompress \/ SyncFail
                    \/ RetainGenerations \/ RetainDone \/ RetainFail
             PROVE  RefInv'
  OBVIOUS
<1>1. /\ UNCHANGED <<dbGen, dbIdx, shadow, wal, snap, pos, rpos>>
      /\ mpc' # "calcpos" \/ mpc' = mpc
      /\ rpc' # "snapshot" \/ rpc' = rpc
  BY Zenon DEF Tick, SyncWALEOF, SyncCompress, SyncFail, RetainGenerations,
               RetainDone, RetainFail, dbVars, dstVars, monVars, retVars,
               envVars
<1>2. QED
  BY <1>1 DEF RefInv, DBPosInv, WALInv, SnapInv, PosInv, LocalsInv

\* snapshot(g, i) at a position with a shadow file keeps SnapInv.
LEMMA TakeSnapshotSnapInv ==
    ASSUME DataInv, SnapInv, NEW g \in Gen, NEW i \in Idx,
           shadow[g][i] # NoShadow, TakeSnapshot(g, i), UNCHANGED shadow
    PROVE  SnapInv'
BY DEF DataInv, SnapInv, TakeSnapshot

\* A restart forgets r.pos and the goroutines' places.
LEMMA CrashRefInv == DataInv /\ RefInv /\ Crash => RefInv'
BY DEF Crash, RefInv, DBPosInv, WALInv, SnapInv, PosInv, LocalsInv, dstVars

\* EnforceRetention reads DB.Pos() before it may snapshot at it.
LEMMA RetainStartRefInv == DataInv /\ RefInv /\ RetainStart => RefInv'
<1> SUFFICES ASSUME DataInv, RefInv, RetainStart PROVE RefInv'
  OBVIOUS
<1>1. /\ UNCHANGED <<dbGen, dbIdx, shadow, wal, snap, pos, mpc>>
      /\ \/ UNCHANGED <<rpc, rpos>>
         \/ dbGen # NoGen /\ rpos' = [gen |-> dbGen, idx |-> dbIdx]
  BY Zenon DEF RetainStart, dbVars, dstVars, monVars
<1>2. rpc = "idle"
  BY DEF RetainStart
<1>3. QED
  BY <1>1, <1>2 DEF DataInv, RefInv, DBPosInv, WALInv, SnapInv, PosInv,
                    LocalsInv

\* The forced retention snapshot is taken at the DB.Pos() EnforceRetention read.
LEMMA RetainSnapshotRefInv == DataInv /\ RefInv /\ RetainSnapshot => RefInv'
<1> SUFFICES ASSUME DataInv, RefInv, RetainSnapshot PROVE RefInv'
  OBVIOUS
<1>1. /\ rpc = "snapshot" /\ rpc' = "gens"
      /\ TakeSnapshot(rpos.gen, rpos.idx)
      /\ UNCHANGED <<dbGen, dbIdx, shadow, wal, pos, mpc>>
  BY Zenon DEF RetainSnapshot, dbVars, monVars
<1>2. rpos.gen \in Gen /\ rpos.idx \in Idx
      /\ shadow[rpos.gen][rpos.idx] # NoShadow
  BY <1>1 DEF DataInv, RefInv, LocalsInv
<1>3. SnapInv'
  BY <1>1, <1>2, TakeSnapshotSnapInv DEF RefInv
<1>4. QED
  BY <1>1, <1>3 DEF RefInv, DBPosInv, WALInv, PosInv, LocalsInv

\* Sync snapshots at DB.Pos() and goes to CalcPos only with r.pos zero.
LEMMA SyncBeginRefInv == DataInv /\ RefInv /\ SyncBegin => RefInv'
<1> SUFFICES ASSUME DataInv, RefInv, SyncBegin PROVE RefInv'
  OBVIOUS
<1>1. UNCHANGED <<dbGen, dbIdx, shadow, rpc, rpos>>
  BY Zenon DEF SyncBegin, retVars
<1>2. CASE dbGen = NoGen
  <2>1. UNCHANGED <<snap, wal, pos, mpc>>
    BY <1>2, Zenon DEF SyncBegin, dstVars
  <2>2. QED
    BY <1>1, <2>1 DEF RefInv, DBPosInv, WALInv, SnapInv, PosInv, LocalsInv
<1>3. CASE dbGen # NoGen
  <2>1. /\ mpc' = "calcpos" => IsZero(pos)
        /\ UNCHANGED <<wal, pos>>
    BY <1>3, Zenon DEF SyncBegin
  <2>2. dbGen \in Gen /\ dbIdx \in Idx /\ shadow[dbGen][dbIdx] # NoShadow
    <3>1. dbGen \in Gen \cup {NoGen} /\ dbIdx \in Idx
      BY DEF DataInv
    <3>2. dbGen \in Gen
      BY <1>3, <3>1, Zenon
    <3>3. QED
      BY <1>3, <3>1, <3>2 DEF RefInv, DBPosInv
  <2>3. TakeSnapshot(dbGen, dbIdx) \/ UNCHANGED snap
    BY <1>3, Zenon DEF SyncBegin, TakeSnapshot
  <2>4. SnapInv'
    BY <1>1, <2>2, <2>3, TakeSnapshotSnapInv DEF RefInv, SnapInv
  <2>5. QED
    BY <1>1, <2>1, <2>4 DEF RefInv, DBPosInv, WALInv, PosInv, LocalsInv,
                            IsZero
<1>4. QED
  BY <1>2, <1>3

\* A turn of EnforceRetention's loop only removes files: every snapshot
\* and WAL file left is one that was there.
LEMMA PruneGenerationRefInv ==
    ASSUME NEW g \in Gen, DataInv, RefInv, PruneGeneration(g)
    PROVE  RefInv'
<1>1. UNCHANGED <<dbGen, dbIdx, shadow, pos, mpc, rpc, rpos>>
  BY Zenon DEF PruneGeneration, dbVars, monVars
<1>2. \A h \in Gen, j \in Idx :
         /\ snap'[h][j] = NoSnap \/ snap'[h][j] = snap[h][j]
         /\ wal'[h][j] = NoWAL \/ wal'[h][j] = wal[h][j]
  <2>1. CASE KeptIndexes(g) = {}
    <3>1. /\ snap' = [snap EXCEPT ![g] = [i \in Idx |-> NoSnap]]
          /\ wal' = [wal EXCEPT ![g] = [i \in Idx |-> NoWAL]]
      BY <2>1, Zenon DEF PruneGeneration
    <3>2. QED
      BY <3>1 DEF DataInv
  <2>2. CASE KeptIndexes(g) # {}
    <3>1. /\ snap' = [snap EXCEPT ![g] =
                        [i \in Idx |-> IF BelowKept(g, i) THEN NoSnap
                                       ELSE @[i]]]
          /\ wal' = [wal EXCEPT ![g] =
                        [i \in Idx |-> IF BelowKept(g, i) THEN NoWAL
                                       ELSE @[i]]]
      BY <2>2, Zenon DEF PruneGeneration
    <3>2. QED
      BY <3>1 DEF DataInv
  <2>3. QED
    BY <2>1, <2>2
<1>3. WALInv'
  BY <1>1, <1>2 DEF RefInv, WALInv
<1>4. SnapInv'
  BY <1>1, <1>2 DEF RefInv, SnapInv
<1>5. QED
  BY <1>1, <1>3, <1>4 DEF RefInv, DBPosInv, PosInv, LocalsInv

LEMMA RetainPruneRefInv == DataInv /\ RefInv /\ RetainPrune => RefInv'
<1> SUFFICES ASSUME DataInv, RefInv, RetainPrune PROVE RefInv'
  OBVIOUS
<1>1. PICK g \in rgens : PruneGeneration(g)
  BY DEF RetainPrune
<1>2. g \in Gen
  BY <1>1 DEF DataInv
<1>3. QED
  BY <1>1, <1>2, PruneGenerationRefInv

\* CalcPos places r.pos at the start of the highest snapshot's index, or at
\* the end of the highest WAL file: bytes the database has written.
LEMMA SyncCalcPosRefInv == DataInv /\ RefInv /\ SyncCalcPos => RefInv'
<1> SUFFICES ASSUME DataInv, RefInv, SyncCalcPos PROVE RefInv'
  OBVIOUS
<1>1. /\ UNCHANGED <<dbGen, dbIdx, shadow, snap, wal, mgen, rpc, rpos>>
      /\ mpc' # "calcpos"
  BY Zenon DEF SyncCalcPos, dbVars, dstVars, retVars
<1>2. mgen \in Gen
  <2>1. mpc = "calcpos" /\ mgen \in Gen \cup {NoGen}
    BY Zenon DEF SyncCalcPos, DataInv
  <2>2. QED
    BY <2>1 DEF DataInv
<1>3. CASE SnapIndexes(mgen) = {}
  <2>1. UNCHANGED pos
    BY <1>3, Zenon DEF SyncCalcPos
  <2>2. QED
    BY <1>1, <2>1 DEF RefInv, DBPosInv, WALInv, SnapInv, PosInv, LocalsInv
<1>4. CASE SnapIndexes(mgen) # {}
  <2>1. PICK m \in Idx :
          IF WALIndexes(mgen) = {}
            THEN /\ IsMaxOf(m, SnapIndexes(mgen))
                 /\ pos' = [gen |-> mgen, idx |-> m, off |-> 0]
            ELSE /\ IsMaxOf(m, WALIndexes(mgen))
                 /\ pos' = [gen |-> mgen, idx |-> m,
                            off |-> wal[mgen][m].size]
    BY <1>4, Zenon DEF SyncCalcPos
  <2>2. CASE WALIndexes(mgen) = {}
    <3>1. snap[mgen][m] # NoSnap /\ pos' = [gen |-> mgen, idx |-> m, off |-> 0]
      BY <2>1, <2>2 DEF IsMaxOf, SnapIndexes
    <3>2. PosInv'
      BY <1>1, <1>2, <3>1 DEF RefInv, SnapInv, PosInv, DataInv
    <3>3. QED
      BY <1>1, <3>2 DEF RefInv, DBPosInv, WALInv, SnapInv, LocalsInv
  <2>3. CASE WALIndexes(mgen) # {}
    <3>1. /\ wal[mgen][m] # NoWAL
          /\ pos' = [gen |-> mgen, idx |-> m, off |-> wal[mgen][m].size]
      BY <2>1, <2>3 DEF IsMaxOf, WALIndexes
    <3>2. PosInv'
      BY <1>1, <1>2, <3>1 DEF RefInv, WALInv, PosInv, DataInv
    <3>3. QED
      BY <1>1, <3>2 DEF RefInv, DBPosInv, WALInv, SnapInv, LocalsInv
  <2>4. QED
    BY <2>2, <2>3
<1>5. QED
  BY <1>3, <1>4

(* The shadow reader syncWAL opens at r.pos: its range is bytes the       *)
(* database has written, it ends at the end of its shadow WAL file, and   *)
(* where it stops is r.pos or later in the same generation, or in the     *)
(* database's current generation.                                         *)
LEMMA ReaderInShadow ==
    ASSUME DataInv, pos.gen \in Gen, ~IsEOF(ShadowWALReader(pos))
    PROVE  LET rd == ShadowWALReader(pos) IN
           /\ rd.gen \in Gen /\ rd.idx \in Idx
           /\ rd.off \in Off /\ rd.end \in Off /\ rd.off <= rd.end
           /\ shadow[rd.gen][rd.idx] = rd.end
           /\ \/ /\ rd.gen = pos.gen
                 /\ \/ rd.idx > pos.idx
                    \/ rd.idx = pos.idx /\ rd.end >= pos.off
              \/ rd.gen = dbGen /\ rd.gen # pos.gen
<1> DEFINE rd == ShadowWALReader(pos)
           g == pos.gen
           i == pos.idx
<1>1. pos \in PosType /\ shadow \in [Gen -> [Idx -> {NoShadow} \cup Off]]
  BY DEF DataInv
<1>2. CASE shadow[g][i] > pos.off
  <2>1. rd = [gen |-> g, idx |-> i, off |-> pos.off, end |-> shadow[g][i]]
    BY <1>2 DEF ShadowWALReader
  <2>2. QED
    BY <1>1, <1>2, <2>1
<1>3. CASE ~(shadow[g][i] > pos.off) /\ i < MaxIndex
           /\ shadow[g][i + 1] # NoShadow
  <2>1. rd = [gen |-> g, idx |-> i + 1, off |-> 0, end |-> shadow[g][i + 1]]
    BY <1>3 DEF ShadowWALReader
  <2>2. QED
    BY <1>1, <1>3, <2>1
<1>4. CASE ~(shadow[g][i] > pos.off)
           /\ ~(i < MaxIndex /\ shadow[g][i + 1] # NoShadow)
           /\ dbGen \notin {g, NoGen}
  <2>1. rd = [gen |-> dbGen, idx |-> 0, off |-> 0, end |-> shadow[dbGen][0]]
    BY <1>4 DEF ShadowWALReader
  <2>2. dbGen \in Gen /\ shadow[dbGen][0] # NoShadow
    BY <1>4 DEF DataInv
  <2>3. QED
    BY <1>1, <1>4, <2>1, <2>2
<1>5. CASE ~(shadow[g][i] > pos.off)
           /\ ~(i < MaxIndex /\ shadow[g][i + 1] # NoShadow)
           /\ ~(dbGen \notin {g, NoGen})
  <2>1. IsEOF(rd)
    BY <1>5 DEF ShadowWALReader, IsEOF
  <2>2. QED
    BY <2>1
<1>6. QED
  BY <1>2, <1>3, <1>4, <1>5

\* Writing [o, e) into a WAL file no longer than a shadow file of size s,
\* with e <= s, leaves it no longer than s.
LEMMA WrittenWithin ==
    ASSUME NEW f \in {NoWAL} \cup WALFile, NEW o \in Off, NEW e \in Off,
           NEW s \in Off, e <= s, f # NoWAL => f.size <= s
    PROVE  Written(f, o, e).size <= s
BY DEF Written

\* So syncWAL's write at a position with e bytes of shadow WAL keeps WALInv.
LEMMA WriteKeepsWALInv ==
    ASSUME DataInv, WALInv, NEW g \in Gen, NEW i \in Idx, NEW o \in Off,
           NEW e \in Off, e <= shadow[g][i],
           wal' = [wal EXCEPT ![g][i] = Written(@, o, e)], UNCHANGED shadow
    PROVE  WALInv'
<1> SUFFICES ASSUME NEW h \in Gen, NEW j \in Idx, wal'[h][j] # NoWAL
             PROVE  shadow[h][j] # NoShadow /\ wal'[h][j].size <= shadow[h][j]
  BY DEF WALInv
<1>1. shadow[g][i] \in Off /\ wal[g][i] \in {NoWAL} \cup WALFile
  BY DEF DataInv
<1>2. CASE h = g /\ j = i
  <2>1. wal'[h][j] = Written(wal[g][i], o, e)
    BY <1>2 DEF DataInv
  <2>2. wal[g][i] # NoWAL => wal[g][i].size <= shadow[g][i]
    BY DEF WALInv
  <2>3. Written(wal[g][i], o, e).size <= shadow[g][i]
    BY <1>1, <2>2, WrittenWithin, Zenon
  <2>4. QED
    BY <1>1, <1>2, <2>1, <2>3
<1>3. CASE ~(h = g /\ j = i)
  <2>1. wal'[h][j] = wal[h][j]
    BY <1>3 DEF DataInv
  <2>2. QED
    BY <2>1 DEF WALInv
<1>4. QED
  BY <1>2, <1>3

\* syncWAL copies the reader's range and sets r.pos to where it stopped.
LEMMA SyncWALRefInv == DataInv /\ RefInv /\ SyncWAL => RefInv'
<1> SUFFICES ASSUME DataInv, RefInv, SyncWAL PROVE RefInv'
  OBVIOUS
<1> DEFINE rd == ShadowWALReader(pos)
<1>1. /\ mpc = "syncwal" /\ ~IsEOF(rd)
      /\ wal' = [wal EXCEPT ![rd.gen][rd.idx] = Written(@, rd.off, rd.end)]
      /\ pos' = [gen |-> rd.gen, idx |-> rd.idx, off |-> rd.end]
      /\ UNCHANGED <<dbGen, dbIdx, shadow, snap, mpc, rpc, rpos>>
  BY Zenon DEF SyncWAL, dbVars, retVars
<1>2. pos.gen \in Gen
  BY <1>1 DEF DataInv
<1>3. /\ rd.gen \in Gen /\ rd.idx \in Idx
      /\ rd.off \in Off /\ rd.end \in Off
      /\ shadow[rd.gen][rd.idx] = rd.end
  BY <1>1, <1>2, ReaderInShadow
<1>4. WALInv'
  <2>1. rd.end <= shadow[rd.gen][rd.idx]
    BY <1>3
  <2>2. QED
    BY <1>1, <1>3, <2>1, WriteKeepsWALInv DEF RefInv
<1>5. PosInv'
  BY <1>1, <1>3 DEF PosInv
<1>6. QED
  BY <1>1, <1>4, <1>5 DEF RefInv, DBPosInv, SnapInv, LocalsInv

\* A syncWAL that fails part-way keeps the k bytes written; r.pos stays.
LEMMA SyncWALFailRefInv == DataInv /\ RefInv /\ SyncWALFail => RefInv'
<1> SUFFICES ASSUME DataInv, RefInv, SyncWALFail PROVE RefInv'
  OBVIOUS
<1> DEFINE rd == ShadowWALReader(pos)
<1>1. /\ mpc = "syncwal" /\ ~IsEOF(rd) /\ mpc' = "idle"
      /\ UNCHANGED <<dbGen, dbIdx, shadow, snap, pos, rpc, rpos>>
  BY Zenon DEF SyncWALFail, dbVars, retVars
<1>2. PICK k \in rd.off..rd.end :
        wal' = [wal EXCEPT ![rd.gen][rd.idx] = Written(@, rd.off, k)]
  BY Zenon DEF SyncWALFail
<1>3. pos.gen \in Gen
  BY <1>1 DEF DataInv
<1>4. /\ rd.gen \in Gen /\ rd.idx \in Idx
      /\ rd.off \in Off /\ rd.end \in Off
      /\ shadow[rd.gen][rd.idx] = rd.end
  BY <1>1, <1>3, ReaderInShadow
<1>5. k \in Off /\ k <= shadow[rd.gen][rd.idx]
  BY <1>4
<1>6. WALInv'
  BY <1>1, <1>2, <1>4, <1>5, WriteKeepsWALInv DEF RefInv
<1>7. QED
  BY <1>1, <1>6 DEF RefInv, DBPosInv, SnapInv, PosInv, LocalsInv

-----------------------------------------------------------------------------
(* RefInv is an inductive invariant of Replica.                            *)

LEMMA StutterRefInv == RefInv /\ UNCHANGED vars => RefInv'
BY DEF RefInv, DBPosInv, WALInv, SnapInv, PosInv, LocalsInv, vars, dbVars,
       dstVars, monVars, retVars, envVars

LEMMA NextRefInv == TypeInv /\ RefInv /\ [Next]_vars => RefInv'
<1> SUFFICES ASSUME TypeInv, RefInv, [Next]_vars PROVE RefInv'
  OBVIOUS
<1>1. DataInv
  BY TypeInvParts
<1>2. CASE DBWrite \/ DBCheckpoint \/ DBNewGeneration
  BY <1>1, <1>2, DBWriteRefInv, DBCheckpointRefInv, DBNewGenerationRefInv
<1>3. CASE Tick \/ SyncWALEOF \/ SyncCompress \/ SyncFail \/ RetainGenerations
           \/ RetainDone \/ RetainFail
  BY <1>1, <1>3, QuietStepsRefInv
<1>4. CASE SyncBegin \/ SyncCalcPos \/ SyncWAL \/ SyncWALFail
  BY <1>1, <1>4, SyncBeginRefInv, SyncCalcPosRefInv, SyncWALRefInv,
     SyncWALFailRefInv
<1>5. CASE RetainStart \/ RetainSnapshot \/ RetainPrune \/ Crash
  BY <1>1, <1>5, RetainStartRefInv, RetainSnapshotRefInv, RetainPruneRefInv,
     CrashRefInv
<1>6. CASE UNCHANGED vars
  BY <1>6, StutterRefInv
<1>7. QED
  BY <1>2, <1>3, <1>4, <1>5, <1>6 DEF Next, Database, Monitor, Retainer

-----------------------------------------------------------------------------
(* Every step of Replica is a step of ReplicaAbstract under the mapping    *)
(* lastPos <- pos, or leaves the mapped variables alone.                  *)

\* The steps that touch neither the database nor r.pos.
LEMMA AbsStutterSteps ==
    Tick \/ SyncBegin \/ SyncWALEOF \/ SyncCompress \/ SyncFail \/ SyncWALFail
    \/ RetainStart \/ RetainSnapshot \/ RetainGenerations \/ RetainPrune
    \/ RetainDone \/ RetainFail
    => UNCHANGED Abstract!absVars
<1>1. SyncBegin => UNCHANGED Abstract!absVars
  <2>1. SyncBegin /\ dbGen = NoGen => UNCHANGED pos
    BY Zenon DEF SyncBegin
  <2>2. SyncBegin /\ dbGen # NoGen => UNCHANGED pos
    BY Zenon DEF SyncBegin
  <2>3. SyncBegin => UNCHANGED <<dbGen, dbIdx, shadow>>
    BY Zenon DEF SyncBegin
  <2>4. QED
    BY <2>1, <2>2, <2>3 DEF Abstract!absVars
<1>2. RetainPrune => UNCHANGED Abstract!absVars
  BY Zenon DEF RetainPrune, PruneGeneration, dbVars, monVars,
               Abstract!absVars
<1>3. Tick \/ SyncWALEOF \/ SyncCompress \/ SyncFail \/ SyncWALFail
      \/ RetainStart \/ RetainSnapshot \/ RetainGenerations \/ RetainDone
      \/ RetainFail
      => UNCHANGED Abstract!absVars
  BY Zenon DEF Tick, SyncWALEOF, SyncCompress, SyncFail, SyncWALFail,
               RetainStart, RetainSnapshot, RetainGenerations, RetainDone,
               RetainFail, dbVars, monVars, Abstract!absVars
<1>4. QED
  BY <1>1, <1>2, <1>3

\* A database step is DBChange: its shadow files grow and DB.Pos() names one.
LEMMA AbsDBStep ==
    ASSUME DataInv, RefInv, DataInv', RefInv',
           DBWrite \/ DBCheckpoint \/ DBNewGeneration
    PROVE  Abstract!DBChange
<1>1. Grows
  BY DBWriteRefInv, DBCheckpointRefInv, DBNewGenerationRefInv
<1>2. dbGen' # NoGen /\ UNCHANGED pos
  BY Zenon DEF DBWrite, DBCheckpoint, DBNewGeneration, monVars
<1>3. dbGen' \in Gen
  <2>1. dbGen' \in Gen \cup {NoGen}
    BY DEF DataInv
  <2>2. QED
    BY <1>2, <2>1, Zenon
<1>4. shadow'[dbGen'][dbIdx'] # NoShadow
  BY <1>2 DEF RefInv, DBPosInv
<1>5. QED
  BY <1>1, <1>2, <1>3, <1>4
  DEF Abstract!DBChange, DataInv, Grows, Abstract!Idx, Abstract!Off,
      Abstract!NoShadow

\* syncWAL publishes where the reader stopped: Replicate.
LEMMA AbsSyncWALStep ==
    ASSUME DataInv, RefInv, DataInv', RefInv', SyncWAL
    PROVE  Abstract!Replicate
<1> DEFINE rd == ShadowWALReader(pos)
<1>1. /\ mpc = "syncwal" /\ ~IsEOF(rd)
      /\ pos' = [gen |-> rd.gen, idx |-> rd.idx, off |-> rd.end]
      /\ UNCHANGED <<dbGen, dbIdx, shadow>>
  BY Zenon DEF SyncWAL, dbVars
<1>2. pos.gen \in Gen
  BY <1>1 DEF DataInv
<1>3. \/ /\ rd.gen = pos.gen
         /\ \/ rd.idx > pos.idx
            \/ rd.idx = pos.idx /\ rd.end >= pos.off
      \/ rd.gen = dbGen /\ rd.gen # pos.gen
  BY <1>1, <1>2, ReaderInShadow
<1>4. Abstract!NotBefore(pos', pos) \/ (pos'.gen = dbGen /\ pos'.gen # pos.gen)
  BY <1>1, <1>3 DEF Abstract!NotBefore
<1>5. pos' \in PosType /\ Abstract!InShadow(pos')
  BY <1>1 DEF DataInv, RefInv, PosInv, Abstract!InShadow, Abstract!ZeroPos,
         Abstract!NoShadow
<1>6. QED
  BY <1>1, <1>4, <1>5 DEF Abstract!Replicate, Abstract!PosType, Abstract!Idx,
                          Abstract!Off

\* CalcPos runs only with r.pos zero, so whatever it finds is a Replicate.
LEMMA AbsSyncCalcPosStep ==
    ASSUME DataInv, RefInv, DataInv', RefInv', SyncCalcPos
    PROVE  Abstract!Replicate
<1>1. mpc = "calcpos" /\ UNCHANGED <<dbGen, dbIdx, shadow>>
  BY Zenon DEF SyncCalcPos, dbVars
<1>2. pos = ZeroPos
  BY <1>1 DEF RefInv, LocalsInv
<1>3. pos' \in PosType /\ Abstract!InShadow(pos')
  BY <1>1 DEF DataInv, RefInv, PosInv, Abstract!InShadow, Abstract!ZeroPos,
         Abstract!NoShadow
<1>4. QED
  BY <1>1, <1>2, <1>3 DEF Abstract!Replicate, Abstract!PosType, Abstract!Idx,
                          Abstract!Off, Abstract!ZeroPos

\* A restart is Restart.
LEMMA AbsCrashStep == Crash => Abstract!Restart
BY Zenon DEF Crash, Abstract!Restart, Abstract!ZeroPos

LEMMA AbsNextStep ==
    TypeInv /\ RefInv /\ [Next]_vars => [Abstract!Next]_Abstract!absVars
<1> SUFFICES ASSUME TypeInv, RefInv, [Next]_vars
             PROVE  [Abstract!Next]_Abstract!absVars
  OBVIOUS
<1>1. DataInv /\ TypeInv'
  BY NextTypeInv, TypeInvParts
<1>9. RefInv'
  BY NextRefInv
<1>10. DataInv'
  <2>1. TypeInv' => DataInv'
    BY TypeInvParts, PTL
  <2>2. QED
    BY <1>1, <2>1
<1>2. CASE DBWrite \/ DBCheckpoint \/ DBNewGeneration
  BY <1>1, <1>9, <1>10, <1>2, AbsDBStep DEF Abstract!Next
<1>3. CASE SyncWAL
  BY <1>1, <1>9, <1>10, <1>3, AbsSyncWALStep DEF Abstract!Next
<1>4. CASE SyncCalcPos
  BY <1>1, <1>9, <1>10, <1>4, AbsSyncCalcPosStep DEF Abstract!Next
<1>5. CASE Crash
  BY <1>5, AbsCrashStep DEF Abstract!Next
<1>6. CASE Tick \/ SyncBegin \/ SyncWALEOF \/ SyncCompress \/ SyncFail
           \/ SyncWALFail \/ RetainStart \/ RetainSnapshot
           \/ RetainGenerations \/ RetainPrune \/ RetainDone \/ RetainFail
  BY <1>6, AbsStutterSteps
<1>7. CASE UNCHANGED vars
  BY <1>7 DEF vars, dbVars, monVars, Abstract!absVars
<1>8. QED
  BY <1>2, <1>3, <1>4, <1>5, <1>6, <1>7 DEF Next, Database, Monitor, Retainer

(* Replica implements ReplicaAbstract (the property RefinesAbstract): in  *)
(* every behaviour of the monitor and retainer goroutines, with failures *)
(* and restarts, LastPos() never names a byte the database's shadow WAL  *)
(* does not hold, moves back within a generation only to zero on a       *)
(* restart, and the database's shadow files only grow.                   *)
THEOREM Implements == Spec => RefinesAbstract
<1>1. Init => Abstract!Init
  BY DEF Init, Abstract!Init, Abstract!ZeroPos, Abstract!Idx,
         Abstract!NoShadow
<1>2. QED
  BY <1>1, InitTypeInv, InitRefInv, NextTypeInv, NextRefInv, AbsNextStep,
     PTL DEF Spec, RefinesAbstract, Abstract!Spec

=============================================================================
