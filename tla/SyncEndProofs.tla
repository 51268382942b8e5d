---------------------------- MODULE SyncEndProofs ----------------------------
(***************************************************************************)
(* Proof of SyncEndsAtWALEnd (spec.md 8, invariant 1) when Sync and        *)
(* EnforceRetention are called by the caller (MonitorEnabled off) and the  *)
(* database has a single generation.  With the goroutines interleaved,     *)
(* EnforceRetention may prune the WAL file r.pos names between syncWAL's   *)
(* io.EOF and Sync's return; with two generations it may RemoveAll the    *)
(* current one under r.pos.  TLC finds both.                              *)
(*                                                                         *)
(* SyncEndsAtWALEnd is a property of the SyncCompress step, but what makes *)
(* it hold is established when syncWAL reports io.EOF: r.pos is then at    *)
(* the end of the database's last shadow file, so no WAL file lies above  *)
(* it, and the WAL file at r.pos was written up to r.pos by the last      *)
(* syncWAL or measured by CalcPos.  That file survives until Sync returns *)
(* only because retention does not run meanwhile, and survives between     *)
(* Syncs only while r.pos is at DB.Pos(): retention prunes below a kept   *)
(* snapshot, and every snapshot is at or below DB.Pos().                  *)
(***************************************************************************)
EXTENDS RestorableProofs

\* Generation g's shadow WAL files are exactly those of indexes 0..dbIdx.
ShadowShape(g) ==
    \A i \in Idx : shadow[g][i] # NoShadow <=> (dbGen = g /\ i <= dbIdx)

\* Sync and EnforceRetention, called by the caller, never overlap.
Exclusive == mpc = "idle" \/ rpc = "idle"

\* The WAL file at r.pos holds r.pos's bytes, unless r.pos lags DB.Pos()
\* or CalcPos found no WAL file (and syncWAL has written none since).
PosFile(g) ==
    pos # ZeroPos =>
        \/ pos.idx < dbIdx
        \/ wal[g][pos.idx] # NoWAL /\ wal[g][pos.idx].size >= pos.off
        \/ pos.off = 0 /\ WALIndexes(g) = {}

EndInv(g) ==
    /\ ShadowShape(g)
    /\ Exclusive
    /\ PosFile(g)
    /\ mpc = "compress" => PosAtWALEnd

-----------------------------------------------------------------------------

USE ConstantsAssumption
USE DEF Idx, Off, Time, Bytes, NoShadow, NoSnap, NoWAL, WALFile, PosType,
        ZeroPos

\* The maximum of a set of integers is the element no other exceeds.
LEMMA MaxOfIs ==
    ASSUME NEW S \in SUBSET Int, NEW m \in S, \A x \in S : x <= m
    PROVE  MaxOf(S) = m
<1> DEFINE c == MaxOf(S)
<1>1. IsMaxOf(m, S)
  BY DEF IsMaxOf
<1>2. IsMaxOf(c, S)
  BY <1>1 DEF MaxOf
<1>3. c \in S /\ m <= c /\ c <= m
  BY <1>2 DEF IsMaxOf
<1>4. c \in Int
  BY <1>3
<1>5. QED
  BY <1>3, <1>4

\* Under ShadowShape, a non-zero r.pos is in the database's generation at
\* or below DB.Pos().
LEMMA PosBelowDB ==
    ASSUME NEW g \in Gen, Gen = {g}, DataInv, RefInv, ShadowShape(g),
           pos # ZeroPos
    PROVE  pos.gen = g /\ dbGen = g /\ pos.idx \in Idx /\ pos.idx <= dbIdx
<1>1. pos.gen = g /\ shadow[g][pos.idx] # NoShadow /\ pos.idx \in Idx
  BY DEF RefInv, PosInv, DataInv
<1>2. QED
  BY <1>1 DEF ShadowShape

\* syncWAL's write leaves a file at least as long as where it stopped and
\* as the file was.
LEMMA WrittenSize ==
    ASSUME NEW f \in {NoWAL} \cup WALFile, NEW a \in Int, NEW e \in Nat
    PROVE  /\ Written(f, a, e) # NoWAL
           /\ Written(f, a, e).size \in Int
           /\ Written(f, a, e).size >= e
           /\ f # NoWAL => Written(f, a, e).size >= f.size
BY DEF Written

\* PosAtWALEnd reads only r.pos and the WAL files; PosFile also DB.Pos()'s
\* index, ShadowShape only the database.
LEMMA EndAbove ==
    ASSUME NEW g \in Gen, UNCHANGED <<pos, wal>>
    PROVE  /\ PosAtWALEnd' = PosAtWALEnd
           /\ UNCHANGED dbIdx => PosFile(g)' = PosFile(g)
BY DEF PosFile, PosAtWALEnd, WALIndexes, MaxOf, IsMaxOf

LEMMA ShapeAbove ==
    ASSUME NEW g \in Gen, UNCHANGED <<dbGen, dbIdx, shadow>>
    PROVE  ShadowShape(g)' = ShadowShape(g)
BY DEF ShadowShape

-----------------------------------------------------------------------------
(* EndInv is kept by every step, when Gen = {g} and MonitorEnabled is off. *)

\* The steps that change no WAL file, r.pos or the database.  Sync's first
\* step runs only while EnforceRetention is idle and EnforceRetention's
\* only while Sync is.
LEMMA QuietEndInv ==
    ASSUME NEW g \in Gen, ~MonitorEnabled, EndInv(g),
           Tick \/ SyncBegin \/ SyncCompress \/ SyncFail \/ RetainStart
           \/ RetainSnapshot \/ RetainGenerations \/ RetainDone \/ RetainFail
    PROVE  EndInv(g)'
<1>1. UNCHANGED <<dbGen, dbIdx, shadow, pos, wal>>
  BY Zenon DEF Tick, SyncBegin, SyncCompress, SyncFail, RetainStart,
               RetainSnapshot, RetainGenerations, RetainDone, RetainFail,
               dbVars, dstVars, monVars
<1>2. Exclusive' /\ (mpc' = "compress" => mpc = "compress")
  <2>1. CASE Tick
    BY <2>1, Zenon DEF Tick, monVars, EndInv, Exclusive
  <2>2. CASE SyncBegin
    BY <2>2, Zenon DEF SyncBegin, SyncCallable, retVars, Exclusive
  <2>3. CASE SyncCompress \/ SyncFail
    BY <2>3, Zenon DEF SyncCompress, SyncFail, Exclusive
  <2>4. CASE RetainStart
    BY <2>4, Zenon DEF RetainStart, monVars, Exclusive
  <2>5. CASE RetainSnapshot \/ RetainGenerations \/ RetainDone
    BY <2>5, Zenon DEF RetainSnapshot, RetainGenerations, RetainDone,
                       monVars, EndInv, Exclusive
  <2>6. CASE RetainFail
    BY <2>6, Zenon DEF RetainFail, monVars, Exclusive
  <2>7. QED
    BY <2>1, <2>2, <2>3, <2>4, <2>5, <2>6
<1>3. QED
  BY <1>1, <1>2, EndAbove, ShapeAbove DEF EndInv

\* The database's steps leave the monitor and the retainer alone; a
\* checkpoint moves DB.Pos() past r.pos.
LEMMA DBEndInv ==
    ASSUME NEW g \in Gen, Gen = {g}, DataInv, RefInv, EndInv(g),
           DBWrite \/ DBCheckpoint \/ DBNewGeneration
    PROVE  EndInv(g)'
<1>1. UNCHANGED <<pos, wal, mpc, rpc>>
  BY Zenon DEF DBWrite, DBCheckpoint, DBNewGeneration, dstVars, monVars,
               retVars
<1>2. Exclusive' /\ (mpc = "compress" => PosAtWALEnd)'
  BY <1>1, EndAbove DEF EndInv, Exclusive
<1>3. CASE DBWrite
  <2>1. /\ dbGen # NoGen
        /\ shadow' = [shadow EXCEPT ![dbGen][dbIdx] = @ + 1]
        /\ UNCHANGED <<dbGen, dbIdx>>
    BY <1>3, Zenon DEF DBWrite
  <2>2. dbGen = g /\ shadow[g][dbIdx] # NoShadow
    BY <2>1 DEF DataInv, EndInv, ShadowShape
  <2>3. ShadowShape(g)'
    BY <2>1, <2>2 DEF DataInv, EndInv, ShadowShape
  <2>4. PosFile(g)'
    BY <1>1, <2>1, EndAbove DEF EndInv
  <2>5. QED
    BY <1>2, <2>3, <2>4 DEF EndInv
<1>4. CASE DBCheckpoint
  <2>1. /\ dbGen # NoGen /\ dbIdx < MaxIndex /\ dbIdx' = dbIdx + 1
        /\ shadow' = [shadow EXCEPT ![dbGen][dbIdx + 1] = 0]
        /\ UNCHANGED dbGen
    BY <1>4, Zenon DEF DBCheckpoint
  <2>2. dbGen = g /\ dbIdx \in Idx
    BY <2>1 DEF DataInv
  <2>3. ShadowShape(g)'
    BY <2>1, <2>2 DEF DataInv, EndInv, ShadowShape
  <2>4. pos # ZeroPos => pos.idx < dbIdx'
    BY <2>1, <2>2, PosBelowDB DEF EndInv
  <2>5. PosFile(g)'
    BY <1>1, <2>4 DEF PosFile
  <2>6. QED
    BY <1>2, <2>3, <2>5 DEF EndInv
<1>5. CASE DBNewGeneration
  <2>1. /\ \A i \in Idx : shadow[g][i] = NoShadow
        /\ dbGen' = g /\ dbIdx' = 0
        /\ shadow' = [shadow EXCEPT ![g][0] = 0]
    BY <1>5, Zenon DEF DBNewGeneration
  <2>2. pos = ZeroPos
    BY <2>1 DEF RefInv, PosInv, DataInv
  <2>3. ShadowShape(g)'
    BY <2>1 DEF DataInv, ShadowShape
  <2>4. PosFile(g)'
    BY <1>1, <2>2 DEF PosFile
  <2>5. QED
    BY <1>2, <2>3, <2>4 DEF EndInv
<1>6. QED
  BY <1>3, <1>4, <1>5

\* A restart forgets r.pos and stops both goroutines.
LEMMA CrashEndInv ==
    ASSUME NEW g \in Gen, EndInv(g), Crash
    PROVE  EndInv(g)'
<1>1. /\ UNCHANGED <<dbGen, dbIdx, shadow>>
      /\ pos' = ZeroPos /\ mpc' = "idle" /\ rpc' = "idle"
  BY Zenon DEF Crash
<1>2. QED
  BY <1>1, ShapeAbove DEF EndInv, Exclusive, PosFile

\* CalcPos lands at the end of the highest WAL file, or at offset 0 of the
\* highest snapshot when there is no WAL file.
LEMMA SyncCalcPosEndInv ==
    ASSUME NEW g \in Gen, Gen = {g}, DataInv, RefInv, EndInv(g), SyncCalcPos
    PROVE  EndInv(g)'
<1>1. /\ mpc = "calcpos" /\ mpc' \in {"idle", "syncwal"}
      /\ UNCHANGED <<dbGen, dbIdx, shadow, wal, rpc>>
  BY Zenon DEF SyncCalcPos, dbVars, dstVars, retVars
<1>2. mgen = g /\ pos = ZeroPos
  BY <1>1 DEF DataInv, RefInv, LocalsInv
<1>3. Exclusive' /\ ShadowShape(g)'
  BY <1>1, ShapeAbove DEF EndInv, Exclusive
<1>4. CASE SnapIndexes(mgen) = {}
  <2>1. UNCHANGED pos
    BY <1>4, Zenon DEF SyncCalcPos
  <2>2. QED
    BY <1>1, <1>2, <1>3, <2>1 DEF EndInv, PosFile
<1>5. CASE SnapIndexes(mgen) # {}
  <2>1. PICK m \in Idx :
          IF WALIndexes(mgen) = {}
            THEN /\ IsMaxOf(m, SnapIndexes(mgen))
                 /\ pos' = [gen |-> mgen, idx |-> m, off |-> 0]
            ELSE /\ IsMaxOf(m, WALIndexes(mgen))
                 /\ pos' = [gen |-> mgen, idx |-> m,
                            off |-> wal[mgen][m].size]
    BY <1>5, Zenon DEF SyncCalcPos
  <2>2. CASE WALIndexes(g) = {}
    <3>1. pos' = [gen |-> g, idx |-> m, off |-> 0]
      BY <1>2, <2>1, <2>2
    <3>2. WALIndexes(g)' = {}
      BY <1>1, <2>2 DEF WALIndexes
    <3>3. QED
      BY <1>1, <1>3, <3>1, <3>2 DEF EndInv, PosFile
  <2>3. CASE WALIndexes(g) # {}
    <3>1. m \in WALIndexes(g)
          /\ pos' = [gen |-> g, idx |-> m, off |-> wal[g][m].size]
      BY <1>2, <2>1, <2>3 DEF IsMaxOf
    <3>2. wal[g][m] # NoWAL /\ wal[g][m].size \in Int
      BY <3>1 DEF WALIndexes, DataInv
    <3>3. QED
      BY <1>1, <1>3, <3>1, <3>2 DEF EndInv, PosFile
  <2>4. QED
    BY <2>2, <2>3
<1>6. QED
  BY <1>4, <1>5

\* syncWAL writes the reader's range and moves r.pos to its end: the file
\* at r.pos is then at least that long.
LEMMA SyncWALEndInv ==
    ASSUME NEW g \in Gen, Gen = {g}, DataInv, RefInv, EndInv(g), SyncWAL
    PROVE  EndInv(g)'
<1> DEFINE rd == ShadowWALReader(pos)
<1>1. /\ mpc = "syncwal" /\ ~IsEOF(rd)
      /\ wal' = [wal EXCEPT ![rd.gen][rd.idx] = Written(@, rd.off, rd.end)]
      /\ pos' = [gen |-> rd.gen, idx |-> rd.idx, off |-> rd.end]
      /\ UNCHANGED <<dbGen, dbIdx, shadow, mpc, rpc>>
  BY Zenon DEF SyncWAL, dbVars, retVars
<1>2. pos.gen = g
  BY <1>1 DEF DataInv
<1>3. rd.gen = g /\ rd.idx \in Idx /\ rd.off \in Off /\ rd.end \in Off
  BY <1>1, <1>2, ReaderInShadow
<1>4. /\ wal'[g][rd.idx] = Written(wal[g][rd.idx], rd.off, rd.end)
      /\ wal[g][rd.idx] \in {NoWAL} \cup WALFile
  BY <1>1, <1>3 DEF DataInv
<1>5. wal'[g][rd.idx] # NoWAL /\ wal'[g][rd.idx].size >= rd.end
  BY <1>3, <1>4, WrittenSize
<1>6. PosFile(g)'
  BY <1>1, <1>3, <1>5 DEF PosFile
<1>7. QED
  BY <1>1, <1>6, ShapeAbove DEF EndInv, Exclusive

\* A syncWAL that fails part-way: r.pos stays and its file only grows; a
\* write into the next file means r.pos lags DB.Pos().
LEMMA SyncWALFailEndInv ==
    ASSUME NEW g \in Gen, Gen = {g}, DataInv, RefInv, EndInv(g), SyncWALFail
    PROVE  EndInv(g)'
<1> DEFINE rd == ShadowWALReader(pos)
<1>1. /\ mpc = "syncwal" /\ ~IsEOF(rd) /\ mpc' = "idle"
      /\ UNCHANGED <<dbGen, dbIdx, shadow, pos>>
  BY Zenon DEF SyncWALFail, dbVars
<1>2. PICK k \in rd.off..rd.end :
        wal' = [wal EXCEPT ![rd.gen][rd.idx] = Written(@, rd.off, k)]
  BY Zenon DEF SyncWALFail
<1>3. pos.gen = g /\ pos # ZeroPos
  BY <1>1 DEF DataInv
<1>4. /\ rd.gen \in Gen /\ rd.idx \in Idx
      /\ rd.off \in Off /\ rd.end \in Off /\ rd.off <= rd.end
  BY <1>1, <1>3, ReaderInShadow
<1>5. /\ rd.gen = g
      /\ \/ rd.idx = pos.idx /\ rd.off = pos.off
         \/ rd.idx = pos.idx + 1 /\ shadow[g][pos.idx + 1] # NoShadow
  BY <1>1, <1>3, ReaderOneGen
<1>6. /\ wal'[g][rd.idx] = Written(wal[g][rd.idx], rd.off, k)
      /\ wal[g][rd.idx] \in {NoWAL} \cup WALFile
      /\ \A j \in Idx : j # rd.idx => wal'[g][j] = wal[g][j]
      /\ k \in Nat /\ k >= rd.off
  BY <1>2, <1>4, <1>5 DEF DataInv
<1>7. /\ wal'[g][rd.idx] # NoWAL /\ wal'[g][rd.idx].size \in Int
      /\ wal'[g][rd.idx].size >= k
  <2>1. /\ Written(wal[g][rd.idx], rd.off, k) # NoWAL
        /\ Written(wal[g][rd.idx], rd.off, k).size \in Int
        /\ Written(wal[g][rd.idx], rd.off, k).size >= k
    BY <1>4, <1>6, WrittenSize
  <2>2. QED
    BY <1>6, <2>1
<1>8. PosFile(g)'
  <2>1. CASE rd.idx = pos.idx
    <3>1. pos.off \in Int /\ pos.idx \in Idx
      BY <1>3 DEF DataInv
    <3>2. rd.off = pos.off
      BY <1>5, <2>1, <3>1
    <3>3. wal'[g][pos.idx] = wal'[g][rd.idx]
      BY <2>1
    <3>4. k >= pos.off
      BY <1>6, <3>1, <3>2
    <3>5. wal'[g][pos.idx] # NoWAL /\ wal'[g][pos.idx].size >= pos.off
      BY <1>6, <1>7, <3>1, <3>3, <3>4
    <3>6. QED
      BY <1>1, <3>5 DEF PosFile
  <2>2. CASE rd.idx = pos.idx + 1
    <3>1. pos.idx < dbIdx
      BY <1>4, <1>5, <2>2 DEF EndInv, ShadowShape, DataInv
    <3>2. QED
      BY <1>1, <3>1 DEF PosFile
  <2>3. QED
    BY <1>5, <2>1, <2>2
<1>9. QED
  BY <1>1, <1>8, ShapeAbove DEF EndInv, Exclusive

\* A turn of the prune loop runs while Sync is idle, and removes no file
\* at or above the earliest retained snapshot, which is at or below
\* DB.Pos().
LEMMA RetainPruneEndInv ==
    ASSUME NEW g \in Gen, Gen = {g}, DataInv, RefInv, RestInv(g), EndInv(g),
           RetainPrune
    PROVE  EndInv(g)'
<1>1. PICK h \in rgens : PruneGeneration(h)
  BY DEF RetainPrune
<1>2. h = g
  BY DEF DataInv
<1>3. /\ rpc = "prune"
      /\ UNCHANGED <<dbGen, dbIdx, shadow, pos, mpc, rpc>>
  BY <1>1, Zenon DEF PruneGeneration, dbVars, monVars
<1>4. mpc = "idle"
  BY <1>3 DEF EndInv, Exclusive
<1>5. KeptIndexes(g) # {} /\ KeptIndexes(g) \subseteq SnapIndexes(g)
  BY <1>3 DEF RestInv
<1>6. wal' = [wal EXCEPT ![g] =
                [i \in Idx |-> IF BelowKept(g, i) THEN NoWAL ELSE @[i]]]
  BY <1>1, <1>2, <1>5, Zenon DEF PruneGeneration
<1>7. /\ \A i \in Idx : wal'[g][i] = NoWAL \/ wal'[g][i] = wal[g][i]
      /\ \A i \in Idx : ~BelowKept(g, i) => wal'[g][i] = wal[g][i]
  BY <1>6 DEF DataInv
<1>8. PosFile(g)'
  <2> SUFFICES ASSUME pos # ZeroPos PROVE PosFile(g)'
    BY <1>3 DEF PosFile
  <2>1. dbGen = g /\ pos.idx \in Idx /\ pos.idx <= dbIdx /\ dbIdx \in Idx
    BY PosBelowDB DEF EndInv, DataInv
  <2>2. CASE pos.idx < dbIdx
    BY <1>3, <2>2 DEF PosFile
  <2>3. CASE pos.idx = dbIdx
    <3>1. PICK kp \in KeptIndexes(g) : TRUE
      BY <1>5
    <3>2. kp <= dbIdx /\ kp \in Idx
      BY <1>5, <2>1, BelowDB DEF KeptIndexes
    <3>3. ~BelowKept(g, pos.idx)
      BY <2>1, <2>3, <3>1, <3>2 DEF BelowKept
    <3>4. wal'[g][pos.idx] = wal[g][pos.idx]
      BY <1>7, <2>1, <3>3
    <3>5. WALIndexes(g)' \subseteq WALIndexes(g)
      BY <1>7 DEF WALIndexes
    <3>6. QED
      BY <1>3, <3>4, <3>5 DEF EndInv, PosFile
  <2>4. QED
    BY <2>1, <2>2, <2>3
<1>9. QED
  BY <1>3, <1>4, <1>8, ShapeAbove DEF EndInv, Exclusive

\* syncWAL reports io.EOF only when r.pos is at the end of the last shadow
\* file, that is at DB.Pos(); the WAL file there then ends at r.pos and no
\* WAL file lies above it.
LEMMA SyncWALEOFEndInv ==
    ASSUME NEW g \in Gen, Gen = {g}, DataInv, RefInv, EndInv(g), SyncWALEOF
    PROVE  EndInv(g)'
<1>1. /\ mpc = "syncwal" /\ IsEOF(ShadowWALReader(pos)) /\ mpc' = "compress"
      /\ UNCHANGED <<dbGen, dbIdx, shadow, pos, wal, rpc>>
  BY Zenon DEF SyncWALEOF, dbVars, dstVars, retVars
<1>2. pos.gen = g /\ pos # ZeroPos
  BY <1>1 DEF DataInv
<1>3. dbGen = g /\ pos.idx \in Idx /\ pos.idx <= dbIdx /\ dbIdx \in Idx
      /\ pos.off \in Off
  BY <1>2, PosBelowDB DEF EndInv, DataInv
<1>4. /\ shadow[g][pos.idx] <= pos.off
      /\ ~(pos.idx < MaxIndex /\ shadow[g][pos.idx + 1] # NoShadow)
  <2>1. shadow[g][pos.idx] \in {NoShadow} \cup Off
    BY <1>3 DEF DataInv
  <2>2. QED
    BY <1>1, <1>2, <1>3, <2>1 DEF ShadowWALReader, IsEOF
<1>5. pos.idx = dbIdx
  <2>1. SUFFICES ASSUME pos.idx < dbIdx PROVE FALSE
    BY <1>3
  <2>2. pos.idx + 1 \in Idx /\ pos.idx < MaxIndex
    BY <1>3, <2>1
  <2>3. shadow[g][pos.idx + 1] # NoShadow
    BY <1>3, <2>1, <2>2 DEF EndInv, ShadowShape
  <2>4. QED
    BY <1>4, <2>2, <2>3
<1>6. pos.off = shadow[g][pos.idx]
  <2>1. shadow[g][pos.idx] \in {NoShadow} \cup Off
    BY <1>3 DEF DataInv
  <2>2. QED
    BY <1>2, <1>3, <1>4, <2>1 DEF RefInv, PosInv
<1>7. \A k \in WALIndexes(g) : k <= pos.idx
  BY <1>3, <1>5 DEF WALIndexes, RefInv, WALInv, EndInv, ShadowShape
<1>8. PosAtWALEnd
  <2>1. CASE wal[g][pos.idx] # NoWAL /\ wal[g][pos.idx].size >= pos.off
    <3>1. wal[g][pos.idx].size = pos.off
      BY <1>3, <1>6, <2>1 DEF RefInv, WALInv, DataInv
    <3>2. pos.idx \in WALIndexes(g) /\ WALIndexes(g) \subseteq Int
      BY <1>3, <2>1 DEF WALIndexes
    <3>3. MaxOf(WALIndexes(g)) = pos.idx
      BY <1>7, <3>2, MaxOfIs
    <3>4. QED
      BY <1>2, <3>1, <3>2, <3>3 DEF PosAtWALEnd
  <2>2. CASE pos.off = 0 /\ WALIndexes(g) = {}
    BY <1>2, <2>2 DEF PosAtWALEnd
  <2>3. QED
    BY <1>2, <1>3, <1>5, <2>1, <2>2 DEF EndInv, PosFile
<1>9. QED
  BY <1>1, <1>8, EndAbove, ShapeAbove DEF EndInv, Exclusive

-----------------------------------------------------------------------------
(* EndInv is inductive, and it gives SyncEndsAtWALEnd.                     *)

LEMMA InitEndInv ==
    ASSUME NEW g \in Gen
    PROVE  Init => EndInv(g)
BY DEF Init, EndInv, ShadowShape, Exclusive, PosFile

LEMMA NextEndInv ==
    ASSUME NEW g \in Gen, Gen = {g}, ~MonitorEnabled
    PROVE  TypeInv /\ RefInv /\ RestInv(g) /\ EndInv(g) /\ [Next]_vars
             => EndInv(g)'
<1> SUFFICES ASSUME TypeInv, RefInv, RestInv(g), EndInv(g), [Next]_vars
             PROVE  EndInv(g)'
  OBVIOUS
<1>1. DataInv
  BY TypeInvParts
<1>2. CASE DBWrite \/ DBCheckpoint \/ DBNewGeneration
  BY <1>1, <1>2, DBEndInv
<1>3. CASE Tick \/ SyncBegin \/ SyncCompress \/ SyncFail \/ RetainStart
           \/ RetainSnapshot \/ RetainGenerations \/ RetainDone \/ RetainFail
  BY <1>3, QuietEndInv
<1>4. CASE SyncCalcPos
  BY <1>1, <1>4, SyncCalcPosEndInv
<1>5. CASE SyncWAL
  BY <1>1, <1>5, SyncWALEndInv
<1>6. CASE SyncWALEOF
  BY <1>1, <1>6, SyncWALEOFEndInv
<1>7. CASE SyncWALFail
  BY <1>1, <1>7, SyncWALFailEndInv
<1>8. CASE RetainPrune
  BY <1>1, <1>8, RetainPruneEndInv
<1>9. CASE Crash
  BY <1>9, CrashEndInv
<1>10. CASE UNCHANGED vars
  <2>1. UNCHANGED <<dbGen, dbIdx, shadow, pos, wal, mpc, rpc>>
    BY <1>10 DEF vars, dbVars, dstVars, monVars, retVars
  <2>2. QED
    BY <2>1, EndAbove, ShapeAbove DEF EndInv, Exclusive
<1>11. QED
  BY <1>2, <1>3, <1>4, <1>5, <1>6, <1>7, <1>8, <1>9, <1>10
  DEF Next, Database, Monitor, Retainer

\* The step that returns from Sync keeps r.pos and the WAL files.
LEMMA CompressStep ==
    ASSUME NEW g \in Gen, EndInv(g), [Next]_vars
    PROVE  [SyncCompress => PosAtWALEnd']_vars
<1>1. SUFFICES ASSUME SyncCompress PROVE PosAtWALEnd'
  OBVIOUS
<1>2. mpc = "compress" /\ UNCHANGED <<pos, wal>>
  BY <1>1, Zenon DEF SyncCompress, dstVars
<1>3. QED
  BY <1>2, EndAbove DEF EndInv

(* When Sync and EnforceRetention are called in turn by their caller and  *)
(* the database has one generation, a Sync that returns nil leaves         *)
(* LastPos() at the highest WAL index of its generation and at that        *)
(* file's size (SyncEndsAtWALEnd, spec.md 8 invariant 1), for every bound *)
(* and every number of failures and restarts: syncWAL reports io.EOF only  *)
(* at DB.Pos(), whose WAL file retention never prunes.                     *)
THEOREM SyncEndsAtWALEndOneGeneration ==
    ASSUME NEW g, Gen = {g}, ~MonitorEnabled
    PROVE  Spec => SyncEndsAtWALEnd
<1> DEFINE I == TypeInv /\ RefInv /\ RestInv(g) /\ EndInv(g)
<1>1. g \in Gen
  OBVIOUS
<1>2. Init => I
  BY <1>1, InitTypeInv, InitRefInv, InitRestInv, InitEndInv
<1>3. I /\ [Next]_vars => I'
  BY <1>1, NextTypeInv, NextRefInv, NextRestInv, NextEndInv
<1>4. I /\ [Next]_vars => [SyncCompress => PosAtWALEnd']_vars
  BY <1>1, CompressStep
<1>5. QED
  BY <1>2, <1>3, <1>4, PTL DEF Spec, SyncEndsAtWALEnd

=============================================================================
