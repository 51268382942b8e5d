--------------------------- MODULE RestorableProofs ---------------------------
(***************************************************************************)
(* Proof of RestorableLastPos when the database has a single generation.   *)
(* (With two, MCReplicaGenSwitch shows it fails.)                          *)
(*                                                                         *)
(* RestorableLastPos alone is not inductive.  Three positions must be      *)
(* "good" for the destination tree: from them on, every WAL file is a     *)
(* faithful prefix of its shadow file; every WAL file sealed below a WAL  *)
(* file or r.pos above them is whole; and r.pos, when above them, is      *)
(* covered by its WAL file.  They are the highest snapshot (the witness   *)
(* of RestorableLastPos), DB.Pos() (where Sync's first snapshot and      *)
(* EnforceRetention's forced one are taken), and the position             *)
(* EnforceRetention is about to snapshot when it is above every snapshot. *)
(* A WAL file with a hole can only lie below all three: it comes from a   *)
(* syncWAL that recreates a file retention pruned under r.pos.  The       *)
(* retainer's kept list must be non-empty and name existing snapshots,    *)
(* so that a prune keeps the highest snapshot and never removes the      *)
(* generation.                                                            *)
(***************************************************************************)
EXTENDS ReplicaRefinementProofs

\* WAL file k of g holds every byte below its size.
Faithful(g, k) ==
    wal[g][k] # NoWAL => 0..(wal[g][k].size - 1) \subseteq wal[g][k].data

\* Position x of generation g is good for the destination tree.
Good(g, x) ==
    /\ \A k \in Idx : k >= x => Faithful(g, k)
    /\ \A k, k2 \in Idx :
          /\ x <= k /\ k < k2
          /\ wal[g][k2] # NoWAL \/ (pos # ZeroPos /\ k2 = pos.idx)
          => Covers(g, k, shadow[g][k])
    /\ pos # ZeroPos /\ pos.idx >= x => Covers(g, pos.idx, pos.off)

\* s is the highest snapshot of g.
IsTop(g, s) == s \in SnapIndexes(g) /\ \A t \in SnapIndexes(g) : t <= s

RestInv(g) ==
    /\ SnapIndexes(g) # {} => \E s \in SnapIndexes(g) : IsTop(g, s) /\ Good(g, s)
    /\ dbGen = g => Good(g, dbIdx)
    /\ rpc = "snapshot" /\ (\A t \in SnapIndexes(g) : t < rpos.idx)
         => Good(g, rpos.idx)
    /\ rpc \in {"gens", "prune"} =>
         /\ KeptIndexes(g) # {}
         /\ KeptIndexes(g) \subseteq SnapIndexes(g)

-----------------------------------------------------------------------------

USE ConstantsAssumption
USE DEF Idx, Off, Time, Bytes, NoShadow, NoSnap, NoWAL, WALFile, PosType,
        ZeroPos

\* With one generation, every file, snapshot and r.pos lies at or below
\* DB.Pos().
LEMMA BelowDB ==
    ASSUME NEW g \in Gen, Gen = {g}, DataInv, RefInv, dbGen = g
    PROVE  /\ \A k \in Idx : wal[g][k] # NoWAL => k <= dbIdx
           /\ \A k \in SnapIndexes(g) : k <= dbIdx
           /\ pos # ZeroPos => pos.gen = g /\ pos.idx <= dbIdx
<1>1. \A k \in Idx : shadow[g][k] # NoShadow => k <= dbIdx
  BY DEF RefInv, DBPosInv, DataInv
<1>2. pos # ZeroPos => pos.gen = g /\ shadow[g][pos.idx] # NoShadow
  BY DEF RefInv, PosInv
<1>3. QED
  BY <1>1, <1>2 DEF RefInv, WALInv, SnapInv, SnapIndexes, DataInv

\* A step that leaves r.pos, the shadow WAL and every WAL file from x on
\* alone keeps x good.
LEMMA GoodAbove ==
    ASSUME NEW g \in Gen, NEW x \in Idx, DataInv, Good(g, x),
           UNCHANGED <<pos, shadow>>,
           \A k \in Idx : k >= x => wal'[g][k] = wal[g][k]
    PROVE  Good(g, x)'
<1>1. \A k \in Idx : k >= x => Faithful(g, k)'
  BY DEF Good, Faithful
<1>2. ASSUME NEW k \in Idx, NEW k2 \in Idx, x <= k, k < k2,
             wal'[g][k2] # NoWAL \/ (pos' # ZeroPos /\ k2 = pos'.idx)
      PROVE  Covers(g, k, shadow[g][k])'
  <2>1. wal'[g][k2] = wal[g][k2] /\ wal'[g][k] = wal[g][k]
    BY <1>2
  <2>2. Covers(g, k, shadow[g][k])
    BY <1>2, <2>1 DEF Good
  <2>3. QED
    BY <2>1, <2>2 DEF Covers
<1>3. (pos # ZeroPos /\ pos.idx >= x => Covers(g, pos.idx, pos.off))'
  <2>1. pos.idx \in Idx
    BY DEF DataInv
  <2>2. QED
    BY <2>1 DEF Good, Covers
<1>4. QED
  BY <1>1, <1>2, <1>3 DEF Good

\* A restart forgets r.pos, which only weakens what x being good says.
LEMMA GoodForget ==
    ASSUME NEW g \in Gen, NEW x \in Idx, Good(g, x),
           pos' = ZeroPos, UNCHANGED <<wal, shadow>>
    PROVE  Good(g, x)'
BY DEF Good, Faithful, Covers

\* A position with no WAL file and no r.pos at or past it is good.
LEMMA GoodFresh ==
    ASSUME NEW g \in Gen, NEW x \in Idx,
           \A k \in Idx : k >= x => wal'[g][k] = NoWAL,
           pos'.idx \in Idx, pos' # ZeroPos => pos'.idx < x
    PROVE  Good(g, x)'
<1>1. \A k \in Idx : k >= x => Faithful(g, k)'
  BY DEF Faithful
<1>2. ASSUME NEW k \in Idx, NEW k2 \in Idx, x <= k, k < k2
      PROVE  ~(wal'[g][k2] # NoWAL \/ (pos' # ZeroPos /\ k2 = pos'.idx))
  BY <1>2
<1>3. (pos # ZeroPos => ~(pos.idx >= x))'
  OBVIOUS
<1>4. QED
  BY <1>1, <1>2, <1>3 DEF Good

\* The database appends or checkpoints: only shadow files at or past
\* DB.Pos() change, and no WAL file or r.pos lies above it.
LEMMA GoodDBGrow ==
    ASSUME NEW g \in Gen, Gen = {g}, DataInv, RefInv, dbGen = g,
           NEW x \in Idx, Good(g, x), UNCHANGED <<wal, pos>>,
           \A k \in Idx : k < dbIdx => shadow'[g][k] = shadow[g][k]
    PROVE  Good(g, x)'
<1>1. \A k2 \in Idx : wal[g][k2] # NoWAL \/ (pos # ZeroPos /\ k2 = pos.idx)
                      => k2 <= dbIdx
  BY BelowDB
<1>2. \A k \in Idx : k >= x => Faithful(g, k)'
  BY DEF Good, Faithful
<1>3. ASSUME NEW k \in Idx, NEW k2 \in Idx, x <= k, k < k2,
             wal'[g][k2] # NoWAL \/ (pos' # ZeroPos /\ k2 = pos'.idx)
      PROVE  Covers(g, k, shadow[g][k])'
  <2>1. k2 <= dbIdx
    BY <1>1, <1>3
  <2>2. shadow'[g][k] = shadow[g][k]
    <3>1. dbIdx \in Idx
      BY DEF DataInv
    <3>2. QED
      BY <2>1, <1>3, <3>1
  <2>3. wal'[g][k2] # NoWAL \/ (pos' # ZeroPos /\ k2 = pos'.idx)
        => wal[g][k2] # NoWAL \/ (pos # ZeroPos /\ k2 = pos.idx)
    OBVIOUS
  <2>4. Covers(g, k, shadow[g][k])
    BY <1>3, <2>3 DEF Good
  <2>5. QED
    BY <2>2, <2>4 DEF Covers
<1>4. (pos # ZeroPos /\ pos.idx >= x => Covers(g, pos.idx, pos.off))'
  BY DEF Good, Covers
<1>5. QED
  BY <1>2, <1>3, <1>4 DEF Good

\* CalcPos with no WAL file puts r.pos at offset 0 of the highest snapshot,
\* which is not above a good position x.
LEMMA CalcPosSnapGood ==
    ASSUME NEW g \in Gen, NEW x \in Idx, Good(g, x), pos = ZeroPos,
           UNCHANGED <<wal, shadow>>, NEW m \in Idx, m <= x,
           pos' = [gen |-> g, idx |-> m, off |-> 0]
    PROVE  Good(g, x)'
<1>1. \A k \in Idx : k >= x => Faithful(g, k)'
  BY DEF Good, Faithful
<1>2. ASSUME NEW k \in Idx, NEW k2 \in Idx, x <= k, k < k2,
             wal'[g][k2] # NoWAL \/ (pos' # ZeroPos /\ k2 = pos'.idx)
      PROVE  Covers(g, k, shadow[g][k])'
  <2>1. wal[g][k2] # NoWAL
    BY <1>2
  <2>2. QED
    BY <1>2, <2>1 DEF Good, Covers
<1>3. (pos # ZeroPos /\ pos.idx >= x => Covers(g, pos.idx, pos.off))'
  BY DEF Covers
<1>4. QED
  BY <1>1, <1>2, <1>3 DEF Good

\* CalcPos otherwise puts r.pos at the end of the highest WAL file, whose
\* bytes are all there when it lies at or past a good position.
LEMMA CalcPosWALGood ==
    ASSUME NEW g \in Gen, NEW x \in Idx, Good(g, x), pos = ZeroPos,
           UNCHANGED <<wal, shadow>>, NEW m \in Idx, wal[g][m] # NoWAL,
           pos' = [gen |-> g, idx |-> m, off |-> wal[g][m].size]
    PROVE  Good(g, x)'
<1>1. \A k \in Idx : k >= x => Faithful(g, k)'
  BY DEF Good, Faithful
<1>2. ASSUME NEW k \in Idx, NEW k2 \in Idx, x <= k, k < k2,
             wal'[g][k2] # NoWAL \/ (pos' # ZeroPos /\ k2 = pos'.idx)
      PROVE  Covers(g, k, shadow[g][k])'
  <2>1. wal[g][k2] # NoWAL
    BY <1>2
  <2>2. QED
    BY <1>2, <2>1 DEF Good, Covers
<1>3. (pos # ZeroPos /\ pos.idx >= x => Covers(g, pos.idx, pos.off))'
  <2>1. m >= x => Faithful(g, m)
    BY DEF Good
  <2>2. QED
    BY <2>1 DEF Faithful, Covers
<1>4. QED
  BY <1>1, <1>2, <1>3 DEF Good

\* With one generation the shadow reader continues r.pos's file, or starts
\* the next index at offset 0 once r.pos is at the end of its file.
LEMMA ReaderOneGen ==
    ASSUME NEW g \in Gen, Gen = {g}, DataInv, pos.gen = g,
           ~IsEOF(ShadowWALReader(pos))
    PROVE  LET rd == ShadowWALReader(pos) IN
           \/ /\ shadow[g][pos.idx] > pos.off
              /\ rd = [gen |-> g, idx |-> pos.idx, off |-> pos.off,
                       end |-> shadow[g][pos.idx]]
           \/ /\ shadow[g][pos.idx] <= pos.off
              /\ pos.idx < MaxIndex /\ shadow[g][pos.idx + 1] # NoShadow
              /\ rd = [gen |-> g, idx |-> pos.idx + 1, off |-> 0,
                       end |-> shadow[g][pos.idx + 1]]
<1>1. shadow[g][pos.idx] \in {NoShadow} \cup Off /\ pos.off \in Off
      /\ pos.idx \in Idx
  BY DEF DataInv
<1>2. dbGen \in {g, NoGen}
  BY DEF DataInv
<1>3. QED
  BY <1>1, <1>2 DEF ShadowWALReader, IsEOF

\* The write of [a, e) that syncWAL makes into WAL file j of r.pos's
\* generation (r.pos's own file from r.pos, or the next one from 0 once
\* r.pos is at the end of its file), with r.pos staying or moving to
\* (j, e), keeps every good position good.
LEMMA WriteGood ==
    ASSUME NEW g \in Gen, DataInv, RefInv, pos.gen = g, NEW x \in Idx,
           Good(g, x), UNCHANGED shadow,
           NEW j \in Idx, NEW a \in Off, NEW e \in Off, a <= e,
           wal' = [wal EXCEPT ![g][j] = Written(@, a, e)],
           \/ j = pos.idx /\ a = pos.off
           \/ j = pos.idx + 1 /\ a = 0 /\ shadow[g][pos.idx] <= pos.off,
           pos' = pos \/ pos' = [gen |-> g, idx |-> j, off |-> e]
    PROVE  Good(g, x)'
<1> DEFINE old == wal[g][j]
           n   == Written(old, a, e)
           i   == pos.idx
<1>1. wal'[g][j] = n /\ \A k \in Idx : k # j => wal'[g][k] = wal[g][k]
  BY DEF DataInv
<1>2. old \in {NoWAL} \cup WALFile
  BY DEF DataInv
<1>3. /\ n # NoWAL
      /\ a..(e - 1) \subseteq n.data
      /\ old # NoWAL => old.data \subseteq n.data
      /\ n.size = e \/ (old # NoWAL /\ n.size = old.size)
  BY <1>2 DEF Written
<1>4. \A k \in Idx, c \in Int : Covers(g, k, c) => Covers(g, k, c)'
  BY <1>1, <1>3 DEF Covers
<1>5. /\ pos # ZeroPos /\ i \in Idx /\ pos.off \in Off
      /\ shadow[g][i] \in Off
  BY DEF DataInv, RefInv, PosInv
<1>6. x <= i => Covers(g, i, pos.off)
  BY <1>5 DEF Good
<1>7. j >= x => a = 0 \/ (old # NoWAL /\ 0..(a - 1) \subseteq old.data)
  BY <1>6 DEF Covers
<1>8. j >= x => 0..(e - 1) \subseteq n.data
  BY <1>3, <1>7
<1>9. \A k \in Idx : k >= x => Faithful(g, k)'
  <2> SUFFICES ASSUME NEW k \in Idx, k >= x PROVE Faithful(g, k)'
    OBVIOUS
  <2>1. CASE k # j
    BY <1>1, <2>1 DEF Good, Faithful
  <2>2. CASE k = j
    <3>1. old # NoWAL => 0..(old.size - 1) \subseteq old.data
      BY <2>2 DEF Good, Faithful
    <3>2. QED
      BY <1>1, <1>3, <1>8, <2>2, <3>1 DEF Faithful
  <2>3. QED
    BY <2>1, <2>2
<1>10. \A k \in Idx : x <= k /\ k < j => Covers(g, k, shadow[g][k])
  <2> SUFFICES ASSUME NEW k \in Idx, x <= k, k < j
               PROVE  Covers(g, k, shadow[g][k])
    OBVIOUS
  <2>1. CASE k < i
    BY <1>5, <2>1 DEF Good
  <2>2. CASE k = i
    <3>1. j = i + 1 /\ shadow[g][i] <= pos.off
      BY <2>2
    <3>2. QED
      BY <1>5, <1>6, <2>2, <3>1 DEF Covers
  <2>3. QED
    BY <1>5, <2>1, <2>2
<1>11. ASSUME NEW k \in Idx, NEW k2 \in Idx, x <= k, k < k2,
              wal'[g][k2] # NoWAL \/ (pos' # ZeroPos /\ k2 = pos'.idx)
       PROVE  Covers(g, k, shadow[g][k])'
  <2>1. Covers(g, k, shadow[g][k])
    <3>1. CASE k2 = j
      BY <1>10, <1>11, <3>1
    <3>2. CASE k2 # j
      <4>1. wal[g][k2] # NoWAL \/ (pos # ZeroPos /\ k2 = pos.idx)
        BY <1>1, <1>11, <3>2
      <4>2. QED
        BY <1>11, <4>1 DEF Good
    <3>3. QED
      BY <3>1, <3>2
  <2>2. shadow[g][k] \in Int
    BY DEF DataInv
  <2>3. QED
    BY <1>4, <2>1, <2>2
<1>12. (pos # ZeroPos /\ pos.idx >= x => Covers(g, pos.idx, pos.off))'
  <2>1. CASE pos' = pos
    BY <1>4, <1>5, <2>1 DEF Good
  <2>2. CASE pos' = [gen |-> g, idx |-> j, off |-> e]
    BY <1>1, <1>3, <1>8, <2>2 DEF Covers
  <2>3. QED
    BY <2>1, <2>2
<1>13. QED
  BY <1>9, <1>11, <1>12 DEF Good

-----------------------------------------------------------------------------
(* RestInv is kept by every step, when Gen = {g}.                          *)

\* The steps that change no file, no shadow file and not r.pos, and move
\* the retainer only from its Generations() call to its loop or back to
\* idle.
LEMMA QuietRestInv ==
    ASSUME NEW g \in Gen, DataInv, RestInv(g),
           Tick \/ SyncWALEOF \/ SyncCompress \/ SyncFail \/ RetainGenerations
           \/ RetainDone \/ RetainFail
    PROVE  RestInv(g)'
<1>1. /\ UNCHANGED <<dbGen, dbIdx, shadow, wal, snap, pos, rpos, rkept>>
      /\ \/ UNCHANGED rpc
         \/ rpc' = "idle"
         \/ rpc = "gens" /\ rpc' = "prune"
  BY Zenon DEF Tick, SyncWALEOF, SyncCompress, SyncFail, RetainGenerations,
               RetainDone, RetainFail, dbVars, dstVars, monVars, retVars,
               envVars
<1>2. \A x \in Idx : Good(g, x) => Good(g, x)'
  BY <1>1, GoodAbove
<1>3. dbIdx \in Idx /\ rpos.idx \in Idx
  BY DEF DataInv
<1>4. QED
  BY <1>1, <1>2, <1>3 DEF RestInv, IsTop, SnapIndexes, KeptIndexes

\* A restart forgets r.pos and sends the retainer back to idle.
LEMMA CrashRestInv ==
    ASSUME NEW g \in Gen, DataInv, RestInv(g), Crash
    PROVE  RestInv(g)'
<1>1. /\ UNCHANGED <<dbGen, dbIdx, shadow, wal, snap>>
      /\ pos' = ZeroPos /\ rpc' = "idle"
  BY Zenon DEF Crash, dstVars
<1>2. \A x \in Idx : Good(g, x) => Good(g, x)'
  BY <1>1, GoodForget
<1>3. dbIdx \in Idx
  BY DEF DataInv
<1>4. QED
  BY <1>1, <1>2, <1>3 DEF RestInv, IsTop, SnapIndexes

\* An append to the current shadow file.
LEMMA DBWriteRestInv ==
    ASSUME NEW g \in Gen, Gen = {g}, DataInv, RefInv, RestInv(g), DBWrite
    PROVE  RestInv(g)'
<1>1. /\ dbGen # NoGen
      /\ shadow' = [shadow EXCEPT ![dbGen][dbIdx] = @ + 1]
      /\ UNCHANGED <<dbGen, dbIdx, wal, snap, pos, rpc, rpos, rkept>>
  BY Zenon DEF DBWrite, dstVars, monVars, retVars
<1>2. dbGen = g
  BY <1>1 DEF DataInv
<1>3. \A k \in Idx : k < dbIdx => shadow'[g][k] = shadow[g][k]
  BY <1>1, <1>2 DEF DataInv
<1>4. \A x \in Idx : Good(g, x) => Good(g, x)'
  BY <1>1, <1>2, <1>3, GoodDBGrow
<1>5. dbIdx \in Idx /\ rpos.idx \in Idx
  BY DEF DataInv
<1>6. QED
  BY <1>1, <1>4, <1>5 DEF RestInv, IsTop, SnapIndexes, KeptIndexes

\* A checkpoint: DB.Pos() moves to an empty shadow file past every WAL
\* file and r.pos.
LEMMA DBCheckpointRestInv ==
    ASSUME NEW g \in Gen, Gen = {g}, DataInv, RefInv, RestInv(g),
           DBCheckpoint
    PROVE  RestInv(g)'
<1>1. /\ dbGen # NoGen /\ dbIdx < MaxIndex /\ dbIdx' = dbIdx + 1
      /\ shadow' = [shadow EXCEPT ![dbGen][dbIdx + 1] = 0]
      /\ UNCHANGED <<dbGen, wal, snap, pos, rpc, rpos, rkept>>
  BY Zenon DEF DBCheckpoint, dstVars, monVars, retVars
<1>2. dbGen = g /\ dbIdx \in Idx /\ rpos.idx \in Idx /\ pos.idx \in Idx
  BY <1>1 DEF DataInv
<1>3. \A k \in Idx : k < dbIdx => shadow'[g][k] = shadow[g][k]
  BY <1>1, <1>2 DEF DataInv
<1>4. \A x \in Idx : Good(g, x) => Good(g, x)'
  BY <1>1, <1>2, <1>3, GoodDBGrow
<1>5. \A x \in Idx : x = dbIdx' => Good(g, x)'
  <2> SUFFICES ASSUME NEW x \in Idx, x = dbIdx' PROVE Good(g, x)'
    OBVIOUS
  <2>1. \A k \in Idx : k >= x => wal'[g][k] = NoWAL
    BY <1>1, <1>2, BelowDB
  <2>2. pos' # ZeroPos => pos'.idx < x
    BY <1>1, <1>2, BelowDB
  <2>3. QED
    BY <1>1, <1>2, <2>1, <2>2, GoodFresh
<1>6. QED
  <2>1. dbIdx' \in Idx
    BY <1>1, <1>2
  <2>2. QED
    BY <1>1, <1>2, <1>4, <1>5, <2>1 DEF RestInv, IsTop, SnapIndexes,
                                        KeptIndexes

\* The first generation: no WAL file, snapshot or r.pos is there yet.
LEMMA DBNewGenerationRestInv ==
    ASSUME NEW g \in Gen, Gen = {g}, DataInv, RefInv, RestInv(g),
           DBNewGeneration
    PROVE  RestInv(g)'
<1>1. /\ \A i \in Idx : shadow[g][i] = NoShadow
      /\ dbGen' = g /\ dbIdx' = 0
      /\ UNCHANGED <<wal, snap, pos, rpc, rpos, rkept>>
  BY Zenon DEF DBNewGeneration, dstVars, monVars, retVars
<1>2. \A k \in Idx : wal[g][k] = NoWAL
  BY <1>1 DEF RefInv, WALInv
<1>3. pos = ZeroPos
  BY <1>1 DEF RefInv, PosInv, DataInv
<1>4. SnapIndexes(g) = {}
  BY <1>1 DEF RefInv, SnapInv, SnapIndexes
<1>5. rpc # "snapshot"
  BY <1>1 DEF RefInv, LocalsInv, DataInv
<1>6. Good(g, 0)'
  BY <1>1, <1>2, <1>3, GoodFresh DEF DataInv
<1>7. QED
  BY <1>1, <1>4, <1>5, <1>6 DEF RestInv, SnapIndexes, KeptIndexes

\* Sync's first snapshot is taken at DB.Pos(), at or above every snapshot,
\* and DB.Pos() is good.
LEMMA SyncBeginRestInv ==
    ASSUME NEW g \in Gen, Gen = {g}, DataInv, RefInv, RestInv(g), SyncBegin
    PROVE  RestInv(g)'
<1>1. UNCHANGED <<dbGen, dbIdx, shadow, wal, pos, rpc, rpos, rkept>>
  BY Zenon DEF SyncBegin, retVars, dstVars
<1>2. \A x \in Idx : Good(g, x) => Good(g, x)'
  BY <1>1, GoodAbove
<1>3. dbIdx \in Idx /\ rpos.idx \in Idx /\ now \in Time
  BY DEF DataInv
<1>4. CASE UNCHANGED snap
  BY <1>1, <1>2, <1>3, <1>4 DEF RestInv, IsTop, SnapIndexes, KeptIndexes
<1>5. CASE dbGen # NoGen /\ TakeSnapshot(dbGen, dbIdx)
  <2>1. dbGen = g
    BY <1>5 DEF DataInv
  <2>2. SnapIndexes(g)' = SnapIndexes(g) \cup {dbIdx}
    BY <1>3, <1>5, <2>1 DEF TakeSnapshot, SnapIndexes, DataInv
  <2>3. \A t \in SnapIndexes(g) : t <= dbIdx
    BY <2>1, BelowDB
  <2>4. IsTop(g, dbIdx)' /\ Good(g, dbIdx)'
    BY <1>1, <1>2, <1>3, <2>1, <2>2, <2>3 DEF RestInv, IsTop
  <2>5. QED
    BY <1>1, <1>2, <1>3, <2>1, <2>2, <2>4 DEF RestInv, KeptIndexes
<1>6. UNCHANGED snap \/ (dbGen # NoGen /\ TakeSnapshot(dbGen, dbIdx))
  BY Zenon DEF SyncBegin, dstVars
<1>7. QED
  BY <1>4, <1>5, <1>6

\* CalcPos puts r.pos at the end of the highest WAL file, or at the start
\* of the highest snapshot, which lies at or below every good position.
LEMMA SyncCalcPosRestInv ==
    ASSUME NEW g \in Gen, Gen = {g}, DataInv, RefInv, RestInv(g),
           SyncCalcPos
    PROVE  RestInv(g)'
<1>1. /\ UNCHANGED <<dbGen, dbIdx, shadow, wal, snap, rpc, rpos, rkept>>
      /\ mpc = "calcpos"
  BY Zenon DEF SyncCalcPos, dbVars, dstVars, retVars
<1>2. mgen = g /\ pos = ZeroPos /\ dbIdx \in Idx /\ rpos.idx \in Idx
  BY <1>1 DEF DataInv, RefInv, LocalsInv
<1>3. \A x \in Idx :
        Good(g, x)
        /\ (SnapIndexes(g) # {} /\ WALIndexes(g) = {}
              => \A t \in SnapIndexes(g) : t <= x)
        => Good(g, x)'
  <2> SUFFICES ASSUME NEW x \in Idx, Good(g, x),
                      SnapIndexes(g) # {} /\ WALIndexes(g) = {}
                        => \A t \in SnapIndexes(g) : t <= x
               PROVE  Good(g, x)'
    OBVIOUS
  <2>1. CASE SnapIndexes(mgen) = {}
    <3>1. UNCHANGED pos
      BY <2>1, Zenon DEF SyncCalcPos
    <3>2. QED
      BY <1>1, <3>1, GoodAbove
  <2>2. CASE SnapIndexes(mgen) # {}
    <3>1. PICK m \in Idx :
            IF WALIndexes(mgen) = {}
              THEN /\ IsMaxOf(m, SnapIndexes(mgen))
                   /\ pos' = [gen |-> mgen, idx |-> m, off |-> 0]
              ELSE /\ IsMaxOf(m, WALIndexes(mgen))
                   /\ pos' = [gen |-> mgen, idx |-> m,
                              off |-> wal[mgen][m].size]
      BY <2>2, Zenon DEF SyncCalcPos
    <3>2. CASE WALIndexes(g) = {}
      <4>1. m <= x /\ pos' = [gen |-> g, idx |-> m, off |-> 0]
        BY <1>2, <2>2, <3>1, <3>2 DEF IsMaxOf
      <4>2. QED
        BY <1>1, <1>2, <4>1, CalcPosSnapGood
    <3>3. CASE WALIndexes(g) # {}
      <4>1. wal[g][m] # NoWAL
            /\ pos' = [gen |-> g, idx |-> m, off |-> wal[g][m].size]
        BY <1>2, <3>1, <3>3 DEF IsMaxOf, WALIndexes
      <4>2. QED
        BY <1>1, <1>2, <4>1, CalcPosWALGood
    <3>4. QED
      BY <3>2, <3>3
  <2>3. QED
    BY <2>1, <2>2
<1>4. \A s \in SnapIndexes(g) : IsTop(g, s) => \A t \in SnapIndexes(g) : t <= s
  BY DEF IsTop
<1>5. dbGen = g => \A t \in SnapIndexes(g) : t <= dbIdx
  BY BelowDB
<1>6. QED
  BY <1>1, <1>2, <1>3, <1>4, <1>5 DEF RestInv, IsTop, SnapIndexes,
                                      KeptIndexes

\* syncWAL copies the reader's range and moves r.pos to its end.
LEMMA SyncWALRestInv ==
    ASSUME NEW g \in Gen, Gen = {g}, DataInv, RefInv, RestInv(g), SyncWAL
    PROVE  RestInv(g)'
<1> DEFINE rd == ShadowWALReader(pos)
<1>1. /\ mpc = "syncwal" /\ ~IsEOF(rd)
      /\ wal' = [wal EXCEPT ![rd.gen][rd.idx] = Written(@, rd.off, rd.end)]
      /\ pos' = [gen |-> rd.gen, idx |-> rd.idx, off |-> rd.end]
      /\ UNCHANGED <<dbGen, dbIdx, shadow, snap, rpc, rpos, rkept>>
  BY Zenon DEF SyncWAL, dbVars, retVars
<1>2. pos.gen = g
  BY <1>1 DEF DataInv
<1>3. /\ rd.gen \in Gen /\ rd.idx \in Idx
      /\ rd.off \in Off /\ rd.end \in Off /\ rd.off <= rd.end
  BY <1>1, <1>2, ReaderInShadow
<1>4. /\ rd.gen = g
      /\ \/ rd.idx = pos.idx /\ rd.off = pos.off
         \/ rd.idx = pos.idx + 1 /\ rd.off = 0
            /\ shadow[g][pos.idx] <= pos.off
  BY <1>1, <1>2, ReaderOneGen
<1>5. \A x \in Idx : Good(g, x) => Good(g, x)'
  BY <1>1, <1>2, <1>3, <1>4, WriteGood
<1>6. dbIdx \in Idx /\ rpos.idx \in Idx
  BY DEF DataInv
<1>7. QED
  BY <1>1, <1>5, <1>6 DEF RestInv, IsTop, SnapIndexes, KeptIndexes

\* A syncWAL that fails part-way keeps what it wrote; r.pos stays.
LEMMA SyncWALFailRestInv ==
    ASSUME NEW g \in Gen, Gen = {g}, DataInv, RefInv, RestInv(g),
           SyncWALFail
    PROVE  RestInv(g)'
<1> DEFINE rd == ShadowWALReader(pos)
<1>1. /\ mpc = "syncwal" /\ ~IsEOF(rd)
      /\ UNCHANGED <<dbGen, dbIdx, shadow, snap, pos, rpc, rpos, rkept>>
  BY Zenon DEF SyncWALFail, dbVars, retVars
<1>2. PICK k \in rd.off..rd.end :
        wal' = [wal EXCEPT ![rd.gen][rd.idx] = Written(@, rd.off, k)]
  BY Zenon DEF SyncWALFail
<1>3. pos.gen = g
  BY <1>1 DEF DataInv
<1>4. /\ rd.gen \in Gen /\ rd.idx \in Idx
      /\ rd.off \in Off /\ rd.end \in Off /\ rd.off <= rd.end
  BY <1>1, <1>3, ReaderInShadow
<1>5. k \in Off /\ rd.off <= k
  BY <1>4
<1>6. /\ rd.gen = g
      /\ \/ rd.idx = pos.idx /\ rd.off = pos.off
         \/ rd.idx = pos.idx + 1 /\ rd.off = 0
            /\ shadow[g][pos.idx] <= pos.off
  BY <1>1, <1>3, ReaderOneGen
<1>7. \A x \in Idx : Good(g, x) => Good(g, x)'
  BY <1>1, <1>2, <1>3, <1>4, <1>5, <1>6, WriteGood
<1>8. dbIdx \in Idx /\ rpos.idx \in Idx
  BY DEF DataInv
<1>9. QED
  BY <1>1, <1>7, <1>8 DEF RestInv, IsTop, SnapIndexes, KeptIndexes

\* EnforceRetention reads DB.Pos(), which is good, and lists the retained
\* snapshots, all of them existing ones of the one generation.
LEMMA RetainStartRestInv ==
    ASSUME NEW g \in Gen, Gen = {g}, DataInv, RefInv, RestInv(g),
           RetainStart
    PROVE  RestInv(g)'
<1>1. UNCHANGED <<dbGen, dbIdx, shadow, wal, snap, pos>>
  BY Zenon DEF RetainStart, dbVars, dstVars, monVars
<1>2. \A x \in Idx : Good(g, x) => Good(g, x)'
  BY <1>1, GoodAbove
<1>3. dbIdx \in Idx /\ rpos.idx \in Idx /\ genDir \subseteq Gen
  BY DEF DataInv
<1>4. CASE dbGen = NoGen
  <2>1. UNCHANGED <<rpc, rpos, rkept>>
    BY <1>4, Zenon DEF RetainStart
  <2>2. QED
    BY <1>1, <1>2, <1>3, <2>1 DEF RestInv, IsTop, SnapIndexes, KeptIndexes
<1>5. CASE dbGen # NoGen
  <2>1. /\ rpos' = [gen |-> dbGen, idx |-> dbIdx]
        /\ rkept' = {p \in genDir \X Idx : Retained(snap[p[1]][p[2]])}
        /\ rpc' = IF rkept' = {} THEN "snapshot" ELSE "gens"
    BY <1>5, Zenon DEF RetainStart
  <2>2. dbGen = g
    BY <1>5 DEF DataInv
  <2>3. rpc' = "snapshot" => Good(g, rpos.idx)'
    BY <1>1, <1>2, <1>3, <2>1, <2>2 DEF RestInv
  <2>4. rpc' \in {"gens", "prune"} =>
          /\ KeptIndexes(g)' # {}
          /\ KeptIndexes(g)' \subseteq SnapIndexes(g)'
    <3>1. rkept' \subseteq {g} \X Idx
      BY <1>3, <2>1
    <3>2. \A i \in Idx : <<g, i>> \in rkept' => snap[g][i] # NoSnap
      BY <2>1 DEF Retained
    <3>3. QED
      BY <1>1, <2>1, <3>1, <3>2 DEF KeptIndexes, SnapIndexes
  <2>5. QED
    BY <1>1, <1>2, <1>3, <2>2, <2>3, <2>4 DEF RestInv, IsTop, SnapIndexes
<1>6. QED
  BY <1>4, <1>5

\* No snapshot was retained: EnforceRetention snapshots the DB.Pos() it
\* read, which is the highest snapshot now unless one lies above it.
LEMMA RetainSnapshotRestInv ==
    ASSUME NEW g \in Gen, Gen = {g}, DataInv, RefInv, RestInv(g),
           RetainSnapshot
    PROVE  RestInv(g)'
<1>1. /\ rpc = "snapshot" /\ rpc' = "gens"
      /\ TakeSnapshot(rpos.gen, rpos.idx)
      /\ rkept' = {<<rpos.gen, rpos.idx>>}
      /\ UNCHANGED <<dbGen, dbIdx, shadow, wal, pos, rpos>>
  BY Zenon DEF RetainSnapshot, dbVars, monVars
<1>2. rpos.gen = g /\ rpos.idx \in Idx /\ dbIdx \in Idx /\ now \in Time
  BY <1>1 DEF DataInv
<1>3. SnapIndexes(g)' = SnapIndexes(g) \cup {rpos.idx}
  BY <1>1, <1>2 DEF TakeSnapshot, SnapIndexes, DataInv
<1>4. \A x \in Idx : Good(g, x) => Good(g, x)'
  BY <1>1, GoodAbove
<1>5. \E s \in SnapIndexes(g)' : IsTop(g, s)' /\ Good(g, s)'
  <2>1. CASE \A t \in SnapIndexes(g) : t < rpos.idx
    <3>1. Good(g, rpos.idx)
      BY <1>1, <2>1 DEF RestInv
    <3>2. Good(g, rpos.idx)'
      BY <1>1, <1>2, <1>4, <3>1
    <3>3. rpos.idx \in SnapIndexes(g)'
      BY <1>3
    <3>4. \A t \in SnapIndexes(g)' : t <= rpos.idx
      BY <1>2, <1>3, <2>1 DEF SnapIndexes
    <3>5. IsTop(g, rpos.idx)'
      BY <1>1, <3>3, <3>4 DEF IsTop
    <3>6. QED
      <4>1. \A x \in Idx : x = rpos.idx => IsTop(g, x)' /\ Good(g, x)'
        BY <1>1, <3>2, <3>5
      <4>2. QED
        BY <1>2, <3>3, <4>1
  <2>2. CASE \E t \in SnapIndexes(g) : t >= rpos.idx
    <3>1. PICK s \in SnapIndexes(g) : IsTop(g, s) /\ Good(g, s)
      BY <2>2 DEF RestInv
    <3>2. s >= rpos.idx
      BY <1>2, <2>2, <3>1 DEF IsTop, SnapIndexes
    <3>3. Good(g, s)'
      BY <1>4, <3>1 DEF SnapIndexes
    <3>4. IsTop(g, s)'
      BY <1>2, <1>3, <3>1, <3>2 DEF IsTop, SnapIndexes
    <3>5. QED
      BY <1>3, <3>3, <3>4
  <2>3. QED
    BY <1>2, <2>1, <2>2 DEF SnapIndexes
<1>6. KeptIndexes(g)' = {rpos.idx}
  BY <1>1, <1>2 DEF KeptIndexes
<1>7. QED
  BY <1>1, <1>2, <1>3, <1>4, <1>5, <1>6 DEF RestInv

\* A turn of the prune loop removes only files below the earliest retained
\* snapshot, which lies at or below the highest snapshot and DB.Pos().
LEMMA RetainPruneRestInv ==
    ASSUME NEW g \in Gen, Gen = {g}, DataInv, RefInv, RestInv(g),
           RetainPrune
    PROVE  RestInv(g)'
<1>1. PICK h \in rgens : PruneGeneration(h)
  BY DEF RetainPrune
<1>2. h = g
  BY DEF DataInv
<1>3. /\ rpc = "prune"
      /\ UNCHANGED <<dbGen, dbIdx, shadow, pos, rpc, rpos, rkept>>
  BY <1>1, Zenon DEF PruneGeneration, dbVars, monVars
<1>4. KeptIndexes(g) # {} /\ KeptIndexes(g) \subseteq SnapIndexes(g)
  BY <1>3 DEF RestInv
<1>5. /\ snap' = [snap EXCEPT ![g] =
                    [i \in Idx |-> IF BelowKept(g, i) THEN NoSnap ELSE @[i]]]
      /\ wal' = [wal EXCEPT ![g] =
                    [i \in Idx |-> IF BelowKept(g, i) THEN NoWAL ELSE @[i]]]
  BY <1>1, <1>2, <1>4, Zenon DEF PruneGeneration
<1>6. PICK kp \in KeptIndexes(g) : TRUE
  BY <1>4
<1>7. KeptIndexes(g)' = KeptIndexes(g)
  BY <1>3 DEF KeptIndexes
<1>8. \A i \in Idx : kp <= i => ~BelowKept(g, i)
  BY DEF BelowKept, KeptIndexes
<1>9. /\ \A i \in Idx : kp <= i => snap'[g][i] = snap[g][i]
      /\ \A i \in Idx : kp <= i => wal'[g][i] = wal[g][i]
      /\ \A i \in Idx : snap'[g][i] = NoSnap \/ snap'[g][i] = snap[g][i]
  BY <1>5, <1>8 DEF DataInv
<1>9a. SnapIndexes(g)' \subseteq SnapIndexes(g)
  BY <1>9 DEF SnapIndexes
<1>10. \A x \in Idx : kp <= x /\ Good(g, x) => Good(g, x)'
  <2> SUFFICES ASSUME NEW x \in Idx, kp <= x, Good(g, x) PROVE Good(g, x)'
    OBVIOUS
  <2>1. kp \in Idx
    BY DEF KeptIndexes
  <2>2. \A k \in Idx : k >= x => wal'[g][k] = wal[g][k]
    BY <1>9, <2>1
  <2>3. UNCHANGED <<pos, shadow>>
    BY <1>3
  <2>4. QED
    BY <2>2, <2>3, GoodAbove
<1>11. \A s \in SnapIndexes(g) : IsTop(g, s) => kp <= s /\ s \in SnapIndexes(g)'
  BY <1>4, <1>9 DEF IsTop, SnapIndexes, KeptIndexes
<1>12. dbGen = g => kp <= dbIdx
  BY <1>4, BelowDB
<1>13. \A i \in KeptIndexes(g) : ~BelowKept(g, i)
  BY DEF BelowKept, KeptIndexes
<1>14. KeptIndexes(g) \subseteq SnapIndexes(g)'
  BY <1>4, <1>5, <1>13 DEF SnapIndexes, KeptIndexes, DataInv
<1>15. dbIdx \in Idx /\ kp \in Idx
  BY DEF DataInv, KeptIndexes
<1>16. (SnapIndexes(g) # {} =>
          \E s \in SnapIndexes(g) : IsTop(g, s) /\ Good(g, s))'
  <2>1. PICK s \in SnapIndexes(g) : IsTop(g, s) /\ Good(g, s)
    BY <1>4 DEF RestInv
  <2>2. kp <= s /\ s \in SnapIndexes(g)'
    BY <1>11, <2>1
  <2>3. Good(g, s)'
    BY <1>10, <2>1, <2>2 DEF SnapIndexes
  <2>4. IsTop(g, s)'
    BY <1>9a, <2>1, <2>2 DEF IsTop
  <2>5. QED
    BY <2>2, <2>3, <2>4
<1>17. (dbGen = g => Good(g, dbIdx))'
  BY <1>3, <1>10, <1>12, <1>15 DEF RestInv
<1>18. QED
  BY <1>3, <1>4, <1>7, <1>14, <1>16, <1>17 DEF RestInv

-----------------------------------------------------------------------------
(* RestInv is an inductive invariant, and it gives RestorableLastPos.      *)

LEMMA InitRestInv ==
    ASSUME NEW g \in Gen
    PROVE  Init => RestInv(g)
<1> SUFFICES ASSUME Init PROVE RestInv(g)
  OBVIOUS
<1>1. SnapIndexes(g) = {} /\ dbGen # g /\ rpc = "idle"
  BY DEF Init, SnapIndexes
<1>2. QED
  BY <1>1 DEF RestInv

LEMMA StutterRestInv ==
    ASSUME NEW g \in Gen, DataInv, RestInv(g), UNCHANGED vars
    PROVE  RestInv(g)'
<1>1. UNCHANGED <<dbGen, dbIdx, shadow, wal, snap, pos, rpc, rpos, rkept>>
  BY DEF vars, dbVars, dstVars, monVars, retVars
<1>2. \A x \in Idx : Good(g, x) => Good(g, x)'
  BY <1>1, GoodAbove
<1>3. dbIdx \in Idx /\ rpos.idx \in Idx
  BY DEF DataInv
<1>4. QED
  BY <1>1, <1>2, <1>3 DEF RestInv, IsTop, SnapIndexes, KeptIndexes

LEMMA NextRestInv ==
    ASSUME NEW g \in Gen, Gen = {g}
    PROVE  TypeInv /\ RefInv /\ RestInv(g) /\ [Next]_vars => RestInv(g)'
<1> SUFFICES ASSUME TypeInv, RefInv, RestInv(g), [Next]_vars
             PROVE  RestInv(g)'
  OBVIOUS
<1>1. DataInv
  BY TypeInvParts
<1>2. CASE DBWrite \/ DBCheckpoint \/ DBNewGeneration
  BY <1>1, <1>2, DBWriteRestInv, DBCheckpointRestInv, DBNewGenerationRestInv
<1>3. CASE Tick \/ SyncWALEOF \/ SyncCompress \/ SyncFail \/ RetainGenerations
           \/ RetainDone \/ RetainFail
  BY <1>1, <1>3, QuietRestInv
<1>4. CASE SyncBegin \/ SyncCalcPos \/ SyncWAL \/ SyncWALFail
  BY <1>1, <1>4, SyncBeginRestInv, SyncCalcPosRestInv, SyncWALRestInv,
     SyncWALFailRestInv
<1>5. CASE RetainStart \/ RetainSnapshot \/ RetainPrune \/ Crash
  BY <1>1, <1>5, RetainStartRestInv, RetainSnapshotRestInv,
     RetainPruneRestInv, CrashRestInv
<1>6. CASE UNCHANGED vars
  BY <1>1, <1>6, StutterRestInv
<1>7. QED
  BY <1>2, <1>3, <1>4, <1>5, <1>6 DEF Next, Database, Monitor, Retainer

\* The highest snapshot witnesses that r.pos is restorable: it lies above
\* r.pos, or every WAL file from it up to r.pos is whole and r.pos's file
\* holds the bytes below r.pos.
LEMMA RestInvRestorable ==
    ASSUME NEW g \in Gen, Gen = {g}, DataInv, RestInv(g)
    PROVE  RestorableLastPos
<1> SUFFICES ASSUME ~IsZero(pos), pos.gen = dbGen, SnapIndexes(pos.gen) # {}
             PROVE  Restorable(pos.gen, pos.idx, pos.off)
  BY DEF RestorableLastPos
<1>1. pos.gen = g /\ pos # ZeroPos /\ pos.idx \in Idx
  BY DEF DataInv, IsZero
<1>2. PICK s \in SnapIndexes(g) : IsTop(g, s) /\ Good(g, s)
  BY <1>1 DEF RestInv
<1>3. s \in Idx
  BY DEF SnapIndexes
<1>4. CASE s > pos.idx
  BY <1>1, <1>2, <1>4 DEF Restorable
<1>5. CASE s <= pos.idx
  <2>1. \A k \in s..(pos.idx - 1) : Covers(g, k, shadow[g][k])
    BY <1>1, <1>2, <1>3, <1>5 DEF Good
  <2>2. Covers(g, pos.idx, pos.off)
    BY <1>1, <1>2, <1>5 DEF Good
  <2>3. QED
    BY <1>1, <1>2, <2>1, <2>2 DEF Restorable
<1>6. QED
  BY <1>1, <1>3, <1>4, <1>5

(* With one database generation, what LastPos() reports can always be    *)
(* restored from the destination once the generation has a snapshot      *)
(* there (the property RestorableLastPos), whatever the order of Sync,    *)
(* EnforceRetention, failed writes and restarts: retention never removes  *)
(* a WAL file at or above the highest snapshot, syncWAL only extends a    *)
(* file that holds every byte below r.pos, and CalcPos lands at the end   *)
(* of a faithful file.                                                     *)
THEOREM RestorableOneGeneration ==
    ASSUME NEW g, Gen = {g}
    PROVE  Spec => []RestorableLastPos
<1>1. g \in Gen
  OBVIOUS
<1>2. Init => TypeInv /\ RefInv /\ RestInv(g)
  BY <1>1, InitTypeInv, InitRefInv, InitRestInv
<1>3. TypeInv /\ RefInv /\ RestInv(g) /\ [Next]_vars
        => (TypeInv /\ RefInv /\ RestInv(g))'
  BY <1>1, NextTypeInv, NextRefInv, NextRestInv
<1>4. TypeInv /\ RefInv /\ RestInv(g) => RestorableLastPos
  BY <1>1, TypeInvParts, RestInvRestorable
<1>5. QED
  BY <1>2, <1>3, <1>4, PTL DEF Spec

=============================================================================
