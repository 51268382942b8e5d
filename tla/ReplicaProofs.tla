---------------------------- MODULE ReplicaProofs ----------------------------
(***************************************************************************)
(* Proofs about Replica for every value of its constants.                  *)
(*                                                                         *)
(* TypeOK alone is not inductive: syncWAL's shadow reader looks up         *)
(* shadow[dbGen][0] when it rolls into the database's generation, and      *)
(* writes wal[rd.gen][rd.idx] for the position r.pos holds; Sync names     *)
(* mgen's directory and EnforceRetention rpos.gen's.  These are a real     *)
(* generation only because of the facts TypeInv adds to TypeOK: the       *)
(* database's current shadow WAL exists, a position with no generation is *)
(* the zero Pos, and a goroutine past its first step holds a generation.  *)
(*                                                                         *)
(* The proof handles the Boolean-valued variables (BoolOK, by Zenon) apart *)
(* from the rest of TypeInv (DataInv, by SMT): neither prover does both.   *)
(***************************************************************************)
EXTENDS Replica, TLAPS

USE ConstantsAssumption

BoolOK == notified \in BOOLEAN /\ synced \in BOOLEAN /\ ticked \in BOOLEAN

DataInv ==
    /\ dbGen \in Gen \cup {NoGen}
    /\ dbIdx \in Idx
    /\ shadow \in [Gen -> [Idx -> {NoShadow} \cup Off]]
    /\ genDir \in SUBSET Gen
    /\ snap \in [Gen -> [Idx -> {NoSnap} \cup Time]]
    /\ wal \in [Gen -> [Idx -> {NoWAL} \cup WALFile]]
    /\ pos \in PosType
    /\ mpc \in {"idle", "calcpos", "syncwal", "compress"}
    /\ mgen \in Gen \cup {NoGen}
    /\ rpc \in {"idle", "snapshot", "gens", "prune"}
    /\ rpos \in [gen : Gen \cup {NoGen}, idx : Idx]
    /\ rnow \in Time
    /\ rkept \subseteq Gen \X Idx
    /\ rgens \subseteq Gen
    /\ now \in Time
    /\ failures \in 0..MaxFailures
    /\ crashes \in 0..MaxCrashes
    /\ dbGen # NoGen => shadow[dbGen][0] # NoShadow
    /\ pos.gen = NoGen => pos = ZeroPos
    /\ mpc = "syncwal" => pos.gen \in Gen
    /\ mpc # "idle" => mgen \in Gen
    /\ rpc = "snapshot" => rpos.gen \in Gen

\* TypeInv is the conjunction of its Boolean and its other conjuncts.
LEMMA TypeInvParts == TypeInv <=> BoolOK /\ DataInv
BY Zenon DEF TypeInv, TypeOK, BoolOK, DataInv

\* Each step of the shadow reader yields a position inside the shadow WAL
\* files: a real generation and index, and offsets in Off.
LEMMA ReaderType ==
    ASSUME TypeInv, pos.gen \in Gen
    PROVE  LET rd == ShadowWALReader(pos) IN
           ~IsEOF(rd) => /\ rd.gen \in Gen /\ rd.idx \in Idx
                         /\ rd.off \in Off /\ rd.end \in Off
                         /\ rd.off <= rd.end
BY DEF TypeInv, TypeOK, ShadowWALReader, IsEOF, PosType, Idx, Off,
       NoShadow, ZeroPos

\* A WAL file written from a reader's range is still a WAL file.
LEMMA WrittenType ==
    ASSUME NEW f \in {NoWAL} \cup WALFile, NEW o \in Off, NEW e \in Off
    PROVE  Written(f, o, e) \in WALFile
BY DEF Written, WALFile, NoWAL, Off, Bytes

\* So is WAL file i of generation g after syncWAL writes [o, e) to it.
LEMMA WrittenAtType ==
    ASSUME TypeInv, NEW g \in Gen, NEW i \in Idx, NEW o \in Off, NEW e \in Off
    PROVE  Written(wal[g][i], o, e) \in WALFile
<1>1. wal[g][i] \in {NoWAL} \cup WALFile
  BY DEF TypeInv, TypeOK
<1>2. QED
  BY <1>1, WrittenType, Zenon

\* snapshot(g, i) keeps the destination tree well typed.
LEMMA TakeSnapshotType ==
    ASSUME TypeInv, NEW g \in Gen, NEW i \in Idx
    PROVE  TakeSnapshot(g, i) =>
               /\ genDir' \in SUBSET Gen
               /\ snap' \in [Gen -> [Idx -> {NoSnap} \cup Time]]
BY DEF TakeSnapshot, TypeInv, TypeOK, Idx, Time, NoSnap

\* Replacing row g of a two-level table by a row drawn from S, or by a row
\* of S-values kept or reset to d, keeps the table's type.
LEMMA ExceptRowType ==
    ASSUME NEW S, NEW f \in [Gen -> [Idx -> S]], NEW g \in Gen, NEW c(_),
           NEW d \in S
    PROVE  /\ [f EXCEPT ![g] = [i \in Idx |-> IF c(i) THEN d ELSE f[g][i]]]
                \in [Gen -> [Idx -> S]]
           /\ [f EXCEPT ![g] = [i \in Idx |-> d]] \in [Gen -> [Idx -> S]]
BY Zenon

\* So does replacing one cell of it by a value of S.
LEMMA ExceptCellType ==
    ASSUME NEW S, NEW f \in [Gen -> [Idx -> S]], NEW g \in Gen, NEW i \in Idx,
           NEW v \in S
    PROVE  [f EXCEPT ![g][i] = v] \in [Gen -> [Idx -> S]]
BY Zenon

LEMMA InitTypeInv == Init => TypeInv
<1> SUFFICES ASSUME Init PROVE TypeInv
  OBVIOUS
<1>1. BoolOK
  BY Zenon DEF Init, BoolOK
<1>2. DataInv
  BY DEF Init, DataInv, ZeroPos, PosType, Idx, Off, Time, NoShadow, NoSnap,
         NoWAL, WALFile, Bytes
<1>3. QED
  BY <1>1, <1>2, TypeInvParts

\* Every action sets the Boolean-valued variables to Booleans.
LEMMA ActionBoolOK == TypeInv /\ Next => BoolOK'
BY Zenon DEF TypeInv, TypeOK, BoolOK, Next, Database, Monitor, Retainer,
             DBWrite, DBCheckpoint, DBNewGeneration, Tick, SyncBegin,
             SyncCalcPos, SyncWAL, SyncWALEOF, SyncWALFail, SyncCompress,
             SyncFail, RetainStart, RetainSnapshot, RetainGenerations,
             RetainPrune, PruneGeneration, RetainDone, RetainFail, Crash,
             dbVars, dstVars,
             monVars, retVars, envVars, TakeSnapshot

\* Every action keeps DataInv.  Every step states its action as an
\* antecedent: an action left unexpanded among the hypotheses defeats SMT.
LEMMA ActionDataInv == TypeInv /\ Next => DataInv'
<1> SUFFICES ASSUME TypeInv PROVE Next => DataInv'
  OBVIOUS
<1> USE DEF TypeInv, TypeOK, DataInv, dbVars, dstVars, monVars, retVars,
            envVars, Idx, Off, Time, Bytes, NoSnap, NoShadow, NoWAL, WALFile,
            PosType, ZeroPos, IsZero
<1>1. DBWrite => DataInv'
  BY SMTT(60) DEF DBWrite
<1>2. DBCheckpoint => DataInv'
  BY DEF DBCheckpoint
<1>3. DBNewGeneration => DataInv'
  BY DEF DBNewGeneration
<1>4. Tick => DataInv'
  BY DEF Tick
<1>5. SyncBegin => DataInv'
  <2>1. SyncBegin /\ dbGen = NoGen => DataInv'
    BY DEF SyncBegin
  <2>2. SyncBegin /\ dbGen # NoGen /\ snapshotN(dbGen) = 0 => DataInv'
    <3>1. dbGen # NoGen => (TakeSnapshot(dbGen, dbIdx) =>
              /\ genDir' \in SUBSET Gen
              /\ snap' \in [Gen -> [Idx -> {NoSnap} \cup Time]])
      BY TakeSnapshotType
    <3>2. QED
      BY <3>1 DEF SyncBegin
  <2>3. SyncBegin /\ dbGen # NoGen /\ snapshotN(dbGen) # 0 => DataInv'
    BY DEF SyncBegin
  <2>4. QED
    BY <2>1, <2>2, <2>3
<1>6. SyncCalcPos => DataInv'
  <2>1. ASSUME NEW m \in Idx, mgen \in Gen, IsMaxOf(m, WALIndexes(mgen))
        PROVE  wal[mgen][m].size \in Off
    <3>1. wal[mgen][m] \in {NoWAL} \cup WALFile /\ wal[mgen][m] # NoWAL
      BY <2>1 DEF IsMaxOf, WALIndexes
    <3>2. wal[mgen][m] \in WALFile
      BY <3>1, Zenon
    <3>3. QED
      BY <3>2, Zenon DEF WALFile
  <2>2. QED
    BY <2>1 DEF SyncCalcPos
<1>7. SyncWAL => DataInv'
  <2> DEFINE rd == ShadowWALReader(pos)
  <2>1. SyncWAL => /\ rd.gen \in Gen /\ rd.idx \in Idx
                   /\ rd.off \in Off /\ rd.end \in Off
    BY ReaderType DEF SyncWAL
  <2>2. rd.gen \in Gen /\ rd.idx \in Idx /\ rd.off \in Off /\ rd.end \in Off
          => Written(wal[rd.gen][rd.idx], rd.off, rd.end) \in WALFile
    BY WrittenAtType
  <2>3. rd.gen \in Gen /\ rd.idx \in Idx /\ rd.off \in Off /\ rd.end \in Off
          => [wal EXCEPT ![rd.gen][rd.idx] =
                Written(wal[rd.gen][rd.idx], rd.off, rd.end)]
               \in [Gen -> [Idx -> {NoWAL} \cup WALFile]]
    BY <2>2, ExceptCellType, Zenon
  <2>4. SyncWAL => wal' \in [Gen -> [Idx -> {NoWAL} \cup WALFile]]
    BY <2>1, <2>3 DEF SyncWAL
  <2>5. SyncWAL => /\ pos' \in PosType /\ pos'.gen \in Gen
                   /\ genDir' \in SUBSET Gen
    BY <2>1 DEF SyncWAL
  <2>6. QED
    BY <2>4, <2>5 DEF SyncWAL
<1>8. SyncWALEOF => DataInv'
  BY DEF SyncWALEOF
<1>9. SyncWALFail => DataInv'
  <2> DEFINE rd == ShadowWALReader(pos)
  <2>1. SyncWALFail => /\ rd.gen \in Gen /\ rd.idx \in Idx
                       /\ rd.off \in Off /\ rd.end \in Off /\ rd.off <= rd.end
    BY ReaderType DEF SyncWALFail
  <2>2. ASSUME rd.gen \in Gen, rd.idx \in Idx, rd.off \in Off, rd.end \in Off,
               NEW k \in rd.off..rd.end
        PROVE  [wal EXCEPT ![rd.gen][rd.idx] =
                  Written(wal[rd.gen][rd.idx], rd.off, k)]
                 \in [Gen -> [Idx -> {NoWAL} \cup WALFile]]
    <3>1. k \in Off
      BY <2>2
    <3>2. Written(wal[rd.gen][rd.idx], rd.off, k) \in WALFile
      BY <2>2, <3>1, WrittenAtType
    <3>3. QED
      BY <2>2, <3>2, ExceptCellType, Zenon
  <2>3. SyncWALFail =>
            \E k \in rd.off..rd.end :
               wal' = [wal EXCEPT ![rd.gen][rd.idx] =
                         Written(wal[rd.gen][rd.idx], rd.off, k)]
    BY Zenon DEF SyncWALFail
  <2>4. ASSUME rd.gen \in Gen, rd.idx \in Idx, rd.off \in Off, rd.end \in Off,
               \E k \in rd.off..rd.end :
                  wal' = [wal EXCEPT ![rd.gen][rd.idx] =
                            Written(wal[rd.gen][rd.idx], rd.off, k)]
        PROVE  wal' \in [Gen -> [Idx -> {NoWAL} \cup WALFile]]
    <3>1. PICK k \in rd.off..rd.end :
             wal' = [wal EXCEPT ![rd.gen][rd.idx] =
                       Written(wal[rd.gen][rd.idx], rd.off, k)]
      BY <2>4
    <3>2. QED
      BY <2>4, <3>1, <2>2
  <2>5. SyncWALFail => wal' \in [Gen -> [Idx -> {NoWAL} \cup WALFile]]
    BY <2>1, <2>3, <2>4, Zenon
  <2>6. SyncWALFail =>
            /\ genDir' = genDir \cup {rd.gen}
            /\ failures < MaxFailures /\ failures' = failures + 1
            /\ mpc' = "idle"
            /\ UNCHANGED <<dbGen, dbIdx, shadow, snap, pos, mgen, rpc, rpos,
                           rnow, rkept, rgens, now, crashes>>
    BY Zenon DEF SyncWALFail
  <2>7. ASSUME rd.gen \in Gen,
               wal' \in [Gen -> [Idx -> {NoWAL} \cup WALFile]],
               genDir' = genDir \cup {rd.gen},
               failures < MaxFailures, failures' = failures + 1,
               mpc' = "idle",
               UNCHANGED <<dbGen, dbIdx, shadow, snap, pos, mgen, rpc, rpos,
                           rnow, rkept, rgens, now, crashes>>
        PROVE  DataInv'
    BY <2>7
  <2>8. QED
    BY <2>1, <2>5, <2>6, <2>7, Zenon
<1>10. SyncCompress => DataInv'
  BY DEF SyncCompress
<1>11. SyncFail => DataInv'
  BY DEF SyncFail
<1>12. RetainStart => DataInv'
  BY DEF RetainStart
<1>13. RetainSnapshot => DataInv'
  <2>1. rpc = "snapshot" => (TakeSnapshot(rpos.gen, rpos.idx) =>
            /\ genDir' \in SUBSET Gen
            /\ snap' \in [Gen -> [Idx -> {NoSnap} \cup Time]])
    BY TakeSnapshotType
  <2>2. QED
    BY <2>1 DEF RetainSnapshot
<1>14. RetainGenerations => DataInv'
  BY DEF RetainGenerations
<1>15. RetainPrune => DataInv'
  <2>1. ASSUME NEW g \in Gen PROVE PruneGeneration(g) => DataInv'
    <3>1. NoSnap \in {NoSnap} \cup Time /\ NoWAL \in {NoWAL} \cup WALFile
      OBVIOUS
    <3>2. /\ [snap EXCEPT ![g] = [i \in Idx |-> IF BelowKept(g, i) THEN NoSnap
                                                ELSE snap[g][i]]]
               \in [Gen -> [Idx -> {NoSnap} \cup Time]]
          /\ [snap EXCEPT ![g] = [i \in Idx |-> NoSnap]]
               \in [Gen -> [Idx -> {NoSnap} \cup Time]]
      BY <3>1, ExceptRowType
    <3>3. /\ [wal EXCEPT ![g] = [i \in Idx |-> IF BelowKept(g, i) THEN NoWAL
                                               ELSE wal[g][i]]]
               \in [Gen -> [Idx -> {NoWAL} \cup WALFile]]
          /\ [wal EXCEPT ![g] = [i \in Idx |-> NoWAL]]
               \in [Gen -> [Idx -> {NoWAL} \cup WALFile]]
      BY <3>1, ExceptRowType
    <3>4. PruneGeneration(g) =>
            /\ snap' \in [Gen -> [Idx -> {NoSnap} \cup Time]]
            /\ wal' \in [Gen -> [Idx -> {NoWAL} \cup WALFile]]
      BY <3>2, <3>3, Zenon DEF PruneGeneration
    <3>5. PruneGeneration(g) => genDir' \in SUBSET Gen /\ rgens' \in SUBSET Gen
      BY DEF PruneGeneration
    <3>6. QED
      BY <3>4, <3>5 DEF PruneGeneration
  <2>2. QED
    BY <2>1 DEF RetainPrune
<1>16. RetainDone => DataInv'
  BY DEF RetainDone
<1>17. RetainFail => DataInv'
  BY DEF RetainFail
<1>18. Crash => DataInv'
  BY DEF Crash
<1>19. QED
  BY <1>1, <1>2, <1>3, <1>4, <1>5, <1>6, <1>7, <1>8, <1>9, <1>10, <1>11,
     <1>12, <1>13, <1>14, <1>15, <1>16, <1>17, <1>18
  DEF Next, Database, Monitor, Retainer

\* A stuttering step keeps TypeInv.
LEMMA StutterTypeInv == TypeInv /\ UNCHANGED vars => TypeInv'
BY DEF TypeInv, TypeOK, vars, dbVars, dstVars, monVars, retVars, envVars

LEMMA NextTypeInv == TypeInv /\ [Next]_vars => TypeInv'
<1>1. TypeInv' <=> BoolOK' /\ DataInv'
  BY Zenon DEF TypeInv, TypeOK, BoolOK, DataInv
<1>2. QED
  BY <1>1, ActionBoolOK, ActionDataInv, StutterTypeInv

(* Every state the replica reaches is well typed: the destination tree's   *)
(* WAL files and snapshot times, r.pos, the positions syncWAL's shadow     *)
(* reader hands out, and the locals of Sync and EnforceRetention stay in   *)
(* their ranges, for every number of generations, indexes, offsets, ticks *)
(* and failures.                                                           *)
THEOREM TypeCorrect == Spec => []TypeOK
<1>1. TypeInv => TypeOK
  BY DEF TypeInv
<1>2. QED
  BY InitTypeInv, NextTypeInv, <1>1, PTL DEF Spec

=============================================================================
