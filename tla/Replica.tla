------------------------------- MODULE Replica -------------------------------
(***************************************************************************)
(* The file replica of src/replica.go: the monitor goroutine running Sync  *)
(* on every database change notification, the retainer goroutine running  *)
(* EnforceRetention on every ticker tick, the destination directory tree   *)
(* they share, and the source database adapter they read from (modelled    *)
(* from spec.md section 6.1, its code is not in this repository).          *)
(*                                                                         *)
(* Data is abstracted to what the properties tell apart: a WAL file is its *)
(* size and the set of byte offsets that hold bytes copied from the shadow *)
(* WAL (the bytes at an offset of a shadow WAL never change, so the set    *)
(* says whether the file is a faithful prefix or has a hole of zeros).     *)
(* A snapshot is its modification time.  Each step of the two goroutines   *)
(* is one I/O call (or a run of calls nothing else can observe apart).     *)
(***************************************************************************)
EXTENDS Integers, FiniteSets

CONSTANTS
    Gen,                \* generation names
    NoGen,              \* the empty generation name "" of a zero Pos
    MaxIndex,           \* highest WAL index the database reaches
    MaxOffset,          \* largest size of one shadow WAL file (bytes)
    MaxTime,            \* number of retention ticker ticks (minutes)
    RetentionInterval,  \* FileReplica.RetentionInterval, in ticks
    MaxFailures,        \* I/O errors the environment may inject
    MaxCrashes,         \* process restarts
    MonitorEnabled      \* FileReplica.MonitorEnabled

ASSUME ConstantsAssumption ==
    /\ NoGen \notin Gen
    /\ MaxIndex \in Nat /\ MaxOffset \in Nat /\ MaxTime \in Nat
    /\ RetentionInterval \in Nat
    /\ MaxFailures \in Nat /\ MaxCrashes \in Nat
    /\ MonitorEnabled \in BOOLEAN

Idx   == 0..MaxIndex
Off   == 0..MaxOffset
Bytes == 0..(MaxOffset - 1)       \* byte k is the byte at offset k
Time  == 0..MaxTime

NoSnap   == -1                    \* no snapshot file at this index
NoShadow == -1                    \* no shadow WAL file at this index
NoWAL    == [size |-> -1, data |-> {}]
WALFile  == [size : Off, data : SUBSET Bytes]

\* Pos{} is the zero position; IsZero holds for it only.
ZeroPos  == [gen |-> NoGen, idx |-> 0, off |-> 0]
PosType  == [gen : Gen \cup {NoGen}, idx : Idx, off : Off]
IsZero(p) == p = ZeroPos

VARIABLES
    \* source database adapter (spec.md 6.1)
    dbGen,      \* generation of DB.Pos(), NoGen before the first one
    dbIdx,      \* index of DB.Pos()
    shadow,     \* shadow[g][i]: size of shadow WAL file i of generation g
    notified,   \* the channel last returned by DB.Notify() is closed
    \* destination tree under dst/generations
    genDir,     \* generation directories that exist
    snap,       \* snap[g][i]: mtime of <i>.snapshot.gz, NoSnap if absent
    wal,        \* wal[g][i]: the file <i>.wal, NoWAL if absent
    \* FileReplica
    pos,        \* r.pos
    mpc,        \* where the monitor goroutine is in Sync
    mgen,       \* Sync's local generation
    synced,     \* the monitor's last Sync returned nil
    rpc,        \* where the retainer goroutine is in EnforceRetention
    rpos,       \* EnforceRetention's local pos (generation and index)
    rnow,       \* the time.Now() EnforceRetention filtered with
    rkept,      \* its retained snapshot list, as <<generation, index>>
    rgens,      \* generations its loop has still to visit
    ticked,     \* the ticker channel holds a tick
    \* environment
    now, failures, crashes

dbVars  == <<dbGen, dbIdx, shadow, notified>>
dstVars == <<genDir, snap, wal>>
monVars == <<pos, mpc, mgen, synced>>
retVars == <<rpc, rpos, rnow, rkept, rgens, ticked>>
envVars == <<now, failures, crashes>>
vars    == <<dbVars, dstVars, monVars, retVars, envVars>>

-----------------------------------------------------------------------------
(* Helpers over the destination tree.                                      *)

SnapIndexes(g) == {i \in Idx : snap[g][i] # NoSnap}
WALIndexes(g)  == {i \in Idx : wal[g][i] # NoWAL}
IsMaxOf(m, S)  == m \in S /\ \A x \in S : x <= m
MaxOf(S)       == CHOOSE m \in S : IsMaxOf(m, S)

\* snapshotN: the number of snapshot files of a generation.
snapshotN(g) == Cardinality(SnapIndexes(g))

\* snapshot(generation, index) after the read transaction is open: the
\* file is left alone if it exists, else the database is compressed to it.
TakeSnapshot(g, i) ==
    /\ genDir' = genDir \cup {g}
    /\ snap' = IF snap[g][i] # NoSnap THEN snap
               ELSE [snap EXCEPT ![g][i] = now]

\* Mutant: the file opened with os.O_TRUNC, losing the bytes before off.
WrittenTruncated(f, off, end) == [size |-> end, data |-> off..(end - 1)]

\* The file after Seek(off) and a write of the bytes [off, end) to it:
\* the bytes before off are the file's old bytes, or zeros if it was
\* shorter (os.O_CREATE makes a missing file empty).
Written(f, off, end) ==
    LET old == IF f = NoWAL THEN [size |-> 0, data |-> {}] ELSE f
    IN  [size |-> IF end > old.size THEN end ELSE old.size,
         data |-> old.data \cup off..(end - 1)]

(* DB.ShadowWALReader(after), from spec.md 6.1: a reader at or after      *)
(* `after`, bounded by the shadow WAL's current size.  It continues the    *)
(* same file, else starts the next index, else, once the generation of    *)
(* `after` is exhausted, starts the database's current generation.        *)
ShadowWALReader(after) ==
    LET g == after.gen
        i == after.idx
    IN  IF shadow[g][i] > after.off
          THEN [gen |-> g, idx |-> i, off |-> after.off, end |-> shadow[g][i]]
        ELSE IF i < MaxIndex /\ shadow[g][i + 1] # NoShadow
          THEN [gen |-> g, idx |-> i + 1, off |-> 0, end |-> shadow[g][i + 1]]
        ELSE IF dbGen \notin {g, NoGen}
          THEN [gen |-> dbGen, idx |-> 0, off |-> 0, end |-> shadow[dbGen][0]]
        ELSE [gen |-> NoGen, idx |-> 0, off |-> 0, end |-> 0]  \* io.EOF

IsEOF(rd) == rd.gen = NoGen

-----------------------------------------------------------------------------
(* The source database (spec.md 6.1): it appends to its current shadow   *)
(* WAL, checkpoints into a new index, or starts a new generation.  Every  *)
(* change closes the channel Notify() handed out.                         *)

DBWrite ==
    /\ dbGen # NoGen
    /\ shadow[dbGen][dbIdx] < MaxOffset
    /\ shadow' = [shadow EXCEPT ![dbGen][dbIdx] = @ + 1]
    /\ notified' = TRUE
    /\ UNCHANGED <<dbGen, dbIdx, dstVars, monVars, retVars, envVars>>

DBCheckpoint ==
    /\ dbGen # NoGen
    /\ dbIdx < MaxIndex
    /\ dbIdx' = dbIdx + 1
    /\ shadow' = [shadow EXCEPT ![dbGen][dbIdx + 1] = 0]
    /\ notified' = TRUE
    /\ UNCHANGED <<dbGen, dstVars, monVars, retVars, envVars>>

DBNewGeneration ==
    \E g \in Gen :
        /\ g # dbGen
        /\ \A i \in Idx : shadow[g][i] = NoShadow
        /\ dbGen' = g
        /\ dbIdx' = 0
        /\ shadow' = [shadow EXCEPT ![g][0] = 0]
        /\ notified' = TRUE
        /\ UNCHANGED <<dstVars, monVars, retVars, envVars>>

\* A tick of the one-minute retention ticker (a buffered channel of one).
\* The ticker never stops; past MaxTime the model's clock stands still.
Tick ==
    /\ now < MaxTime \/ ~ticked
    /\ now' = IF now < MaxTime THEN now + 1 ELSE now
    /\ ticked' = TRUE
    /\ UNCHANGED <<dbVars, dstVars, monVars, rpc, rpos, rnow, rkept, rgens,
                   failures, crashes>>

-----------------------------------------------------------------------------
(* The monitor goroutine and Sync.                                         *)

\* The monitor receives from notify, fetches a fresh Notify() channel and
\* calls Sync, which reads DB.Pos() and snapshots a generation that has no
\* snapshot.  With MonitorEnabled off the caller calls Sync itself, never
\* while EnforceRetention runs.
SyncCallable == IF MonitorEnabled THEN notified ELSE rpc = "idle"

SyncBegin ==
    /\ mpc = "idle"
    /\ SyncCallable
    /\ notified' = (notified /\ ~MonitorEnabled)
    /\ IF dbGen = NoGen
         THEN /\ synced' = FALSE           \* "no generation" error
              /\ UNCHANGED <<dstVars, pos, mpc, mgen>>
         ELSE /\ IF snapshotN(dbGen) = 0
                   THEN TakeSnapshot(dbGen, dbIdx)
                   ELSE UNCHANGED <<genDir, snap>>
              /\ mgen' = dbGen
              /\ mpc' = IF IsZero(pos) THEN "calcpos" ELSE "syncwal"
              /\ UNCHANGED <<wal, pos, synced>>
    /\ UNCHANGED <<dbGen, dbIdx, shadow, retVars, envVars>>

\* Sync's "Determine position" step: CalcPos(generation), cached in r.pos.
\* MaxSnapshotIndex fails when the generation has no snapshot.
SyncCalcPos ==
    /\ mpc = "calcpos"
    /\ IF SnapIndexes(mgen) = {}
         THEN /\ mpc' = "idle"
              /\ synced' = FALSE
              /\ UNCHANGED pos
         ELSE /\ \E m \in Idx :
                   IF WALIndexes(mgen) = {}
                     THEN /\ IsMaxOf(m, SnapIndexes(mgen))
                          /\ pos' = [gen |-> mgen, idx |-> m, off |-> 0]
                     ELSE /\ IsMaxOf(m, WALIndexes(mgen))
                          /\ pos' = [gen |-> mgen, idx |-> m,
                                     off |-> wal[mgen][m].size]
              /\ mpc' = "syncwal"
              /\ UNCHANGED synced
    /\ UNCHANGED <<dbVars, dstVars, mgen, retVars, envVars>>

\* Mutant: r.pos saved one byte past where the reader stopped.
SyncWALPosPastEnd ==
    LET rd == ShadowWALReader(pos) IN
    /\ mpc = "syncwal"
    /\ ~IsEOF(rd)
    /\ genDir' = genDir \cup {rd.gen}
    /\ wal' = [wal EXCEPT ![rd.gen][rd.idx] = Written(@, rd.off, rd.end)]
    /\ pos' = [gen |-> rd.gen, idx |-> rd.idx, off |-> rd.end + 1]
    /\ UNCHANGED <<dbVars, snap, mpc, mgen, synced, retVars, envVars>>

\* Mutant: the WAL file named from LastPos() instead of rd.Pos().
SyncWALLastPosPath ==
    LET rd == ShadowWALReader(pos) IN
    /\ mpc = "syncwal"
    /\ ~IsEOF(rd)
    /\ genDir' = genDir \cup {pos.gen}
    /\ wal' = [wal EXCEPT ![pos.gen][pos.idx] = Written(@, rd.off, rd.end)]
    /\ pos' = [gen |-> rd.gen, idx |-> rd.idx, off |-> rd.end]
    /\ UNCHANGED <<dbVars, snap, mpc, mgen, synced, retVars, envVars>>

\* One syncWAL call that copies: the WAL file of the reader's position is
\* created if missing, written from the reader's offset, synced, and then
\* r.pos moves to where the reader stopped.
SyncWAL ==
    LET rd == ShadowWALReader(pos) IN
    /\ mpc = "syncwal"
    /\ ~IsEOF(rd)
    /\ genDir' = genDir \cup {rd.gen}
    /\ wal' = [wal EXCEPT ![rd.gen][rd.idx] = Written(@, rd.off, rd.end)]
    /\ pos' = [gen |-> rd.gen, idx |-> rd.idx, off |-> rd.end]
    /\ UNCHANGED <<dbVars, snap, mpc, mgen, synced, retVars, envVars>>

\* syncWAL reports io.EOF: Sync leaves its loop and compresses.
SyncWALEOF ==
    /\ mpc = "syncwal"
    /\ IsEOF(ShadowWALReader(pos))
    /\ mpc' = "compress"
    /\ UNCHANGED <<dbVars, dstVars, pos, mgen, synced, retVars, envVars>>

\* A syncWAL whose io.Copy, Sync or Close fails after `k` bytes reached
\* the file: the file keeps them, r.pos does not move, Sync returns the
\* error.
SyncWALFail ==
    LET rd == ShadowWALReader(pos) IN
    /\ mpc = "syncwal"
    /\ ~IsEOF(rd)
    /\ failures < MaxFailures
    /\ \E k \in rd.off..rd.end :
          wal' = [wal EXCEPT ![rd.gen][rd.idx] = Written(@, rd.off, k)]
    /\ genDir' = genDir \cup {rd.gen}
    /\ failures' = failures + 1
    /\ mpc' = "idle"
    /\ synced' = FALSE
    /\ UNCHANGED <<dbVars, snap, pos, mgen, retVars, now, crashes>>

\* Mutant: the monitor fetches its Notify() channel after Sync returns.
SyncCompressNotifyAfter ==
    /\ mpc = "compress"
    /\ mpc' = "idle"
    /\ synced' = TRUE
    /\ notified' = FALSE
    /\ UNCHANGED <<dbGen, dbIdx, shadow, dstVars, pos, mgen, retVars, envVars>>

\* compress(generation): filepath.Glob(WALDir/**/*.wal).  Go's "**" is a
\* single "*", so the pattern only matches .wal files one directory below
\* wal/; the replica never makes such a directory, the glob returns no
\* names and compress returns nil at `len(filenames) <= 1`.  Sync is done.
CompressGlob(g) == {}

SyncCompress ==
    /\ mpc = "compress"
    /\ Cardinality(CompressGlob(mgen)) <= 1
    /\ mpc' = "idle"
    /\ synced' = TRUE
    /\ UNCHANGED <<dbVars, dstVars, pos, mgen, retVars, envVars>>

\* Any other error of Sync (DB.Pos, the snapshot transaction, ReadDir,
\* the shadow reader, MkdirAll, OpenFile) ends it with no effect.
SyncFail ==
    /\ mpc \in {"calcpos", "syncwal"} \/ (mpc = "idle" /\ SyncCallable)
    /\ failures < MaxFailures
    /\ failures' = failures + 1
    /\ notified' = (notified /\ ~MonitorEnabled)
    /\ mpc' = "idle"
    /\ synced' = FALSE
    /\ UNCHANGED <<dbGen, dbIdx, shadow, dstVars, pos, mgen, retVars,
                   now, crashes>>

-----------------------------------------------------------------------------
(* The retainer goroutine and EnforceRetention.                            *)

\* A snapshot is retained when created at or after now - RetentionInterval.
Retained(t) == t # NoSnap /\ t >= now - RetentionInterval

\* EnforceRetention reads DB.Pos() and the Snapshots() list, filtered to
\* the retention window.  The retainer runs on a tick; with MonitorEnabled
\* off the caller runs it, never while Sync runs.
RetainStart ==
    /\ rpc = "idle"
    /\ IF MonitorEnabled THEN ticked ELSE mpc = "idle"
    /\ ticked' = FALSE
    /\ IF dbGen = NoGen
         THEN UNCHANGED <<rpc, rpos, rnow, rkept>>   \* "no generation"
         ELSE /\ rpos' = [gen |-> dbGen, idx |-> dbIdx]
              /\ rnow' = now
              /\ rkept' = {p \in genDir \X Idx : Retained(snap[p[1]][p[2]])}
              /\ rpc' = IF rkept' = {} THEN "snapshot" ELSE "gens"
    /\ UNCHANGED <<dbVars, dstVars, monVars, rgens, envVars>>

\* No snapshot is retained: snapshot(pos.Generation, pos.Index), and the
\* list holds just that snapshot.
RetainSnapshot ==
    /\ rpc = "snapshot"
    /\ TakeSnapshot(rpos.gen, rpos.idx)
    /\ rkept' = {<<rpos.gen, rpos.idx>>}
    /\ rpc' = "gens"
    /\ UNCHANGED <<dbVars, wal, monVars, rpos, rnow, rgens, ticked, envVars>>

\* Generations(): the generation directories.
RetainGenerations ==
    /\ rpc = "gens"
    /\ rgens' = genDir
    /\ rpc' = "prune"
    /\ UNCHANGED <<dbVars, dstVars, monVars, rpos, rnow, rkept, ticked,
                   envVars>>

\* FindMinSnapshotByGeneration over the retained list.
KeptIndexes(g) == {i \in Idx : <<g, i>> \in rkept}

\* deleteGeneration*Before(g, index) with index the earliest retained
\* snapshot: file i goes when idx < index, that is, when i is below every
\* retained index of g.
BelowKept(g, i) == \A k \in KeptIndexes(g) : i < k

\* Mutant: deleteGeneration*Before compare with `idx > index`, so the WAL
\* file at the earliest retained index goes too.
PruneGenerationInclusive(g) ==
    /\ rpc = "prune"
    /\ IF KeptIndexes(g) = {}
         THEN /\ genDir' = genDir \ {g}
              /\ snap' = [snap EXCEPT ![g] = [i \in Idx |-> NoSnap]]
              /\ wal' = [wal EXCEPT ![g] = [i \in Idx |-> NoWAL]]
         ELSE /\ snap' = [snap EXCEPT ![g] =
                            [i \in Idx |-> IF BelowKept(g, i) THEN NoSnap
                                           ELSE @[i]]]
              /\ wal' = [wal EXCEPT ![g] =
                            [i \in Idx |-> IF \A k \in KeptIndexes(g) : i <= k
                                           THEN NoWAL ELSE @[i]]]
              /\ UNCHANGED genDir
    /\ rgens' = rgens \ {g}
    /\ UNCHANGED <<dbVars, monVars, rpc, rpos, rnow, rkept, ticked, envVars>>

\* One turn of the loop over generations: a generation with no retained
\* snapshot is removed with RemoveAll; otherwise its snapshots and WAL
\* files below the earliest retained index are removed.
PruneGeneration(g) ==
    /\ rpc = "prune"
    /\ IF KeptIndexes(g) = {}
         THEN /\ genDir' = genDir \ {g}
              /\ snap' = [snap EXCEPT ![g] = [i \in Idx |-> NoSnap]]
              /\ wal' = [wal EXCEPT ![g] = [i \in Idx |-> NoWAL]]
         ELSE /\ snap' = [snap EXCEPT ![g] =
                            [i \in Idx |-> IF BelowKept(g, i) THEN NoSnap
                                           ELSE @[i]]]
              /\ wal' = [wal EXCEPT ![g] =
                            [i \in Idx |-> IF BelowKept(g, i) THEN NoWAL
                                           ELSE @[i]]]
              /\ UNCHANGED genDir
    /\ rgens' = rgens \ {g}
    /\ UNCHANGED <<dbVars, monVars, rpc, rpos, rnow, rkept, ticked, envVars>>

RetainPrune == \E g \in rgens : PruneGeneration(g)

\* The loop ends: EnforceRetention returns nil.
RetainDone ==
    /\ rpc = "prune"
    /\ rgens = {}
    /\ rpc' = "idle"
    /\ UNCHANGED <<dbVars, dstVars, monVars, rpos, rnow, rkept, rgens,
                   ticked, envVars>>

\* An I/O error of EnforceRetention (snapshot, ReadDir, Remove, RemoveAll)
\* ends it; the retainer logs it and waits for the next tick.
RetainFail ==
    /\ rpc # "idle"
    /\ failures < MaxFailures
    /\ failures' = failures + 1
    /\ rpc' = "idle"
    /\ UNCHANGED <<dbVars, dstVars, monVars, rpos, rnow, rkept, rgens,
                   ticked, now, crashes>>

-----------------------------------------------------------------------------
(* A restart of the process: r.pos is zero again and Start primes the     *)
(* monitor with a closed channel, so its first Sync runs at once.  The    *)
(* destination tree and the database's shadow WAL survive.                *)
Crash ==
    /\ crashes < MaxCrashes
    /\ crashes' = crashes + 1
    /\ pos' = ZeroPos
    /\ mpc' = "idle"
    /\ synced' = FALSE
    /\ rpc' = "idle"
    /\ ticked' = FALSE
    /\ notified' = TRUE
    /\ UNCHANGED <<dbGen, dbIdx, shadow, dstVars, mgen, rpos, rnow, rkept,
                   rgens, now, failures>>

-----------------------------------------------------------------------------

Init ==
    /\ dbGen = NoGen
    /\ dbIdx = 0
    /\ shadow = [g \in Gen |-> [i \in Idx |-> NoShadow]]
    /\ notified = TRUE
    /\ genDir = {}
    /\ snap = [g \in Gen |-> [i \in Idx |-> NoSnap]]
    /\ wal = [g \in Gen |-> [i \in Idx |-> NoWAL]]
    /\ pos = ZeroPos
    /\ mpc = "idle"
    /\ mgen = NoGen
    /\ synced = FALSE
    /\ rpc = "idle"
    /\ rpos = [gen |-> NoGen, idx |-> 0]
    /\ rnow = 0
    /\ rkept = {}
    /\ rgens = {}
    /\ ticked = FALSE
    /\ now = 0
    /\ failures = 0
    /\ crashes = 0

Database == DBWrite \/ DBCheckpoint \/ DBNewGeneration

Monitor == SyncBegin \/ SyncCalcPos \/ SyncWAL \/ SyncWALEOF \/ SyncCompress

Retainer == RetainStart \/ RetainSnapshot \/ RetainGenerations
            \/ RetainPrune \/ RetainDone

Next ==
    \/ Database \/ Tick
    \/ Monitor \/ Retainer
    \/ SyncWALFail \/ SyncFail \/ RetainFail \/ Crash

\* Both goroutines are always scheduled again (Go's scheduler is fair to
\* runnable goroutines); failures and crashes are never forced.
Fairness == WF_vars(Monitor) /\ WF_vars(Retainer)

Spec == Init /\ [][Next]_vars

FairSpec == Spec /\ Fairness

-----------------------------------------------------------------------------
(* Properties.                                                             *)

TypeOK ==
    /\ dbGen \in Gen \cup {NoGen}
    /\ dbIdx \in Idx
    /\ shadow \in [Gen -> [Idx -> {NoShadow} \cup Off]]
    /\ notified \in BOOLEAN
    /\ genDir \in SUBSET Gen
    /\ snap \in [Gen -> [Idx -> {NoSnap} \cup Time]]
    /\ wal \in [Gen -> [Idx -> {NoWAL} \cup WALFile]]
    /\ pos \in PosType
    /\ mpc \in {"idle", "calcpos", "syncwal", "compress"}
    /\ mgen \in Gen \cup {NoGen}
    /\ synced \in BOOLEAN
    /\ rpc \in {"idle", "snapshot", "gens", "prune"}
    /\ rpos \in [gen : Gen \cup {NoGen}, idx : Idx]
    /\ rnow \in Time
    /\ rkept \subseteq Gen \X Idx
    /\ rgens \subseteq Gen
    /\ ticked \in BOOLEAN
    /\ now \in Time
    /\ failures \in 0..MaxFailures
    /\ crashes \in 0..MaxCrashes

(* The strengthening of TypeOK that is inductive: the facts about the    *)
(* goroutines' locals that make every lookup in the next step defined.    *)
TypeInv ==
    /\ TypeOK
    /\ dbGen # NoGen => shadow[dbGen][0] # NoShadow
    /\ pos.gen = NoGen => pos = ZeroPos
    /\ mpc = "syncwal" => pos.gen \in Gen
    /\ mpc # "idle" => mgen \in Gen
    /\ rpc = "snapshot" => rpos.gen \in Gen

\* The first o bytes of WAL file k of generation g are the shadow's bytes.
Covers(g, k, o) ==
    o = 0 \/ (wal[g][k] # NoWAL /\ 0..(o - 1) \subseteq wal[g][k].data)

\* A restore of generation g can reach position (i, o): a snapshot at or
\* before index i and, from it, every WAL file whole up to index i and
\* the first o bytes of WAL file i; or a snapshot taken after index i.
Restorable(g, i, o) ==
    \E s \in SnapIndexes(g) :
        \/ s > i
        \/ /\ \A k \in s..(i - 1) : Covers(g, k, shadow[g][k])
            /\ Covers(g, i, o)

(* What LastPos() reports as replicated in the database's current         *)
(* generation can be restored from the destination once that generation  *)
(* has a snapshot there: neither a syncWAL that recreates a pruned WAL     *)
(* file, nor retention pruning below r.pos, nor a restart's CalcPos loses  *)
(* a byte below r.pos.                                                     *)
RestorableLastPos ==
    (~IsZero(pos) /\ pos.gen = dbGen /\ SnapIndexes(pos.gen) # {})
        => Restorable(pos.gen, pos.idx, pos.off)

\* r.pos is at the end of the highest WAL file of its generation.
PosAtWALEnd ==
    IF WALIndexes(pos.gen) = {}
      THEN pos.off = 0
      ELSE /\ pos.idx = MaxOf(WALIndexes(pos.gen))
           /\ pos.off = wal[pos.gen][pos.idx].size

(* spec.md 8, invariant 1: when Sync returns nil, LastPos() is the        *)
(* highest WAL index on disk of its generation and the size of that file.  *)
SyncEndsAtWALEnd == [][SyncCompress => PosAtWALEnd']_vars

(* spec.md 8, invariant 2: after a completed Sync at most one WAL file of  *)
(* the generation is uncompressed (the active, highest one); compress()    *)
(* must have sealed the others.                                            *)
SealedWALsCompressed ==
    [][SyncCompress => Cardinality(WALIndexes(mgen)) <= 1]_vars

(* spec.md 3, invariant 5: after EnforceRetention returns, every          *)
(* generation it kept has a snapshot created within the window it used.   *)
RetentionKeepsFreshSnapshot ==
    [][RetainDone =>
         \A g \in genDir :
            \E i \in Idx : snap[g][i] # NoSnap
                           /\ snap[g][i] >= rnow - RetentionInterval]_vars

(* spec.md 5: the retainer never touches the active WAL file, the one of  *)
(* highest index of a generation it keeps.                                 *)
RetentionSparesActiveWAL ==
    [][\A g \in Gen :
         (RetainPrune /\ g \in genDir' /\ WALIndexes(g) # {})
            => MaxOf(WALIndexes(g)) \in WALIndexes(g)']_vars

(* Once the database stops changing, the monitor's notification loop      *)
(* brings r.pos to the end of the database's current shadow WAL: no        *)
(* change notification is lost between two Syncs.                          *)
CatchesUp ==
    <>[](dbGen # NoGen =>
           pos = [gen |-> dbGen, idx |-> dbIdx, off |-> shadow[dbGen][dbIdx]])


\* The refinement mapping: LastPos() is r.pos, the database is the same.
Abstract == INSTANCE ReplicaAbstract WITH lastPos <- pos

(* Sync, syncWAL, CalcPos after a restart, and a restart itself implement  *)
(* ReplicaAbstract: r.pos never names a byte the shadow WAL does not hold, *)
(* never moves back within a generation except to zero on a restart, and  *)
(* the database's shadow files only grow.                                  *)
RefinesAbstract == Abstract!Spec

=============================================================================
