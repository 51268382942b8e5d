# Formal model of the litestream file replica (src/replica.go)

This directory holds TLA+ models of `FileReplica` in `src/replica.go`, the
TLC configurations that check them, and TLAPS proofs about them:
type correctness, a refinement of an abstract `LastPos()` contract,
restorability of `LastPos()` with one generation, where a successful
Sync leaves `LastPos()`, and the correctness of the restore-side lookups
and readers on every directory.

## The system

A `FileReplica` copies a database's shadow WAL into a destination tree
`dst/generations/<gen>/{snapshots/<i>.snapshot.gz, wal/<i>.wal}`. These are
its parts, following the component numbering of spec.md 4:

| Part | Code | What it does |
|---|---|---|
| Path codec (C1) | `GenerationDir`…`WALPath` (135–178) | Formats the file names. |
| Listing (C2, C5) | `Generations`, `Snapshots`, `WALs`, `MaxSnapshotIndex`, the stats functions (150–354) | Read the tree. |
| Compressor (C3) | `compress`, `compressFile` (605–634, 883–912) | Gzips sealed WAL files. |
| Position tracker (C4) | `r.pos`, `LastPos`, `CalcPos` (128–132, 431–468) | Keeps the last replicated position. |
| Sync engine (C6) | `Sync`, `syncWAL`, `snapshot`, `snapshotN` (471–602) | Snapshots a generation that has no snapshot, finds the position, copies shadow WAL bytes from `LastPos()` onward, and compresses. |
| Retention (C7) | `EnforceRetention`, `deleteGeneration*Before` (772–880) | Lists the snapshots within `RetentionInterval` and forces a snapshot if none is left. Then, for every generation, it removes the generation, or the snapshots and WAL files below its earliest retained index. |
| Supervisor (C8) | `Start`, `Stop`, `monitor`, `retainer` (357–427) | Runs two goroutines. The *monitor* calls `Sync` whenever the database's `Notify()` channel closes. The *retainer* calls `EnforceRetention` on every tick of a one-minute ticker. |
| Readers (C9) | `SnapshotIndexAt`, `WALIndexAt`, `SnapshotReader`, `WALReader` (636–768) | Used by restore. |
| Source database (spec.md 6.1) | not in this repository | Provides `Pos()`, `Notify()` and `ShadowWALReader(pos)`. |

The two goroutines share the destination tree. Only the monitor writes
`r.pos`. The retainer reads and deletes files that the monitor may be
writing at the same moment. Nothing else synchronises them.

## Modules

- **`Replica.tla`** is the whole replica: the database adapter, the
  monitor and Sync, the retainer and EnforceRetention, and restarts.
  - **Data abstraction.** A WAL file is its size and the set of byte
    offsets that hold bytes copied from the shadow WAL. The bytes at an
    offset of a shadow WAL never change, so this set says whether the file
    is a faithful prefix or has a hole of zeros. A snapshot is its
    modification time.
  - **State.**
    - The database: `dbGen`, `dbIdx`, `shadow`, `notified`.
    - The tree: `genDir`, `snap`, `wal`.
    - The monitor: `pos` (`r.pos`), its program counter `mpc`, Sync's local
      `mgen`, and `synced`.
    - The retainer: `rpc`, and EnforceRetention's locals `rpos`, `rnow`,
      `rkept` (the retained snapshot list) and `rgens` (the generations
      still to visit). `ticked` says whether the ticker channel holds a
      tick.
    - The environment: `now`, and the `failures` and `crashes` counters.
  - **Actions.** Each action is one I/O call of a goroutine, or a run of
    calls that no one else can observe apart:
    - `SyncBegin` is `DB.Pos` and the first snapshot (513–530).
    - `SyncCalcPos` is `CalcPos` (431–468).
    - Each `syncWAL` call is one of three actions: `SyncWAL` copies,
      `SyncWALEOF` gets `io.EOF`, and `SyncWALFail` fails part-way, with
      the bytes already written kept.
    - `SyncCompress` is `compress`. Its glob never matches (`CompressGlob`).
    - `SyncFail` is any other Sync error.
    - Retention is `RetainStart` (the list and `time.Now`), `RetainSnapshot`,
      `RetainGenerations`, one `PruneGeneration(g)` per loop turn,
      `RetainDone`, and `RetainFail` for any I/O error.
    - `Crash` is a restart through `Start`: `r.pos` is zero again and the
      monitor is primed with a closed channel.
    - `Tick` is the ticker. The database actions are `DBWrite`,
      `DBCheckpoint` and `DBNewGeneration`.
  - **The two ways the replica is run.**
    - `MonitorEnabled = TRUE`: the goroutines interleave freely.
    - `MonitorEnabled = FALSE`: the caller (tests, for one) calls `Sync`
      and `EnforceRetention` itself, one at a time.
- **`ReplicaAbstract.tla`** is what the replica promises about
  `LastPos()` (spec.md 8, "Monotonicity"). Its state is `dbGen`, `dbIdx`,
  `shadow` and `lastPos`, and it has three actions:
  - `DBChange`: the shadow WAL only grows, and DB.Pos() names a shadow file.
  - `Replicate`: `lastPos` moves to a position inside the shadow WAL.
    From zero it may go anywhere. Otherwise it moves forward in its
    generation, or into the database's current generation.
  - `Restart`: `lastPos` goes back to zero.
  `Replica` instantiates it as `Abstract`, with the refinement mapping
  `lastPos <- pos` and the database variables mapped to themselves. The
  property `RefinesAbstract == Abstract!Spec` is checked by the `seq` run
  and proved (below).
- **`Lookup.tla`** models the restore-side lookups, each one call on one
  directory:
  - `SnapshotIndexAt` (636–667) and `WALIndexAt` (669–702), with one
    action per `ReadDir`, per turn of the scan loop, and for the return;
  - `SnapshotReader` (704–739) and `WALReader` (741–768), with the two
    opens of the `.wal` and the `.wal.gz` file.
  `ReadDir` returns the existing names in name order: by index, then by
  extension. The k-th name of a directory is `Name(k)`, and `files[k]`
  is its mtime or `Absent`. The loop's `for _, fi := range fis` is a
  cursor: `next` is the place of the first name not yet visited,
  `ToVisit(next)` the files still to visit, and each turn takes the one
  that comes first (`IsNext`). The loop ends when `ToVisit(next)` is
  empty. The `.gz.tmp` leftovers of `compressFile` are in
  the directory, and the path parsers reject them. A directory is `ok`,
  `missing`, or fails with an I/O error. `Init` enumerates every call on
  every such directory: files absent or with an mtime in `1..MaxTime`, a
  timestamp that is zero (`time.Time{}`) or one of those mtimes, and a
  `maxIndex` in the index range or `math.MaxInt64`.
- **`MCReplica.tla`**, **`MCRestorable.tla`**: the generation names are
  model values.
- **`ReplicaProofs.tla`**, **`ReplicaRefinementProofs.tla`**,
  **`RestorableProofs.tla`**, **`SyncEndProofs.tla`** and
  **`LookupProofs.tla`** hold the TLAPS proofs. `MCRestorable` extends
  `SyncEndProofs`, and the `lookup` run's module is `LookupProofs`, so
  that TLC checks the inductive invariants the proofs use.

`map` in PROJECT.json names the source lines of every definition. The
database adapter (`ShadowWALReader`, `DB*`, `IsZero`) is modelled from
spec.md 6.1, because its code is not in this repository.

## Properties and runs

| Property | Kind | What it says |
|---|---|---|
| `TypeOK` | invariant | Type correctness. |
| `RestorableLastPos` | invariant | The core safety property (below). |
| `SyncEndsAtWALEnd` | action property (spec.md 8.1) | A Sync that returns nil leaves `r.pos` at the end of the highest WAL file of its generation. |
| `SealedWALsCompressed` | action property (spec.md 8.2) | After Sync, at most one WAL file per generation is uncompressed. |
| `RetentionKeepsFreshSnapshot` | action property (spec.md 3.5) | After EnforceRetention, every kept generation has a snapshot inside the window. |
| `RetentionSparesActiveWAL` | action property (spec.md 5) | Retention never removes the highest WAL file of a generation it keeps. |
| `CatchesUp` | liveness | Once the database stops changing, `r.pos` reaches the end of its shadow WAL. |
| `RefinesAbstract` | refinement | `Replica` implements `ReplicaAbstract` under `lastPos <- r.pos`. |
| `RestInvOneGen` | invariant | The inductive strengthening of `RestorableLastPos` (see Proofs). |
| `EndInvOneGen` | invariant | The inductive strengthening of `SyncEndsAtWALEnd` (see Proofs). |
| `LookupInv` | invariant | The loop invariants of the lookups and readers (see Proofs). |
| `Lookup!TypeOK` | invariant | Each call returns an index, a file extension or "none", with one of the errors the code returns. |
| `SnapshotIndexAtCorrect` | invariant | `SnapshotIndexAt` returns the index of a snapshot with the latest mtime not after the timestamp. When several share that mtime, it returns the lowest index, the first one in name order, because the test at line 658 is a strict `After`. With none, it returns `ErrNoSnapshots`. A zero timestamp filters nothing. |
| `SnapshotIndexAtTieHighest` | invariant (comments at 51–52, 636–637) | Of the snapshots that share the latest mtime, a successful `SnapshotIndexAt` returns the highest index, as its interface comment says. |
| `WALIndexAtLatest` | invariant | With no `maxIndex` (`math.MaxInt64`), `WALIndexAt` returns the highest index among the WAL files not after the timestamp, or 0. |
| `WALIndexAtFound` | invariant (spec.md 4.5) | A specified `maxIndex` that no WAL file reaches fails with `IndexNotFound`. |
| `ReaderOpensIndex` | invariant | A reader opens the file of the index asked for, preferring the uncompressed one, and reports NotExist only when neither file is there. |

`RestorableLastPos` says that what `LastPos()` reports as replicated in
the database's current generation can be restored from the destination,
once that generation has a snapshot there. Restorable means one of two
things:
- there is a snapshot at or before `r.pos`, and every WAL file from that
  snapshot on is byte-for-byte whole up to `r.pos`;
- or there is a snapshot after `r.pos`.

The bounds are small, but each one makes the interesting case happen:
- Up to three WAL indexes (`MaxIndex = 2`), so rollovers happen.
- WAL files of up to two bytes, so that a partial copy and a hole can occur.
- Two clock ticks with `RetentionInterval = 1`, so a snapshot can age out.
- One I/O failure and one restart.
- Two generations, but only where the run is about a generation change.

| Run | Cfg | Expect | States | What it shows |
|---|---|---|---|---|
| seq | MCReplicaSeq | pass | 1.7M, 59 s | With synchronous Sync/EnforceRetention, failures and a restart, `TypeOK`, `RestorableLastPos`, `SyncEndsAtWALEnd` and `RefinesAbstract` hold. |
| conc | MCReplicaConc | pass | 4.3M, 62 s | The two goroutines interleaved step by step keep `TypeOK` and `RestorableLastPos`. |
| restinv | MCRestorable | pass | 4.3M, 66 s | The same interleaved instance keeps the proof's inductive invariant `RestInv`. |
| syncend | MCRestorable (MCSyncEnd.cfg) | pass | 1.7M, 19 s | With Sync and EnforceRetention called in turn, failures and a restart, the proof's inductive invariant `EndInv` holds. |
| live | MCReplicaLive | pass | 138k | Under `FairSpec`, `CatchesUp` holds. |
| genswitch | MCReplicaGenSwitch | violation | | `RestorableLastPos` fails across a generation change. |
| compress | MCReplicaCompress | violation | | `SealedWALsCompressed` fails: compress never runs. |
| freshsnap | MCReplicaFreshSnap | violation | | `RetentionKeepsFreshSnapshot` fails. |
| activewal | MCReplicaActiveWAL | violation | | `RetentionSparesActiveWAL` fails. |
| lookup | LookupProofs (MCLookup.cfg) | pass | 3.2M, 90 s | On every directory of three indexes, the lookups and readers return what spec.md 4.5 and 4.9 define, and `LookupInv` holds. |
| snapshottie | Lookup (MCLookupSnapshotTie.cfg) | violation | | `SnapshotIndexAtTieHighest` fails: of two snapshots at the same mtime, the lower index is returned. |
| walindex | MCLookupWALIndex | violation | | `WALIndexAtFound` fails. |

`lookup` uses three indexes and two mtimes. That gives directories with
tied mtimes, a file newer than the timestamp, a gap in the indexes, and a
`.tmp` file between two real ones. Its cfg turns deadlock checking off
because a call ends in `done` and the model stops there: a `Lookup`
behaviour is one call.

**Fairness** (`live`) is weak fairness on the monitor's and the retainer's
steps. Both are goroutines that, once runnable, the Go scheduler runs.
Failures and crashes are never forced, and no fairness is given to the
database. `MaxFailures = 0` in this run: with failures allowed, the
monitor can fail every Sync and then wait on a channel no one closes
again (`monitor` 404–406 waits on the next notification). That is a
real, separate behaviour, and it is not what `CatchesUp` is about.

Each property of a passing run has a mutant in PROJECT.json: a plausible
bug that TLC finds with the run's own cfg.

| Mutant | Breaks |
|---|---|
| `r.pos` saved one byte past the reader | `TypeOK` |
| The WAL path taken from `LastPos()` instead of `rd.Pos()` | `SyncEndsAtWALEnd` |
| Retention deleting the WAL file at the kept index | `RestorableLastPos` |
| The file opened with `O_TRUNC` | `RestorableLastPos` |
| `Notify()` fetched after Sync | `CatchesUp` |
| Retention deleting the WAL file at the kept index | `RestInvOneGen` |
| The WAL path taken from `LastPos()` instead of `rd.Pos()` | `EndInvOneGen` |
| `r.pos` saved one byte past the reader | `RefinesAbstract` |
| `SnapshotIndexAt` returning without the `ErrNoSnapshots` check | `Lookup!TypeOK` |
| A snapshot that ties on mtime replacing the kept one (`!Before` for `After`) | `SnapshotIndexAtCorrect` |
| The timestamp filter using `Before` (strict) | `WALIndexAtLatest` |
| `SnapshotReader` opening a snapshot of any index | `ReaderOpensIndex` |
| `WALIndexAt` without its `idx > maxIndex` skip | `LookupInv` (the properties miss it: `WALIndexAtLatest` asks for no `maxIndex`) |

## Findings

1. **compress never compresses (code bug, line 606).** `filepath.Glob`
   does not support a recursive `**`.
2. **Generation change (code bug, line 533).**
   - Sync recomputes `r.pos` only when it is zero. `syncWAL`'s reader
     then rolls from the old generation into the new one, which has no
     snapshot yet.
   - Retention removes a generation without a retained snapshot with
     `RemoveAll` (807–809), while `r.pos` still points into it.
   - The next Sync snapshots the generation, but the replicated WAL bytes
     below `r.pos` are gone. `genswitch` shows the trace.
   - The invariant is stated for a generation that has a snapshot,
     because before the first snapshot exists nothing is restorable by
     design.
3. **Forced retention snapshot is a no-op at an existing index
   (divergence, line 484).** A generation survives with only an expired
   snapshot.
4. **Retention removes the active WAL when the replica lags the database
   index (divergence, line 869).**
5. **`WALIndexAt` reports an index it never found (divergence, lines
   674 and 697).**
   - When the WAL directory is missing, it returns `(0, nil)` whatever
     `maxIndex` was asked for.
   - When no WAL file matches, `index` stays 0, so a `maxIndex` of 0
     passes the check at line 697.
   - spec.md 4.5 says a specified index that is not reached fails with
     `IndexNotFound`. `walindex` shows the trace of the missing
     directory. The `maxIndex = 0` case has no kept trace: it follows
     from reading line 697.
6. **`SnapshotIndexAt` breaks mtime ties toward the lowest index
   (divergence, line 658).**
   - The loop replaces its choice only when `fi.ModTime().After(max)`.
     Of snapshots with equal mtimes it keeps the first in `ReadDir`'s
     name order, which is the lowest index.
   - The interface comments (51–52, 636–637) say it returns the highest
     index. spec.md 4.5 says ties cannot happen because a later index
     always has a later mtime. On a filesystem with coarse mtimes that
     does not hold.
   - `snapshottie` shows the trace: `1.snapshot.gz` and `2.snapshot`
     both at mtime 1, and the call returns 1.
   - `SnapshotIndexAtCorrect`, which `lookup` checks and
     `LookupProofs` proves, states what the code does.

## Proofs

`ReplicaProofs.tla` proves `THEOREM TypeCorrect == Spec => []TypeOK` for
all values of the constants. The only assumption is `ConstantsAssumption`
in `Replica.tla`: `NoGen \notin Gen`, the bounds are naturals, and
`MonitorEnabled` is Boolean.

`TypeOK` alone is not inductive. The lookups `shadow[dbGen][0]`,
`wal[rd.gen][rd.idx]` and `snap[rpos.gen][...]` are typed only when the
goroutines' locals name real generations. So the proof uses `TypeInv`,
which adds these facts:
- the current generation has a shadow WAL file 0;
- a `pos` with no generation is the zero position;
- a monitor in `syncwal` has `pos.gen \in Gen`;
- a busy monitor has `mgen \in Gen`;
- a retainer about to snapshot has `rpos.gen \in Gen`.

`TypeInv` is split into `BoolOK` (the Boolean variables, proved by Zenon)
and `DataInv` (the rest, by SMT). The proof has one step per action, and
lemmas for the shadow reader (`ReaderType`), `Written` and
`TakeSnapshot`.

### Refinement (`ReplicaRefinementProofs.tla`)

`THEOREM Implements == Spec => RefinesAbstract` holds for all values of
the constants. It rests on the inductive invariant `RefInv`, whose
conjuncts are these:
- `DBPosInv`: DB.Pos() names a shadow file and none lies past it.
- `WALInv`: every WAL file stands for a shadow file and is no longer
  than it.
- `SnapInv`: every snapshot stands for a shadow file.
- `PosInv`: `r.pos` is zero or inside its shadow file.
- `LocalsInv`: Sync reaches CalcPos only with `r.pos` zero, and a
  retainer about to snapshot holds a position with a shadow file.

`PosInv` is what `Abstract!Replicate` needs: the position each step
publishes is inside the shadow WAL. The other conjuncts are needed to
keep it inductive, for three reasons:
- CalcPos reads WAL sizes and snapshot indexes, so they must lie inside
  the shadow WAL (`WALInv`, `SnapInv`).
- A checkpoint or a new generation creates a shadow file only where none
  was (`DBPosInv`).
- CalcPos and the retention snapshot use goroutine locals (`LocalsInv`).

The step proof sorts the actions by what they do to the abstract state:
- the database's actions are `DBChange` steps;
- `SyncWAL` and `SyncCalcPos` are `Replicate` steps. The shadow reader
  moves forward in the generation or into the current one
  (`ReaderInShadow`), and CalcPos starts from zero;
- `Crash` is `Restart`;
- every other action leaves the mapped variables alone.

### Restorability with one generation (`RestorableProofs.tla`)

`THEOREM RestorableOneGeneration` proves `Spec => []RestorableLastPos`
under the one assumption `Gen = {g}`, for every other value of the
constants (both values of `MonitorEnabled`, any bounds, failures and
crashes). With two generations the property is false (finding 2).

`RestorableLastPos` is not inductive, so the proof uses `RestInv(g)`.
It calls a position `x` *good* (`Good(g, x)`) when three things hold:
- every WAL file at or past `x` is a faithful prefix (`Faithful`);
- every WAL file from `x` on that lies below another WAL file, or below
  `r.pos`, is whole;
- `r.pos`, if it is at or past `x`, is covered by its file.

`RestInv(g)` says that the following are good:
- the highest snapshot;
- DB.Pos(), where Sync's first snapshot and the forced retention snapshot
  are taken;
- the position a retainer in `snapshot` is about to snapshot, when it
  lies above every snapshot.

It also says that a retainer past its listing holds a non-empty kept
list of existing snapshots. That is what keeps a prune from removing the
generation or the highest snapshot.

The argument behind each step:
- A hole can only be written where `r.pos` is not covered, which is below
  every good position. This is the case of hazard 869: syncWAL recreating
  a file that retention pruned under a lagging `r.pos`.
- Retention removes only files below the earliest kept snapshot, which
  is at or below every good position.
- CalcPos lands at the end of the highest WAL file, or at the highest
  snapshot.
- New snapshots are taken at good positions.

`WriteGood` covers both the successful and the partial `syncWAL` write
in one lemma.

The `restinv` run checks `RestInv` with TLC, and a mutant breaks it.
`MCRestorable` proves that run's invariant, `RestInvOneGenAlways`, and
the `syncend` run's invariant, `EndInvOneGenAlways`, from the same
lemmas. Both assume `Gen = MCOneGen`, the cfgs' value.

### Where a successful Sync leaves `LastPos()` (`SyncEndProofs.tla`)

`THEOREM SyncEndsAtWALEndOneGeneration` proves `Spec => SyncEndsAtWALEnd`
under two assumptions, `Gen = {g}` and `~MonitorEnabled`, for every
bound, failure and crash count. Both assumptions are needed. TLC found
the property false without either during development, but no run of
the project keeps those counterexamples:
- With the goroutines interleaved, retention can prune the WAL file
  `r.pos` names between syncWAL's `io.EOF` and Sync's return.
- With two generations, retention can `RemoveAll` the current one under
  `r.pos`.
`MonitorEnabled = FALSE` is how the tests drive the replica: they call
`Sync` and `EnforceRetention` themselves.

The property is about the `SyncCompress` step, but what makes it hold is
set up at `io.EOF`. At that point the reader's position is DB.Pos(), the
end of the last shadow file, so no WAL file lies above it. The inductive
invariant `EndInv(g)` has four parts, on top of `TypeInv`, `RefInv` and
`RestInv(g)`:
- `ShadowShape`: the shadow files of `g` are exactly those of indexes
  `0..dbIdx`.
- `Exclusive`: Sync and EnforceRetention never overlap.
- `PosFile`: the WAL file at `r.pos` holds `r.pos`'s bytes, unless
  `r.pos` lags DB.Pos() or CalcPos found no WAL file.
- A monitor about to compress has `r.pos` at the WAL end.

Retention keeps the file at `r.pos` because it prunes only below a kept
snapshot, and every snapshot is at or below DB.Pos() (`BelowDB`). The
`syncend` run checks `EndInv` on the instance of `seq`.

### The lookups and readers (`LookupProofs.tla`)

Five theorems hold for every `MaxIndex` and `MaxTime`. Their only
assumption is `LookupAssumption`: the bounds are naturals and mtimes
start at 1.
- `LookupTypeCorrect`: `Spec => []TypeOK`.
- `SnapshotIndexAtCorrectness`: `Spec => []SnapshotIndexAtCorrect`.
- `WALIndexAtLatestness`: `Spec => []WALIndexAtLatest`.
- `ReaderOpensIndexAlways`: `Spec => []ReaderOpensIndex`.
- `LookupInvariant`: `Spec => []LookupInv`, from which the other four
  follow.

`LookupInv` adds one loop invariant per scan, over the files the loop
has visited (`Visited(next)`):
- `SnapshotIndexAt`: `index` and `max` are those of a latest snapshot
  seen not after the timestamp, or `-1` and zero if there is none yet.
  Among the snapshots seen with that mtime, `index` is the lowest.
  A later name that ties has an index at least as high (`NameOrder`),
  so the strict `After` keeping the old choice keeps the lowest.
- `WALIndexAt`: `index` is the greatest WAL index seen that is not after
  the timestamp and not above `maxIndex`, or 0 if there is none yet.
- `SnapshotReader`: no snapshot of the index has been visited.

`LookupInv` also says:
- a directory that cannot be read has no files;
- the loop state before the first step;
- WALReader's second open follows a failed first one.

Each turn adds the name it visits to the visited set (`NextVisited`,
`SeenStep`). When the loop ends, the visited set is every file
(`AllVisited`). At that point the loop invariant is the property.

`SnapshotReader` prefers `.snapshot` over `.snapshot.gz` only because of
the name order. `GzAfterPlain` proves that from the positions:
`NamePlace` puts index `i`'s `e`-th extension at name `3i + e`.

This needed one change to the model. `ReadDir`'s result used to be a
sequence built with `SelectSeq`, consumed by `Head` and `Tail`. The
provers cannot reason about `SelectSeq`, so the loop now walks the
directory's names with a cursor. The steps, and the states TLC
explores, are the same.

### Only model-checked

TLC alone checks the following:
- The retention properties, on the bounded instances above.
- Nothing about `SyncEndsAtWALEnd` with the goroutines interleaved or
  with two generations. It fails there (see SyncEndProofs above), but
  no kept run checks it.
- `RestorableLastPos` with more than one generation, where it fails.
- Liveness (`CatchesUp`). TLAPS cannot reason about `ENABLED` and
  fairness here.
- `WALIndexAtFound`, which fails (finding 5).

## Not modelled, and the plan

- **Path codec, stats, `Stop`.** Pure formatting, read-only reporting, and
  context cancellation. `Lookup` keeps what the codec decides: the name
  order of `ReadDir` and which extensions the parsers accept.
- **The compress loop and `compressFile`.** They are unreachable through
  the glob (finding 1). Next: a module of their own with a crash between
  `compressFile` and `os.Remove`, and between the write and the rename of
  the `.tmp`.
- **A restore that chains the lookups** while retention prunes (hazard
  708). `Lookup` runs one call on a fixed directory.
- **Liveness with failures** (hazard 404): a monitor whose Sync fails
  waits for the next notification.
- **A concurrent run with two generations** (the stale snapshot list
  against a new generation).
