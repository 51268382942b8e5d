--------------------------- MODULE ReplicaAbstract ---------------------------
(***************************************************************************)
(* What a replica promises about LastPos(), whatever its files: the        *)
(* position it reports as replicated never lies past the source database's *)
(* shadow WAL, and it only moves forward within a generation, or over to   *)
(* the database's current generation, or back to zero when the process     *)
(* restarts (spec.md 8, "Monotonicity").  The database's shadow WAL files  *)
(* only grow.                                                              *)
(***************************************************************************)
EXTENDS Integers

CONSTANTS Gen, NoGen, MaxIndex, MaxOffset

VARIABLES
    dbGen,      \* generation of DB.Pos()
    dbIdx,      \* index of DB.Pos()
    shadow,     \* shadow[g][i]: size of shadow WAL file i of g, NoShadow if none
    lastPos     \* what LastPos() returns

Idx      == 0..MaxIndex
Off      == 0..MaxOffset
NoShadow == -1
ZeroPos  == [gen |-> NoGen, idx |-> 0, off |-> 0]
PosType  == [gen : Gen \cup {NoGen}, idx : Idx, off : Off]

absVars == <<dbGen, dbIdx, shadow, lastPos>>

\* Position p names bytes the database has written.
InShadow(p) ==
    \/ p = ZeroPos
    \/ /\ p.gen \in Gen
       /\ shadow[p.gen][p.idx] # NoShadow
       /\ p.off <= shadow[p.gen][p.idx]

\* q is p or later in the same generation.
NotBefore(q, p) ==
    /\ q.gen = p.gen
    /\ \/ q.idx > p.idx
       \/ q.idx = p.idx /\ q.off >= p.off

Init ==
    /\ dbGen = NoGen
    /\ dbIdx = 0
    /\ shadow = [g \in Gen |-> [i \in Idx |-> NoShadow]]
    /\ lastPos = ZeroPos

\* The database writes, checkpoints or starts a generation: no shadow file
\* shrinks or disappears, and DB.Pos() names a shadow file.
DBChange ==
    /\ shadow' \in [Gen -> [Idx -> {NoShadow} \cup Off]]
    /\ \A g \in Gen, i \in Idx : shadow'[g][i] >= shadow[g][i]
    /\ dbGen' \in Gen
    /\ dbIdx' \in Idx
    /\ shadow'[dbGen'][dbIdx'] # NoShadow
    /\ UNCHANGED lastPos

\* The replica publishes a new position: from zero anywhere, else forward in
\* its generation or into the database's current generation.
Replicate ==
    /\ lastPos' \in PosType
    /\ InShadow(lastPos')
    /\ \/ lastPos = ZeroPos
       \/ NotBefore(lastPos', lastPos)
       \/ lastPos'.gen = dbGen /\ lastPos'.gen # lastPos.gen
    /\ UNCHANGED <<dbGen, dbIdx, shadow>>

\* The process restarts and forgets its position.
Restart ==
    /\ lastPos' = ZeroPos
    /\ UNCHANGED <<dbGen, dbIdx, shadow>>

Next == DBChange \/ Replicate \/ Restart

Spec == Init /\ [][Next]_absVars

=============================================================================
