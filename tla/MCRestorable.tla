---------------------------- MODULE MCRestorable ----------------------------
(* Model-checking instance of the invariants RestorableProofs and           *)
(* SyncEndProofs prove inductive: one generation, model values for its     *)
(* names.  The theorems at the end carry the proofs over to the runs'      *)
(* invariants.                                                             *)
EXTENDS SyncEndProofs

CONSTANTS g1, g2

MCOneGen == {g1}

(* The strengthening of RestorableLastPos for the one generation g1: the  *)
(* highest snapshot, DB.Pos() and a pending forced retention snapshot    *)
(* above every snapshot are good positions, and EnforceRetention's kept   *)
(* list names existing snapshots, so that no interleaving of Sync,        *)
(* EnforceRetention, failed writes and restarts leaves a hole or a        *)
(* missing WAL file between the highest snapshot and r.pos.               *)
RestInvOneGen == RestInv(g1)

(* The strengthening of SyncEndsAtWALEnd for the one generation g1, with  *)
(* Sync and EnforceRetention called in turn: the shadow WAL is 0..dbIdx,  *)
(* the two calls never overlap, the WAL file at r.pos holds r.pos unless  *)
(* r.pos lags DB.Pos() or there is no WAL file, and a Sync about to      *)
(* return has r.pos at the end of its generation's highest WAL file:      *)
(* no sequence of syncWAL failures, restarts, checkpoints and prunes      *)
(* breaks Sync's postcondition.                                           *)
EndInvOneGen == EndInv(g1)

-----------------------------------------------------------------------------
(* The runs' invariants hold for every bound, failure and crash count.    *)

(* With g1 the one generation, no interleaving of Sync, EnforceRetention, *)
(* failed writes and restarts breaks RestInvOneGen.                        *)
THEOREM RestInvOneGenAlways ==
    ASSUME Gen = MCOneGen
    PROVE  Spec => []RestInvOneGen
<1>1. Gen = {g1}
  BY DEF MCOneGen
<1>2. Init => TypeInv /\ RefInv /\ RestInv(g1)
  BY <1>1, InitTypeInv, InitRefInv, InitRestInv
<1>3. TypeInv /\ RefInv /\ RestInv(g1) /\ [Next]_vars
        => (TypeInv /\ RefInv /\ RestInv(g1))'
  BY <1>1, NextTypeInv, NextRefInv, NextRestInv
<1>. QED
  BY <1>2, <1>3, PTL DEF Spec, RestInvOneGen

(* With g1 the one generation and Sync and EnforceRetention called in     *)
(* turn, no sequence of syncWAL failures, restarts, checkpoints and       *)
(* prunes breaks EndInvOneGen.                                             *)
THEOREM EndInvOneGenAlways ==
    ASSUME Gen = MCOneGen, ~MonitorEnabled
    PROVE  Spec => []EndInvOneGen
<1>1. Gen = {g1}
  BY DEF MCOneGen
<1> DEFINE I == TypeInv /\ RefInv /\ RestInv(g1) /\ EndInv(g1)
<1>2. Init => I
  BY <1>1, InitTypeInv, InitRefInv, InitRestInv, InitEndInv
<1>3. I /\ [Next]_vars => I'
  BY <1>1, NextTypeInv, NextRefInv, NextRestInv, NextEndInv
<1>. QED
  BY <1>2, <1>3, PTL DEF Spec, EndInvOneGen

=============================================================================
