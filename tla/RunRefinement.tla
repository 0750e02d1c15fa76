--------------------------- MODULE RunRefinement ---------------------------
(***************************************************************************)
(* RunPipeline implements RunOutcome: the state an operator can see of a   *)
(* run, computed from the state of runOnce, recovery, replay and rollback. *)
(* The mapping is for builds other than darwin, where a run may be         *)
(* rejected although its merge is committed (DarwinNeverMerges).           *)
(***************************************************************************)
EXTENDS RunPipeline

aliveNow == IF pc \in Ended THEN "no" ELSE "yes"

proofNow ==
  IF "FINAL_VALIDATION_BARRIER" \in reached /\ "extinct" \in facts THEN "yes" ELSE "no"

placeNow ==
  CASE root = "base" -> "untouched"
    [] root = "reverted" -> "undone"
    [] root \in {"partial", "merged"} /\ "rollbackFailed" \in facts -> "stuck"
    [] root = "partial" /\ "rollbackFailed" \notin facts -> "changing"
    [] root = "merged" /\ facts \cap {"rollbackFailed", "rootCommitted"} = {} -> "holds"
    [] OTHER -> "committed"

decisionNow ==
  CASE verdict = "none" -> "none"
    [] verdict = "APPROVED" -> "accepted"
    [] verdict = "QUARANTINED" -> "rejected"

ledgerNow ==
  CASE row = "absent" -> "none"
    [] row = "RUNNING" -> "open"
    [] row = "APPROVED" -> "approved"
    [] row \in {"QUARANTINED", "ABANDONED"} -> "closed"
    [] row = "MERGED_LEDGER_PENDING" -> "pending"
    [] row = "ROLLED_BACK" -> "rolledBack"

Outcome == INSTANCE RunOutcome WITH
  alive <- aliveNow, proof <- proofNow, place <- placeNow,
  decision <- decisionNow, ledger <- ledgerNow

(***************************************************************************)
(* Whatever fails, dies, recovers, replays or rolls back, an operator sees *)
(* only what RunOutcome allows: the root moves under the run's living      *)
(* process and its proof, is taken back or reported stuck, stays once      *)
(* committed until an approved run is rolled back; the row says approved   *)
(* only of an accepted run whose work is on the root, pending only of a    *)
(* committed one.                                                          *)
(***************************************************************************)
ImplementsOutcome == Outcome!OutcomeSpec

=============================================================================
