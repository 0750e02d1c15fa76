----------------------------- MODULE Lifecycle -----------------------------
(***************************************************************************)
(* The graph of run stages (internal/lifecycle/lifecycle.go) and the       *)
(* run_stages table it guards.  A run's history is a sequence of distinct  *)
(* stages (INSERT ... ON CONFLICT(run_id, stage) DO NOTHING).  Validate    *)
(* looks at the latest one only, so the set of recorded stages and the     *)
(* latest of them stand for the history.                                   *)
(***************************************************************************)
EXTENDS Naturals

(* The latest stage of an empty history.                                   *)
NoStage == "NONE"

Stages ==
  {"PARSED", "PREFLIGHTED", "ROUTED", "QUOTA_RESERVED", "WORKSPACE_READY",
   "AGENT_RUNNING", "OUTPUT_TRUNCATED", "DESCENDANTS_TERMINATED", "AUDITED",
   "VALIDATING", "ASSAYING", "FINAL_VALIDATION_BARRIER", "MERGE_INTENT",
   "MERGE_APPLIED", "ROOT_COMMITTED", "MERGED", "LEDGER_FINALIZING",
   "APPROVED", "COMPLETE", "QUARANTINED", "ROLLED_BACK",
   "MERGED_LEDGER_PENDING", "CLEANUP_PENDING", "ABANDONED"}

TerminalStages == {"COMPLETE", "ROLLED_BACK", "ABANDONED", "MERGED_LEDGER_PENDING"}

RecoveryTargets == {"CLEANUP_PENDING", "ABANDONED", "QUARANTINED"}

Transitions ==
  [s \in Stages |->
     CASE s = "PARSED" -> {"PREFLIGHTED"}
       [] s = "PREFLIGHTED" -> {"QUARANTINED", "ROUTED"}
       [] s = "ROUTED" -> {"QUARANTINED", "QUOTA_RESERVED"}
       [] s = "QUOTA_RESERVED" -> {"WORKSPACE_READY", "QUARANTINED"}
       [] s = "WORKSPACE_READY" -> {"AGENT_RUNNING"}
       [] s = "AGENT_RUNNING" -> {"OUTPUT_TRUNCATED", "DESCENDANTS_TERMINATED"}
       [] s = "OUTPUT_TRUNCATED" -> {"DESCENDANTS_TERMINATED"}
       [] s = "DESCENDANTS_TERMINATED" -> {"AUDITED"}
       [] s = "AUDITED" -> {"VALIDATING"}
       [] s = "VALIDATING" -> {"ASSAYING", "FINAL_VALIDATION_BARRIER", "QUARANTINED"}
       [] s = "ASSAYING" -> {"FINAL_VALIDATION_BARRIER", "QUARANTINED"}
       [] s = "FINAL_VALIDATION_BARRIER" -> {"MERGE_INTENT", "MERGED", "QUARANTINED"}
       [] s = "MERGE_INTENT" -> {"MERGE_APPLIED", "QUARANTINED"}
       [] s = "MERGE_APPLIED" -> {"ROOT_COMMITTED"}
       [] s = "ROOT_COMMITTED" -> {"MERGED", "LEDGER_FINALIZING", "MERGED_LEDGER_PENDING"}
       [] s = "MERGED" -> {"LEDGER_FINALIZING", "APPROVED", "QUARANTINED",
                           "MERGED_LEDGER_PENDING"}
       [] s = "LEDGER_FINALIZING" -> {"APPROVED", "QUARANTINED", "MERGED_LEDGER_PENDING"}
       [] s = "APPROVED" -> {"COMPLETE", "ROLLED_BACK", "MERGED_LEDGER_PENDING"}
       [] s = "QUARANTINED" -> {"COMPLETE", "MERGED_LEDGER_PENDING"}
       [] s = "COMPLETE" -> {"ROLLED_BACK"}
       [] s = "CLEANUP_PENDING" -> RecoveryTargets
       [] OTHER -> {}]

(* Mutant: the edges of a run without an assay and of a run that completes *)
(* are missing.                                                            *)
Validate_MissingEdges(latest, next) ==
  \/ latest = NoStage /\ next = "PARSED"
  \/ latest # NoStage /\ next = latest
  \/ latest # NoStage /\ latest \notin TerminalStages /\ next \in RecoveryTargets
  \/ /\ latest # NoStage /\ next \in Transitions[latest]
     /\ ~(latest = "VALIDATING" /\ next = "FINAL_VALIDATION_BARRIER")
     /\ ~(latest = "APPROVED" /\ next = "COMPLETE")

(* Validate: may next be recorded after latest?                            *)
Validate(latest, next) ==
  \/ latest = NoStage /\ next = "PARSED"
  \/ latest # NoStage /\ next = latest
  \/ latest # NoStage /\ latest \notin TerminalStages /\ next \in RecoveryTargets
  \/ latest # NoStage /\ next \in Transitions[latest]

(* RecordStage: the latest stage after inserting next.                     *)
LatestAfter(reached, latest, next) == IF next \in reached THEN latest ELSE next

=============================================================================
