---------------------------- MODULE RunPipeline ----------------------------
(***************************************************************************)
(* One governed run: runOnce (internal/runtime/runtime.go) from the first  *)
(* checkpoint to its return, statement group by statement group, with the  *)
(* deferred releases that unwind it; and everything that may touch the run *)
(* after its process returned or died: crash recovery (recovery.go), the   *)
(* replay of queued operations by `gov reconcile` (reconcile.go) and       *)
(* `gov run rollback`.  The process may die between any two steps, and any *)
(* ledger write may fail.                                                  *)
(*                                                                         *)
(* What the checks of a step look at (policy, routing, validators, audit,  *)
(* assay) is a free choice of their outcome; what they lead to is not.     *)
(* WorkspaceLock models the lock, Outbox the queue: here the lock is free  *)
(* once the process has returned or died, and a queued operation stays     *)
(* queued until a replay of it succeeds.                                   *)
(***************************************************************************)
EXTENDS Lifecycle

CONSTANTS Configs,     \* the kinds of run that are looked at, see config
          Recoverers,  \* processes running `gov run resume/abandon/recover`
          MaxFaults    \* bound: failed ledger writes and teardowns

ASSUME ConfigAssumption == Configs \subseteq SUBSET {"git", "darwin", "assay"}
ASSUME FaultsAssumption == MaxFaults \in Nat

VARIABLES
  config,    \* what is true of the run throughout, see Git, Darwin and Assay
  pc,        \* the step the run's process is at
  facts,     \* what the process has established
  verdict,   \* rec.Status, once decided
  armed,     \* deferred releases that are registered and still due
  reached,   \* run_stages: the recorded stages
  latest,    \* run_stages: the latest of them
  row,       \* runs.status
  res,       \* the one-shot override, spend and quota reservations
  ws,        \* the worktree directory
  branch,    \* the job branch
  work,      \* the worktree's content
  root,      \* the live root's content
  outbox,    \* maintenance_outbox: queued operations
  unqueued,  \* history: operations whose enqueue failed too
  slips,     \* history: what became of the run's stage writes
  faults,
  rpc,       \* the step each recoverer is at
  rstatus,   \* the status each recoverer decided on
  rb         \* the step of `gov run rollback`

process == <<pc, facts, verdict, armed>>
stages == <<reached, latest, slips>>
space == <<ws, branch, work>>
queue == <<outbox, unqueued>>
others == <<config, rpc, rstatus, rb>>
vars == <<process, stages, row, res, space, root, queue, faults, others>>

Git == "git" \in config        \* the root is a git repository
Darwin == "darwin" \in config  \* RuntimeGOOS = "darwin"
Assay == "assay" \in config    \* the contract declares an assay

Reservations == {"shot", "spend", "quota"}

ReservationStates == {"none", "held", "settled", "released"}

RowStatuses == {"absent", "RUNNING", "APPROVED", "QUARANTINED", "ABANDONED",
                "MERGED_LEDGER_PENDING", "ROLLED_BACK"}

Facts == {"violation", "rootCommitted", "launched", "extinct", "gateError",
          "rollbackFailed", "preserved"}

(* op_kind and payload of a queued operation.                              *)
Op(kind, arg) == [kind |-> kind, arg |-> arg]

Ops == [kind : {"stage"}, arg : Stages]
  \cup [kind : {"runUpdate"}, arg : {"APPROVED", "QUARANTINED"}]
  \cup [kind : {"destroy"}, arg : {"approved", "quarantined"}]
  \cup [kind : {"release", "settle"}, arg : Reservations]
  \cup [kind : {"evidence", "feedback"}, arg : {"run"}]

Steps == {"parse", "preflight", "budget", "route", "gate", "refuseRow",
          "refuseStage", "spend", "quota", "quotaStage", "prepare", "insert",
          "ready", "agent", "consume", "launch", "observe", "extinguish",
          "proof", "audit", "checks", "validate", "assay", "barrier", "merge",
          "intent", "build", "sync", "applied", "rollback", "rootCommitted",
          "copy", "copied", "restore", "merged", "decide", "finalize",
          "terminal", "update", "evidence", "settleQuota", "settleSpend",
          "feedback", "complete", "destroy", "pendingRow", "pendingStage",
          "unwind"}

Ended == {"returned", "dead"}

TypeOK ==
  /\ config \in Configs
  /\ pc \in Steps \cup Ended
  /\ facts \in SUBSET Facts
  /\ verdict \in {"none", "APPROVED", "QUARANTINED"}
  /\ armed \in SUBSET (Reservations \cup {"ws"})
  /\ reached \in SUBSET Stages
  /\ latest \in Stages \cup {NoStage}
  /\ row \in RowStatuses
  /\ res \in [Reservations -> ReservationStates]
  /\ ws \in {"none", "present", "gone"}
  /\ branch \in {"none", "job", "evidence"}
  /\ work \in {"clean", "edited"}
  /\ root \in {"base", "partial", "merged", "reverted"}
  /\ outbox \in SUBSET Ops
  /\ unqueued \in SUBSET Ops
  /\ slips \in SUBSET {"refused", "dropped"}
  /\ faults \in 0..MaxFaults
  /\ rpc \in [Recoverers -> {"idle", "release", "destroy", "update", "record"}]
  /\ rstatus \in [Recoverers -> {"ABANDONED", "QUARANTINED"}]
  /\ rb \in {"idle", "reverted", "updated"}

(* runOnce holds the workspace lock and has opened the ledger.             *)
Init ==
  /\ config \in Configs
  /\ pc = "parse" /\ facts = {} /\ verdict = "none" /\ armed = {}
  /\ reached = {} /\ latest = NoStage /\ slips = {}
  /\ row = "absent"
  /\ res = [k \in Reservations |-> "none"]
  /\ ws = "none" /\ branch = "none" /\ work = "clean" /\ root = "base"
  /\ outbox = {} /\ unqueued = {} /\ faults = 0
  /\ rpc = [r \in Recoverers |-> "idle"]
  /\ rstatus = [r \in Recoverers |-> "QUARANTINED"]
  /\ rb = "idle"

-----------------------------------------------------------------------------
(* Ledger writes                                                           *)

(* A statement returns an error.                                           *)
Fault == faults < MaxFaults /\ faults' = faults + 1

(* lifecycle.Record succeeds.                                              *)
Record(s) ==
  /\ Validate(latest, s)
  /\ reached' = reached \cup {s}
  /\ latest' = LatestAfter(reached, latest, s)
  /\ UNCHANGED <<slips, faults>>

(* lifecycle.Record returns an error: Validate refuses the stage, or the   *)
(* ledger fails; slip notes a failure the run goes on after.               *)
RecordError(s, slip) ==
  /\ \/ ~Validate(latest, s) /\ slips' = slips \cup {"refused"} /\ UNCHANGED faults
     \/ Validate(latest, s) /\ Fault /\ slips' = slips \cup slip
  /\ UNCHANGED <<reached, latest>>

(* noteOperationalFailure: the enqueue itself is best effort.              *)
Enqueue(op) ==
  \/ outbox' = outbox \cup {op} /\ UNCHANGED unqueued
  \/ unqueued' = unqueued \cup {op} /\ UNCHANGED outbox

(* A checkpoint whose failure ends the run.                                *)
Checkpoint(from, s, to) ==
  /\ pc = from
  /\ \/ Record(s) /\ pc' = to
     \/ RecordError(s, {}) /\ pc' = "unwind"
  /\ UNCHANGED <<facts, verdict, armed, row, res, space, root, queue, others>>

(* A checkpoint whose failure is queued for `gov reconcile`.               *)
BestEffort(from, s, to) ==
  /\ pc = from
  /\ \/ Record(s) /\ UNCHANGED queue
     \/ RecordError(s, {"dropped"}) /\ Enqueue(Op("stage", s))
  /\ pc' = to
  /\ UNCHANGED <<facts, verdict, armed, row, res, space, root, others>>

(* The run goes from one step to another and nothing else changes.         *)
Goto(to) ==
  /\ pc' = to
  /\ UNCHANGED <<facts, verdict, armed, stages, row, res, space, root, queue,
                 faults, others>>

(* An error return of runOnce that no ledger write is responsible for.     *)
ErrorReturn ==
  /\ pc \in {"budget", "route", "gate", "spend", "quota", "prepare", "agent",
             "consume", "launch"}
  /\ Goto("unwind")

-----------------------------------------------------------------------------
(* From the contract to the agent                                          *)

Parsed == Checkpoint("parse", "PARSED", "preflight")

Preflighted == Checkpoint("preflight", "PREFLIGHTED", "budget")

(* spend.CheckBudget: proceed, or refuse the run.                          *)
CheckBudget == pc = "budget" /\ (Goto("route") \/ Goto("refuseRow"))

Routed == Checkpoint("route", "ROUTED", "gate")

(***************************************************************************)
(* evaluatePolicyGate claims the one-shot overrides in scope: a gate that  *)
(* blocks has released them again, one that lets the run pass leaves those *)
(* it applied reserved, and an error in between leaves them reserved with  *)
(* nobody to release them.                                                 *)
(***************************************************************************)
PolicyGate ==
  /\ pc = "gate"
  /\ \/ Goto("refuseRow")
     \/ Goto("spend")
     \/ /\ res' = [res EXCEPT !["shot"] = "held"]
        /\ armed' = armed \cup {"shot"}
        /\ pc' = "spend"
        /\ UNCHANGED <<facts, verdict, stages, row, space, root, queue, faults, others>>
     \/ /\ Fault
        /\ res' = [res EXCEPT !["shot"] = "held"]
        /\ facts' = facts \cup {"gateError"}
        /\ pc' = "unwind"
        /\ UNCHANGED <<verdict, armed, stages, row, space, root, queue, others>>

(* spend.ReserveGlobal; its deferred release is armed at once.             *)
ReserveSpend ==
  /\ pc = "spend"
  /\ \/ Goto("refuseRow")
     \/ /\ res' = [res EXCEPT !["spend"] = "held"]
        /\ armed' = armed \cup {"spend"}
        /\ pc' = "quota"
        /\ UNCHANGED <<facts, verdict, stages, row, space, root, queue, faults, others>>

(* quota.Reserve; its deferred release is armed only after QUOTA_RESERVED. *)
ReserveQuota ==
  /\ pc = "quota"
  /\ \/ Goto("refuseRow")
     \/ /\ res' = [res EXCEPT !["quota"] = "held"]
        /\ pc' = "quotaStage"
        /\ UNCHANGED <<facts, verdict, armed, stages, row, space, root, queue, faults, others>>

QuotaReserved ==
  /\ pc = "quotaStage"
  /\ \/ /\ Record("QUOTA_RESERVED")
        /\ armed' = armed \cup {"quota"}
        /\ pc' = "prepare"
     \/ /\ RecordError("QUOTA_RESERVED", {})
        /\ pc' = "unwind"
        /\ UNCHANGED armed
  /\ UNCHANGED <<facts, verdict, row, res, space, root, queue, others>>

(* A refused run: its row is inserted as QUARANTINED ...                   *)
RefuseRow ==
  /\ pc = "refuseRow"
  /\ \/ row' = "QUARANTINED" /\ pc' = "refuseStage" /\ UNCHANGED faults
     \/ Fault /\ pc' = "unwind" /\ UNCHANGED row
  /\ UNCHANGED <<facts, verdict, armed, stages, res, space, root, queue, others>>

(* ... its completion is recorded, and the stage.                          *)
RefuseStage ==
  \/ Checkpoint("refuseStage", "QUARANTINED", "unwind")
  \/ /\ pc = "refuseStage" /\ Fault /\ pc' = "unwind"
     /\ UNCHANGED <<facts, verdict, armed, stages, row, res, space, root, queue, others>>

(* A strict replay returns an earlier run's record; otherwise Prepare      *)
(* makes the worktree and the job branch.                                  *)
Prepare ==
  /\ pc = "prepare"
  /\ \/ Goto("unwind")
     \/ /\ ws' = "present"
        /\ branch' = IF Git THEN "job" ELSE "none"
        /\ armed' = armed \cup {"ws"}
        /\ pc' = "insert"
        /\ UNCHANGED <<facts, verdict, stages, row, res, work, root, queue, faults, others>>

InsertRun ==
  /\ pc = "insert"
  /\ \/ row' = "RUNNING" /\ pc' = "ready" /\ UNCHANGED faults
     \/ Fault /\ pc' = "unwind" /\ UNCHANGED row
  /\ UNCHANGED <<facts, verdict, armed, stages, res, space, root, queue, others>>

WorkspaceReady == Checkpoint("ready", "WORKSPACE_READY", "agent")

AgentRunning == Checkpoint("agent", "AGENT_RUNNING", "consume")

(* With no time left nothing is launched; otherwise the one-shot overrides *)
(* are consumed right before the launch.                                   *)
ConsumeOneShots ==
  /\ pc = "consume"
  /\ \/ Goto("observe")
     \/ /\ res' = [res EXCEPT !["shot"] = IF @ = "held" THEN "settled" ELSE @]
        /\ armed' = armed \ {"shot"}
        /\ pc' = "launch"
        /\ UNCHANGED <<facts, verdict, stages, row, space, root, queue, faults, others>>

(* rn.Launch, from the start of the agent to its end.                      *)
Launch ==
  /\ pc = "launch"
  /\ work' \in {work, "edited"}
  /\ facts' = facts \cup {"launched"}
  /\ pc' = "observe"
  /\ UNCHANGED <<verdict, armed, stages, row, res, ws, branch, root, queue, faults, others>>

-----------------------------------------------------------------------------
(* From the agent's end to the merge decision                              *)

Observe == (pc = "observe" /\ Goto("extinguish"))
           \/ BestEffort("observe", "OUTPUT_TRUNCATED", "extinguish")

(* The stage is recorded before the extinction proof is looked at.         *)
Extinguish == Checkpoint("extinguish", "DESCENDANTS_TERMINATED", "proof")

(* Mutant: an unconfirmed extinction is only reported.                     *)
ExtinctionProof_Reported ==
  /\ pc = "proof"
  /\ facts' \in {facts, facts \cup {"extinct"}}
  /\ pc' = "audit"
  /\ UNCHANGED <<verdict, armed, stages, row, res, space, root, queue, faults, others>>

(* Without a confirmed extinction the run returns an error.                *)
ExtinctionProof ==
  /\ pc = "proof"
  /\ \/ Goto("unwind")
     \/ /\ facts' = facts \cup {"extinct"}
        /\ pc' = "audit"
        /\ UNCHANGED <<verdict, armed, stages, row, res, space, root, queue, faults, others>>

Audited == Checkpoint("audit", "AUDITED", "checks")

(* The checks of the audited run add violations or not; an agent that was  *)
(* never launched is one of them.                                          *)
Validating ==
  /\ pc = "checks"
  /\ facts' \in {facts \cup {"violation"}} \cup (IF "launched" \in facts THEN {facts} ELSE {})
  /\ \/ Record("VALIDATING") /\ pc' = "validate"
     \/ RecordError("VALIDATING", {}) /\ pc' = "unwind"
  /\ UNCHANGED <<verdict, armed, row, res, space, root, queue, others>>

(* Cleanup validators (which may edit the worktree), success validators,   *)
(* PostRunValidate and the first final measurement.                        *)
RunValidators ==
  /\ pc = "validate"
  /\ facts' \in {facts, facts \cup {"violation"}}
  /\ work' \in {work, "edited"}
  /\ pc' = IF Assay /\ "violation" \notin facts' THEN "assay" ELSE "barrier"
  /\ UNCHANGED <<verdict, armed, stages, row, res, ws, branch, root, queue, faults, others>>

Assaying ==
  /\ pc = "assay"
  /\ \/ Record("ASSAYING") /\ pc' = "barrier" /\ facts' \in {facts, facts \cup {"violation"}}
     \/ RecordError("ASSAYING", {}) /\ pc' = "unwind" /\ UNCHANGED facts
  /\ UNCHANGED <<verdict, armed, row, res, space, root, queue, others>>

(***************************************************************************)
(* The second measurement, the barrier checkpoint, whose failure is a      *)
(* violation, and the refusals that come after it (development containment *)
(* mode, an assayer checkout of unknown cleanliness).                      *)
(***************************************************************************)
FinalBarrier ==
  /\ pc = "barrier" /\ pc' = "merge"
  /\ \/ "violation" \in facts /\ UNCHANGED <<facts, stages, faults>>
     \/ "violation" \notin facts /\ facts' = facts \cup {"violation"}
        /\ UNCHANGED <<stages, faults>>
     \/ "violation" \notin facts /\ Record("FINAL_VALIDATION_BARRIER")
        /\ facts' \in {facts, facts \cup {"violation"}}
     \/ "violation" \notin facts /\ RecordError("FINAL_VALIDATION_BARRIER", {})
        /\ facts' = facts \cup {"violation"}
  /\ UNCHANGED <<verdict, armed, row, res, space, root, queue, others>>

-----------------------------------------------------------------------------
(* The merge                                                               *)

(* A step of the merge fails: the run has a violation and rolls back.      *)
MergeFails(to) ==
  /\ facts' = facts \cup {"violation"}
  /\ pc' = to
  /\ UNCHANGED <<verdict, armed, row, res, space, root, queue, others>>

(* requireCleanLiveRoot for a git root, captureRecall for any other.       *)
MergeStart ==
  /\ pc = "merge"
  /\ \/ "violation" \in facts /\ Goto("decide")
     \/ "violation" \notin facts /\ Goto(IF Git THEN "intent" ELSE "copy")
     \/ "violation" \notin facts /\ MergeFails(IF Git THEN "rollback" ELSE "decide")
        /\ UNCHANGED <<stages, faults>>

MergeIntent ==
  /\ pc = "intent"
  /\ \/ /\ Record("MERGE_INTENT") /\ pc' = "build"
        /\ UNCHANGED <<facts, verdict, armed, row, res, space, root, queue, others>>
     \/ RecordError("MERGE_INTENT", {}) /\ MergeFails("rollback")

(* buildApprovedMergeTree, commit-tree and the compare-and-swap of HEAD.   *)
BuildAndCommit ==
  /\ pc = "build"
  /\ \/ MergeFails("rollback") /\ UNCHANGED <<stages, faults>>
     \/ /\ root' = "partial" /\ pc' = "sync"
        /\ UNCHANGED <<facts, verdict, armed, stages, row, res, space, queue, faults, others>>

(* Mutant: an error while the files are copied is not returned.            *)
SyncRoot_ErrorIgnored ==
  /\ pc = "sync"
  /\ root' \in {"partial", "merged"} /\ pc' = "applied"
  /\ UNCHANGED <<facts, verdict, armed, stages, row, res, space, queue, faults, others>>

(* The rest of commitAndSyncRoot: verification, file copies, real index.   *)
SyncRoot ==
  /\ pc = "sync"
  /\ \/ MergeFails("rollback") /\ UNCHANGED <<stages, faults>>
     \/ /\ root' = "merged" /\ pc' = "applied"
        /\ UNCHANGED <<facts, verdict, armed, stages, row, res, space, queue, faults, others>>

(* Mutant: a merge whose checkpoint fails is not rolled back.              *)
MergeApplied_NoRollback ==
  /\ pc = "applied"
  /\ \/ /\ Record("MERGE_APPLIED") /\ pc' = "rootCommitted"
        /\ facts' = facts \cup {"rootCommitted"}
        /\ UNCHANGED <<verdict, armed, row, res, space, root, queue, others>>
     \/ RecordError("MERGE_APPLIED", {}) /\ MergeFails("decide")

MergeApplied ==
  /\ pc = "applied"
  /\ \/ /\ Record("MERGE_APPLIED") /\ pc' = "rootCommitted"
        /\ facts' = facts \cup {"rootCommitted"}
        /\ UNCHANGED <<verdict, armed, row, res, space, root, queue, others>>
     \/ RecordError("MERGE_APPLIED", {}) /\ MergeFails("rollback")

(* rollbackLiveRoot: git reset --hard and git clean succeed, or not.       *)
RollbackLiveRoot ==
  /\ pc = "rollback" /\ pc' = "decide"
  /\ \/ root' = "base" /\ UNCHANGED facts
     \/ facts' = facts \cup {"rollbackFailed"} /\ UNCHANGED root
  /\ UNCHANGED <<verdict, armed, stages, row, res, space, queue, faults, others>>

(* Mutant: a failed checkpoint after the commit rolls the root back.       *)
RootCommitted_Strict ==
  /\ pc = "rootCommitted"
  /\ \/ /\ Record("ROOT_COMMITTED") /\ pc' = "merged"
        /\ UNCHANGED <<facts, verdict, armed, row, res, space, root, queue, others>>
     \/ RecordError("ROOT_COMMITTED", {}) /\ MergeFails("rollback")

RootCommitted == BestEffort("rootCommitted", "ROOT_COMMITTED", "merged")

(* mergeCopyChanged and the deletes of a root without git, file by file.   *)
CopyStart ==
  /\ pc = "copy"
  /\ root' = "partial" /\ pc' = "copied"
  /\ UNCHANGED <<facts, verdict, armed, stages, row, res, space, queue, faults, others>>

CopyEnd ==
  /\ pc = "copied"
  /\ \/ MergeFails("restore") /\ UNCHANGED <<stages, faults>>
     \/ /\ root' = "merged" /\ pc' = "merged"
        /\ UNCHANGED <<facts, verdict, armed, stages, row, res, space, queue, faults, others>>

(* restoreRecall.                                                          *)
RestoreRecall ==
  /\ pc = "restore" /\ pc' = "decide"
  /\ \/ root' = "base" /\ UNCHANGED facts
     \/ facts' = facts \cup {"rollbackFailed"} /\ UNCHANGED root
  /\ UNCHANGED <<verdict, armed, stages, row, res, space, queue, faults, others>>

(* The MERGED checkpoint: best effort after a git commit, else fatal.      *)
Merged ==
  \/ "rootCommitted" \in facts /\ BestEffort("merged", "MERGED", "decide")
  \/ "rootCommitted" \notin facts /\ Checkpoint("merged", "MERGED", "decide")

-----------------------------------------------------------------------------
(* From the verdict to the return                                          *)

(* On darwin a violation is added first.  A quarantined git worktree is    *)
(* committed to the job branch, if that works.                             *)
Decide ==
  /\ pc = "decide" /\ pc' = "finalize"
  /\ LET violated == "violation" \in facts \/ Darwin
     IN /\ verdict' = IF violated THEN "QUARANTINED" ELSE "APPROVED"
        /\ \/ violated /\ Git /\ branch' = "evidence"
              /\ facts' = facts \cup {"violation", "preserved"}
           \/ violated /\ facts' = facts \cup {"violation"} /\ UNCHANGED branch
           \/ ~violated /\ UNCHANGED <<facts, branch>>
  /\ UNCHANGED <<armed, stages, row, res, ws, work, root, queue, faults, others>>

(***************************************************************************)
(* A ledger write of the finalisation failed.  After a git commit the run  *)
(* goes through ledgerPending: the operation is queued and the run returns *)
(* as MERGED_LEDGER_PENDING; otherwise it returns the error.               *)
(***************************************************************************)
FinalizationFails(op) ==
  /\ \/ "rootCommitted" \in facts /\ Enqueue(op) /\ pc' = "pendingRow"
     \/ "rootCommitted" \notin facts /\ pc' = "unwind" /\ UNCHANGED queue
  /\ UNCHANGED <<facts, verdict, armed, row, res, space, root, others>>

(* ledgerPending: the row, then the stage; either may fail silently.       *)
LedgerPendingRow ==
  /\ pc = "pendingRow" /\ pc' = "pendingStage"
  /\ \/ row' = "MERGED_LEDGER_PENDING" /\ UNCHANGED faults
     \/ Fault /\ UNCHANGED row
  /\ UNCHANGED <<facts, verdict, armed, stages, res, space, root, queue, others>>

LedgerPendingStage ==
  /\ pc = "pendingStage" /\ pc' = "unwind"
  /\ Record("MERGED_LEDGER_PENDING") \/ RecordError("MERGED_LEDGER_PENDING", {})
  /\ UNCHANGED <<facts, verdict, armed, row, res, space, root, queue, others>>

LedgerFinalizing ==
  /\ pc = "finalize"
  /\ \/ "rootCommitted" \notin facts /\ Goto("terminal")
     \/ "rootCommitted" \in facts /\ Record("LEDGER_FINALIZING") /\ pc' = "terminal"
        /\ UNCHANGED <<facts, verdict, armed, row, res, space, root, queue, others>>
     \/ "rootCommitted" \in facts /\ RecordError("LEDGER_FINALIZING", {})
        /\ FinalizationFails(Op("stage", "LEDGER_FINALIZING"))

TerminalStage ==
  /\ pc = "terminal"
  /\ \/ Record(verdict) /\ pc' = "update"
        /\ UNCHANGED <<facts, verdict, armed, row, res, space, root, queue, others>>
     \/ RecordError(verdict, {}) /\ FinalizationFails(Op("stage", verdict))

UpdateRun ==
  /\ pc = "update"
  /\ \/ row' = verdict /\ pc' = "evidence"
        /\ UNCHANGED <<facts, verdict, armed, stages, res, space, root, queue, faults, others>>
     \/ Fault /\ UNCHANGED stages /\ FinalizationFails(Op("runUpdate", verdict))

(* RecordCompletion and RecordArtifacts.                                   *)
RecordEvidence ==
  /\ pc = "evidence"
  /\ \/ Goto("settleQuota")
     \/ Fault /\ UNCHANGED stages /\ FinalizationFails(Op("evidence", "run"))

(* quota.Settle and spend.SettleGlobal: a settled reservation needs no     *)
(* release; one that was taken back meanwhile is left alone.               *)
Settle(k, from, to) ==
  /\ pc = from
  /\ \/ /\ res' = [res EXCEPT ![k] = IF @ = "held" THEN "settled" ELSE @]
        /\ armed' = armed \ {k}
        /\ pc' = to
        /\ UNCHANGED <<facts, verdict, stages, row, space, root, queue, faults, others>>
     \/ Fault /\ UNCHANGED stages /\ FinalizationFails(Op("settle", k))

SettleQuota == Settle("quota", "settleQuota", "settleSpend")

SettleSpend == Settle("spend", "settleSpend", "feedback")

(* Reset hint, breaker feedback and the halt check, all best effort.       *)
Feedback ==
  /\ pc = "feedback" /\ pc' = "complete"
  /\ \/ UNCHANGED <<queue, faults>>
     \/ Fault /\ Enqueue(Op("feedback", "run"))
  /\ UNCHANGED <<facts, verdict, armed, stages, row, res, space, root, others>>

Complete ==
  \/ "rootCommitted" \in facts /\ BestEffort("complete", "COMPLETE", "destroy")
  \/ pc = "complete" /\ "rootCommitted" \notin facts /\ Goto("destroy")

(* Mutant: the branch always goes with the worktree.                       *)
Destroyed_WithBranch(kind) == ws' = "gone" /\ branch' = "none" /\ UNCHANGED work

(* destroyWorktree: the branch goes only with an approved run.             *)
Destroyed(kind) ==
  /\ ws' = "gone"
  /\ branch' = IF kind = "approved" THEN "none" ELSE branch
  /\ UNCHANGED work

(* destroyWorkspaceWithOutbox.                                             *)
DestroyWorkspace(kind) ==
  /\ armed' = armed \ {"ws"}
  /\ \/ Destroyed(kind) /\ UNCHANGED <<queue, faults>>
     \/ Fault /\ Enqueue(Op("destroy", kind)) /\ UNCHANGED space

DestroyAtEnd ==
  /\ pc = "destroy" /\ pc' = "unwind"
  /\ DestroyWorkspace(IF verdict = "APPROVED" THEN "approved" ELSE "quarantined")
  /\ UNCHANGED <<facts, verdict, stages, row, res, root, others>>

-----------------------------------------------------------------------------
(* The deferred functions, last registered first, and the return           *)

UnwindWorkspace ==
  /\ pc = "unwind" /\ "ws" \in armed
  /\ DestroyWorkspace("approved")
  /\ UNCHANGED <<pc, facts, verdict, stages, row, res, root, others>>

(* Registered after k.                                                     *)
DeferredAfter(k) ==
  CASE k = "quota" -> {"ws"}
    [] k = "spend" -> {"ws", "quota"}
    [] k = "shot" -> {"ws", "quota", "spend"}

(* Mutant: a failed release is not queued.                                 *)
UnwindReservation_NotQueued(k) ==
  /\ pc = "unwind" /\ k \in armed /\ armed \cap DeferredAfter(k) = {}
  /\ armed' = armed \ {k}
  /\ \/ /\ res' = [res EXCEPT ![k] = IF @ = "held" THEN "released" ELSE @]
        /\ UNCHANGED <<queue, faults>>
     \/ Fault /\ UNCHANGED <<queue, res>>
  /\ UNCHANGED <<pc, facts, verdict, stages, row, space, root, others>>

UnwindReservation(k) ==
  /\ pc = "unwind" /\ k \in armed /\ armed \cap DeferredAfter(k) = {}
  /\ armed' = armed \ {k}
  /\ \/ /\ res' = [res EXCEPT ![k] = IF @ = "held" THEN "released" ELSE @]
        /\ UNCHANGED <<queue, faults>>
     \/ Fault /\ Enqueue(Op("release", k)) /\ UNCHANGED res
  /\ UNCHANGED <<pc, facts, verdict, stages, row, space, root, others>>

Return == pc = "unwind" /\ armed = {} /\ Goto("returned")

(* The process dies; its memory and its deferred functions are gone.       *)
Crash ==
  /\ pc \notin Ended
  /\ pc' = "dead" /\ armed' = {}
  /\ UNCHANGED <<facts, verdict, stages, row, res, space, root, queue, faults, others>>

RunStep ==
  \/ ErrorReturn
  \/ Parsed \/ Preflighted \/ CheckBudget \/ Routed \/ PolicyGate \/ ReserveSpend
  \/ ReserveQuota \/ QuotaReserved \/ RefuseRow \/ RefuseStage \/ Prepare
  \/ InsertRun \/ WorkspaceReady \/ AgentRunning \/ ConsumeOneShots \/ Launch
  \/ Observe \/ Extinguish \/ ExtinctionProof \/ Audited \/ Validating
  \/ RunValidators \/ Assaying \/ FinalBarrier
  \/ MergeStart \/ MergeIntent \/ BuildAndCommit \/ SyncRoot \/ MergeApplied
  \/ RollbackLiveRoot \/ RootCommitted \/ CopyStart \/ CopyEnd \/ RestoreRecall
  \/ Merged \/ Decide \/ LedgerFinalizing \/ TerminalStage \/ UpdateRun
  \/ RecordEvidence \/ SettleQuota \/ SettleSpend \/ Feedback \/ Complete
  \/ DestroyAtEnd \/ LedgerPendingRow \/ LedgerPendingStage
  \/ UnwindWorkspace \/ (\E k \in Reservations : UnwindReservation(k)) \/ Return

-----------------------------------------------------------------------------
(* `gov run resume`, `abandon` and `recover --stale`                       *)

(* stageOrder from AGENT_RUNNING on; every other stage has index -1.       *)
AgentOrLater == {"AGENT_RUNNING", "AUDITED", "VALIDATING", "ASSAYING", "MERGED", "APPROVED"}

(* The worktree digest is in the detail of AGENT_RUNNING alone (and of the *)
(* barrier, which has no index).                                           *)
SafeToDiscard ==
  \/ latest \notin AgentOrLater
  \/ latest = "AGENT_RUNNING" /\ ws = "present" /\ work = "clean"

(* The row says RUNNING and the lock is not live: classify the run.        *)
RecoverBegin(r, forced) ==
  /\ rpc[r] = "idle" /\ row = "RUNNING" /\ pc \in Ended
  /\ rstatus' = [rstatus EXCEPT ![r] = IF forced \/ SafeToDiscard THEN "ABANDONED"
                                       ELSE "QUARANTINED"]
  /\ rpc' = [rpc EXCEPT ![r] = "release"]
  /\ UNCHANGED <<process, stages, row, res, space, root, queue, faults, rb, config>>

(* quota.ReleaseForRun and spend.ReleaseForRun.                            *)
RecoverRelease(r) ==
  /\ rpc[r] = "release"
  /\ res' = [k \in Reservations |->
               IF k # "shot" /\ res[k] = "held" THEN "released" ELSE res[k]]
  /\ rpc' = [rpc EXCEPT ![r] = "destroy"]
  /\ UNCHANGED <<process, stages, row, space, root, queue, faults, rstatus, rb, config>>

(* Mutant: a worktree that is gone counts as a failed teardown.            *)
RecoverDestroy_GoneFails(r) ==
  /\ rpc[r] = "destroy"
  /\ \/ /\ ws = "present" /\ Destroyed("approved")
        /\ rpc' = [rpc EXCEPT ![r] = "update"]
        /\ UNCHANGED <<stages, queue, faults>>
     \/ /\ ws # "present"
        /\ rpc' = [rpc EXCEPT ![r] = "idle"]
        /\ UNCHANGED <<stages, space, queue, faults>>
  /\ UNCHANGED <<process, row, res, root, rstatus, rb, config>>

(* destroyLeftoverWorkspace.  A failure is queued, CLEANUP_PENDING is      *)
(* recorded and the run stays RUNNING.                                     *)
RecoverDestroy(r) ==
  /\ rpc[r] = "destroy"
  /\ \/ /\ ws = "present" /\ Destroyed("approved")
        /\ rpc' = [rpc EXCEPT ![r] = "update"]
        /\ UNCHANGED <<stages, queue, faults>>
     \/ /\ ws # "present"
        /\ rpc' = [rpc EXCEPT ![r] = "update"]
        /\ UNCHANGED <<stages, space, queue, faults>>
     \/ /\ ws = "present" /\ Fault /\ Enqueue(Op("destroy", "approved"))
        /\ IF Validate(latest, "CLEANUP_PENDING")
           THEN /\ reached' = reached \cup {"CLEANUP_PENDING"}
                /\ latest' = LatestAfter(reached, latest, "CLEANUP_PENDING")
                /\ UNCHANGED slips
           ELSE UNCHANGED stages
        /\ rpc' = [rpc EXCEPT ![r] = "idle"]
        /\ UNCHANGED space
  /\ UNCHANGED <<process, row, res, root, rstatus, rb, config>>

(* UPDATE runs SET status=? WHERE id=?, whatever the status is by now.     *)
RecoverUpdate(r) ==
  /\ rpc[r] = "update"
  /\ row' = rstatus[r]
  /\ rpc' = [rpc EXCEPT ![r] = "record"]
  /\ UNCHANGED <<process, stages, res, space, root, queue, faults, rstatus, rb, config>>

RecoverRecord(r) ==
  /\ rpc[r] = "record"
  /\ IF Validate(latest, rstatus[r])
     THEN /\ reached' = reached \cup {rstatus[r]}
          /\ latest' = LatestAfter(reached, latest, rstatus[r])
          /\ UNCHANGED slips
     ELSE UNCHANGED stages
  /\ rpc' = [rpc EXCEPT ![r] = "idle"]
  /\ UNCHANGED <<process, row, res, space, root, queue, faults, rstatus, rb, config>>

(* A ledger statement fails, or the recoverer dies.                        *)
RecoverFails(r) ==
  /\ rpc[r] # "idle" /\ Fault
  /\ rpc' = [rpc EXCEPT ![r] = "idle"]
  /\ UNCHANGED <<process, stages, row, res, space, root, queue, rstatus, rb, config>>

Recover(r) ==
  \/ RecoverBegin(r, FALSE) \/ RecoverRelease(r) \/ RecoverDestroy(r)
  \/ RecoverUpdate(r) \/ RecoverRecord(r)

(* `gov run abandon`: the operator has decided not to look.                *)
Abandon(r) == RecoverBegin(r, TRUE)

-----------------------------------------------------------------------------
(* `gov reconcile` and `gov run rollback`                                  *)

(* dispatchReconcile: the queued operation succeeds and leaves the queue.  *)
Replay(op) ==
  /\ op \in outbox
  /\ outbox' = outbox \ {op}
  /\ CASE op.kind = "stage" ->
            /\ Validate(latest, op.arg)
            /\ reached' = reached \cup {op.arg}
            /\ latest' = LatestAfter(reached, latest, op.arg)
            /\ UNCHANGED <<row, res, ws, branch>>
       [] op.kind = "runUpdate" ->
            row' = op.arg /\ UNCHANGED <<reached, latest, res, ws, branch>>
       [] op.kind = "destroy" ->
            /\ ws' = "gone"
            /\ branch' = IF op.arg = "approved" THEN "none" ELSE branch
            /\ UNCHANGED <<reached, latest, row, res>>
       [] op.kind \in {"release", "settle"} ->
            /\ res' = [res EXCEPT ![op.arg] =
                         IF @ # "held" THEN @
                         ELSE IF op.kind = "settle" THEN "settled" ELSE "released"]
            /\ UNCHANGED <<reached, latest, row, ws, branch>>
       [] OTHER -> UNCHANGED <<reached, latest, row, res, ws, branch>>
  /\ UNCHANGED <<process, slips, work, root, unqueued, faults, others>>

(* Rollback: git revert of the run's commit, or its recall snapshot ...    *)
RollbackRevert ==
  /\ rb = "idle" /\ row = "APPROVED" /\ pc \in Ended /\ root = "merged"
  /\ root' = "reverted" /\ rb' = "reverted"
  /\ UNCHANGED <<process, stages, row, res, space, queue, faults, rpc, rstatus, config>>

(* ... then the row ...                                                    *)
RollbackUpdate ==
  /\ rb = "reverted" /\ rb' = "updated"
  /\ row' = "ROLLED_BACK"
  /\ UNCHANGED <<process, stages, res, space, root, queue, faults, rpc, rstatus, config>>

(* ... then the stage.                                                     *)
RollbackRecord ==
  /\ rb = "updated" /\ rb' = "idle"
  /\ IF Validate(latest, "ROLLED_BACK")
     THEN /\ reached' = reached \cup {"ROLLED_BACK"}
          /\ latest' = LatestAfter(reached, latest, "ROLLED_BACK")
          /\ UNCHANGED slips
     ELSE UNCHANGED stages
  /\ UNCHANGED <<process, row, res, space, root, queue, faults, rpc, rstatus, config>>

RollbackFails ==
  /\ rb # "idle" /\ rb' = "idle" /\ Fault
  /\ UNCHANGED <<process, stages, row, res, space, root, queue, rpc, rstatus, config>>

Rollback == RollbackRevert \/ RollbackUpdate \/ RollbackRecord \/ RollbackFails

-----------------------------------------------------------------------------
Next ==
  \/ RunStep \/ Crash
  \/ \E r \in Recoverers : Recover(r) \/ Abandon(r) \/ RecoverFails(r)
  \/ \E op \in outbox : Replay(op)
  \/ Rollback

Spec == Init /\ [][Next]_vars

(* The process runs, `gov run recover --stale` and `gov reconcile` are     *)
(* run again and again, and only finitely many writes fail.                *)
FairSpec ==
  /\ Spec
  /\ WF_vars(RunStep)
  /\ \A r \in Recoverers : WF_vars(Recover(r))
  /\ \A op \in Ops : WF_vars(Replay(op))

-----------------------------------------------------------------------------
(***************************************************************************)
(* The live root moves only after the final validation barrier has been    *)
(* recorded, of a git root only after the merge intent too, and only once  *)
(* the agent's process tree is confirmed extinct.                          *)
(***************************************************************************)
RootMovesOnlyAfterBarrier ==
  root # "base" =>
    /\ "FINAL_VALIDATION_BARRIER" \in reached
    /\ Git => "MERGE_INTENT" \in reached
    /\ {"launched", "extinct"} \subseteq facts

(***************************************************************************)
(* An APPROVED row, written by the run or by a later replay, stands for    *)
(* work of an extinct agent that passed every check and is on the live     *)
(* root (or was taken back by an operator's rollback).                     *)
(***************************************************************************)
ApprovedIsEarned ==
  row = "APPROVED" =>
    /\ root \in {"merged", "reverted"}
    /\ "violation" \notin facts
    /\ {"VALIDATING", "FINAL_VALIDATION_BARRIER", "APPROVED"} \subseteq reached

(***************************************************************************)
(* A run whose own verdict is QUARANTINED has left the live root as it was,*)
(* unless the rollback of its merge failed (runtime.go reports that in the *)
(* violations) or it is a darwin run.                                      *)
(***************************************************************************)
QuarantineLeavesRoot ==
  verdict = "QUARANTINED" /\ ~Darwin => root = "base" \/ "rollbackFailed" \in facts

(***************************************************************************)
(* When runOnce has returned, every reservation it made is settled or      *)
(* released, and its worktree destroyed, or the operation that does it was *)
(* handed to the outbox.  The exceptions: a quota reservation whose        *)
(* QUOTA_RESERVED checkpoint failed, and one-shots held when the policy    *)
(* gate itself failed; both wait for their TTL.                            *)
(***************************************************************************)
HandedOver(op) == op \in outbox \cup unqueued

NoLeakOnReturn ==
  pc = "returned" =>
    /\ res["spend"] = "held" => HandedOver(Op("release", "spend"))
    /\ res["quota"] = "held" => \/ HandedOver(Op("release", "quota"))
                                \/ "QUOTA_RESERVED" \notin reached
    /\ res["shot"] = "held" => HandedOver(Op("release", "shot")) \/ "gateError" \in facts
    /\ ws = "present" => \E k \in {"approved", "quarantined"} : HandedOver(Op("destroy", k))

(***************************************************************************)
(* The transition table fits the call sites: Validate refuses a stage of a *)
(* run only when an earlier best-effort stage write was dropped.           *)
(***************************************************************************)
RefusedOnlyAfterDrop == "refused" \in slips => "dropped" \in slips

(* A launched agent has spent the one-shot overrides that let it run.      *)
LaunchSpendsOneShots == "launched" \in facts => res["shot"] \in {"none", "settled"}

(***************************************************************************)
(* Once the root is committed nothing undoes it but `gov run rollback` of  *)
(* an APPROVED run: neither the run's own failures, nor recovery, nor a    *)
(* replay (docs/ledger.md: after ROOT_COMMITTED the mutation is real and   *)
(* must never be undone).                                                  *)
(***************************************************************************)
CommittedRootStays ==
  [][root' # root /\ "rootCommitted" \in facts =>
       row = "APPROVED" /\ rb = "idle" /\ rb' = "reverted"]_vars

(***************************************************************************)
(* An interrupted run does not stay RUNNING, although teardowns and writes *)
(* of its recovery fail; unless a queued update of its row is replayed     *)
(* before the recovery sees it, it keeps neither its worktree nor its      *)
(* spend and quota reservations (recovery.go).                             *)
(***************************************************************************)
Interrupted == pc \in Ended /\ row = "RUNNING"

UpdateQueued == \E op \in outbox : op.kind = "runUpdate"

InterruptedRunEnds ==
  /\ Interrupted ~> row # "RUNNING"
  /\ Interrupted /\ ~UpdateQueued
       ~> row # "RUNNING" /\ ws # "present" /\ res["spend"] # "held" /\ res["quota"] # "held"

(***************************************************************************)
(* The evidence of a quarantined run stays on its branch once the last     *)
(* write that can make runOnce fail, the spend settlement, has succeeded:  *)
(* neither its own teardown, nor a crash before it, nor a queued teardown  *)
(* that is replayed takes it (runner.go keeps a quarantined run's branch   *)
(* for inspection).  On darwin a run is quarantined after its commit, and  *)
(* a queued settlement may come after the teardown that took the branch.   *)
(***************************************************************************)
EvidenceStays ==
  "preserved" \in facts /\ res["spend"] = "settled" /\ ~Darwin => branch = "evidence"

-----------------------------------------------------------------------------
(* What the repository says of runs, and runOnce and recovery do not keep. *)

(* docs/ledger.md on recovery: a run that reached AGENT_RUNNING and whose  *)
(* worktree changed is QUARANTINED; only `abandon` treats it as safe.      *)
RecoveryFailsClosed ==
  [][\A r \in Recoverers :
       Recover(r) /\ rpc[r] = "idle" /\ "launched" \in facts /\ work = "edited" =>
         rstatus'[r] = "QUARANTINED"]_vars

(* docs/ledger.md: MERGED_LEDGER_PENDING self-heals to the true status.    *)
PendingSelfHeals ==
  row = "MERGED_LEDGER_PENDING" /\ unqueued = {} ~> row # "MERGED_LEDGER_PENDING"

(* docs/ledger.md: a settlement that failed after the commit is queued and *)
(* `gov reconcile` fixes the bookkeeping.                                  *)
SettlementLands ==
  [][\A k \in {"spend", "quota"} :
       Op("settle", k) \in outbox /\ Replay(Op("settle", k)) => res'[k] = "settled"]_vars

(* docs/gate.md: a mid-run crash can never leak a worktree or branch.      *)
CrashLeaksNoWorktree == pc = "dead" /\ ws = "present" ~> ws # "present"

(* runtime.go: darwin builds may not approve or merge governed runs.       *)
DarwinNeverMerges == Darwin => root = "base"

(* docs/ledger.md: an already-terminal run is left untouched by recovery.  *)
RecoveryLeavesTerminalRuns ==
  [][\A r \in Recoverers :
       Recover(r) /\ row \in {"QUARANTINED", "ABANDONED"} => row' = row]_vars

(* runner.go: a quarantined run keeps its branch for inspection.           *)
QuarantineKeepsBranch ==
  pc = "returned" /\ row = "QUARANTINED" /\ "preserved" \in facts => branch = "evidence"

=============================================================================
