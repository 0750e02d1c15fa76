------------------------- MODULE RunPipelineProofs -------------------------
(***************************************************************************)
(* The safety properties of RunPipeline for every configuration, number of *)
(* recoverers and number of faults.  Only Crash, the recoverers, `gov      *)
(* reconcile` and `gov run rollback` interleave with the run, and none of  *)
(* them writes facts or verdict; so the invariant says what the process    *)
(* has established at each of its steps, what its verdict stands for, and  *)
(* what the row and the queued update of the row stand for.                *)
(***************************************************************************)
EXTENDS RunRefinement, TLAPS

(* The steps before the process touches the live root.                     *)
BeforeMerge == {"parse", "preflight", "budget", "route", "gate", "refuseRow",
  "refuseStage", "spend", "quota", "quotaStage", "prepare", "insert", "ready",
  "agent", "consume", "launch", "observe", "extinguish", "proof", "audit",
  "checks", "validate", "assay", "barrier", "merge"}

GitMerge == {"intent", "build", "sync", "applied", "rollback", "rootCommitted"}

CopyMerge == {"copy", "copied", "restore"}

(* The steps of a merge that nothing speaks against.                       *)
Merging == {"intent", "build", "sync", "applied", "rootCommitted", "copy",
            "copied", "merged"}

(* The steps between the verdict and the deferred functions.               *)
Late == {"finalize", "terminal", "update", "evidence", "settleQuota",
         "settleSpend", "feedback", "complete", "destroy", "pendingRow",
         "pendingStage"}

(* What a merge that may go on rests on.                                   *)
Cleared ==
  /\ "violation" \notin facts
  /\ {"launched", "extinct"} \subseteq facts
  /\ {"VALIDATING", "FINAL_VALIDATION_BARRIER"} \subseteq reached

(* What the process has established on the way to the merge.               *)
StepFacts ==
  /\ pc \in {"audit", "checks", "validate", "assay", "barrier"} => "extinct" \in
      facts
  /\ pc \in {"validate", "assay", "barrier"} =>
       /\ "VALIDATING" \in reached
       /\ "violation" \in facts \/ "launched" \in facts
  /\ pc \in {"merge", "decide"} => "violation" \in facts \/ Cleared
  /\ pc \in Merging => Cleared
  /\ pc \in GitMerge => Git
  /\ pc \in CopyMerge => ~Git
  /\ pc \in {"build", "sync", "applied", "rootCommitted"} => "MERGE_INTENT" \in
      reached
  /\ pc \in {"rollback", "restore"} => "violation" \in facts
  /\ "rootCommitted" \in facts => pc \in {"rootCommitted", "merged", "decide",
      "unwind"}
                                         \cup Late \cup Ended

(* Where the live root is at each step.                                    *)
StepRoot ==
  /\ pc \in BeforeMerge \cup {"intent", "build", "copy"} => root = "base"
  /\ pc \in {"applied", "rootCommitted", "merged"} => root = "merged"
  /\ pc = "decide" => \/ root = "base" \/ "rollbackFailed" \in facts
                      \/ root = "merged" /\ "violation" \notin facts
  /\ pc = "decide" /\ "violation" \notin facts => root = "merged"
  /\ root = "reverted" => pc \in Ended

(* What the verdict stands for, and when there is one.                     *)
VerdictInv ==
  /\ pc \in Late => verdict # "none"
  /\ verdict # "none" => pc \in Late \cup {"unwind"} \cup Ended
  /\ verdict = "APPROVED" => Cleared /\ root \in {"merged", "reverted"}
  /\ QuarantineLeavesRoot

(* What an APPROVED row, or a queued update to APPROVED, stands for.       *)
RowInv ==
  /\ pc = "update" => verdict \in reached
  /\ row = "APPROVED" => verdict = "APPROVED" /\ "APPROVED" \in reached
  /\ Op("runUpdate", "APPROVED") \in outbox =>
       verdict = "APPROVED" /\ "APPROVED" \in reached

(* What the steps of the invariant's proof need of TypeOK.                 *)
PlainTypes ==
  /\ verdict \in {"none", "APPROVED", "QUARANTINED"}
  /\ outbox \subseteq Ops
  /\ rstatus \in [Recoverers -> {"ABANDONED", "QUARANTINED"}]

SafetyInv ==
  /\ RootMovesOnlyAfterBarrier
  /\ StepFacts
  /\ StepRoot
  /\ VerdictInv
  /\ RowInv

-----------------------------------------------------------------------------
(* The actions of the run, part by part.                                   *)
EarlyAction ==
  \/ ErrorReturn \/ Parsed \/ Preflighted \/ CheckBudget \/ Routed
  \/ PolicyGate \/ ReserveSpend \/ ReserveQuota \/ QuotaReserved \/ RefuseRow
  \/ RefuseStage \/ Prepare \/ InsertRun \/ WorkspaceReady \/ AgentRunning
  \/ ConsumeOneShots \/ Launch \/ Observe \/ Extinguish \/ ExtinctionProof
  \/ Audited \/ Validating \/ RunValidators \/ Assaying \/ FinalBarrier

MergeAction ==
  \/ MergeStart \/ MergeIntent \/ BuildAndCommit \/ SyncRoot \/ MergeApplied
  \/ RollbackLiveRoot \/ RootCommitted \/ CopyStart \/ CopyEnd \/ RestoreRecall
  \/ Merged

LateAction ==
  \/ Decide \/ LedgerFinalizing \/ TerminalStage \/ UpdateRun \/ RecordEvidence
  \/ SettleQuota \/ SettleSpend \/ Feedback \/ Complete \/ DestroyAtEnd
  \/ LedgerPendingRow \/ LedgerPendingStage \/ UnwindWorkspace \/ Return
  \/ \E k \in Reservations : UnwindReservation(k)

(* What the ledger writes do to the recorded stages and the queue.         *)

(* lifecycle.Record adds its stage and never takes one away.               *)
LEMMA RecordAdds ==
  ASSUME NEW s, Record(s)
  PROVE  reached \subseteq reached' /\ s \in reached'
BY DEF Record

(* A failed Record leaves the recorded stages alone.                       *)
LEMMA RecordErrorKeeps ==
  ASSUME NEW s, NEW slip, RecordError(s, slip)
  PROVE  reached' = reached
BY DEF RecordError

(* An enqueue adds at most its own operation to the queue.                 *)
LEMMA EnqueueAdds ==
  ASSUME NEW op, Enqueue(op)
  PROVE  outbox' \subseteq outbox \cup {op}
BY DEF Enqueue

(* Every operation of the queue is a kind with an argument.                *)
LEMMA OpShape ==
  ASSUME NEW op \in Ops
  PROVE  op = Op(op.kind, op.arg)
BY DEF Ops, Op

(* The update to APPROVED is not any other kind of operation.              *)
LEMMA UpdateOpDistinct ==
  /\ \A k, a : k # "runUpdate" => Op("runUpdate", "APPROVED") # Op(k, a)
  /\ Op("runUpdate", "APPROVED") # Op("runUpdate", "QUARANTINED")
  /\ \A k, a : Op(k, a).kind = k /\ Op(k, a).arg = a
BY DEF Op

(* Operations with another kind or another argument are different.         *)
LEMMA OpKinds ==
  /\ \A k, a : Op(k, a).kind = k /\ Op(k, a).arg = a
  /\ \A k, a, j, b : Op(k, a) = Op(j, b) => k = j /\ a = b
BY DEF Op

(* From the contract to the final barrier: the root does not move.         *)
LEMMA EarlyStep ==
  ASSUME PlainTypes, SafetyInv, UNCHANGED config, EarlyAction
  PROVE  SafetyInv'
<1> USE RecordAdds, RecordErrorKeeps, EnqueueAdds, UpdateOpDistinct
<1> USE DEF Git, Darwin, SafetyInv, RootMovesOnlyAfterBarrier, StepFacts, StepRoot,
    VerdictInv, RowInv, QuarantineLeavesRoot, Cleared, PlainTypes, BeforeMerge,
    GitMerge, CopyMerge, Merging, Late, Ended, process, stages, space, queue,
    others, vars, Goto
<1>1. CASE ErrorReturn
  BY <1>1 DEF ErrorReturn
<1>2. CASE Parsed
  BY <1>2 DEF Parsed, Checkpoint
<1>3. CASE Preflighted
  BY <1>3 DEF Preflighted, Checkpoint
<1>4. CASE CheckBudget
  BY <1>4 DEF CheckBudget
<1>5. CASE Routed
  BY <1>5 DEF Routed, Checkpoint
<1>6. CASE PolicyGate
  BY <1>6 DEF PolicyGate
<1>7. CASE ReserveSpend
  BY <1>7 DEF ReserveSpend
<1>8. CASE ReserveQuota
  BY <1>8 DEF ReserveQuota
<1>9. CASE QuotaReserved
  BY <1>9 DEF QuotaReserved
<1>10. CASE RefuseRow
  BY <1>10 DEF RefuseRow
<1>11. CASE RefuseStage
  BY <1>11 DEF RefuseStage, Checkpoint
<1>12. CASE Prepare
  BY <1>12 DEF Prepare
<1>13. CASE InsertRun
  BY <1>13 DEF InsertRun
<1>14. CASE WorkspaceReady
  BY <1>14 DEF WorkspaceReady, Checkpoint
<1>15. CASE AgentRunning
  BY <1>15 DEF AgentRunning, Checkpoint
<1>16. CASE ConsumeOneShots
  BY <1>16 DEF ConsumeOneShots
<1>17. CASE Launch
  BY <1>17 DEF Launch
<1>18. CASE Observe
  BY <1>18 DEF Observe, BestEffort
<1>19. CASE Extinguish
  BY <1>19 DEF Extinguish, Checkpoint
<1>20. CASE ExtinctionProof
  BY <1>20 DEF ExtinctionProof
<1>21. CASE Audited
  BY <1>21 DEF Audited, Checkpoint
<1>22. CASE Validating
  BY <1>22 DEF Validating
<1>23. CASE RunValidators
  BY <1>23 DEF RunValidators
<1>24. CASE Assaying
  BY <1>24 DEF Assaying
<1>25. CASE FinalBarrier
  BY <1>25 DEF FinalBarrier
<1> QED BY <1>1, <1>2, <1>3, <1>4, <1>5, <1>6, <1>7, <1>8, <1>9, <1>10, <1>11,
    <1>12, <1>13, <1>14, <1>15, <1>16, <1>17, <1>18, <1>19, <1>20, <1>21, <1>22,
    <1>23, <1>24, <1>25
       DEF EarlyAction

(* The merge: the root moves, and a failure takes it back.                 *)
LEMMA MergeStep ==
  ASSUME PlainTypes, SafetyInv, UNCHANGED config, MergeAction
  PROVE  SafetyInv'
<1> USE RecordAdds, RecordErrorKeeps, EnqueueAdds, UpdateOpDistinct
<1> USE DEF Git, Darwin, SafetyInv, RootMovesOnlyAfterBarrier, StepFacts, StepRoot,
    VerdictInv, RowInv, QuarantineLeavesRoot, Cleared, PlainTypes, BeforeMerge,
    GitMerge, CopyMerge, Merging, Late, Ended, process, stages, space, queue,
    others, vars, Goto
<1>1. CASE MergeStart
  BY <1>1 DEF MergeStart, MergeFails
<1>2. CASE MergeIntent
  BY <1>2 DEF MergeIntent, MergeFails
<1>3. CASE BuildAndCommit
  BY <1>3 DEF BuildAndCommit, MergeFails
<1>4. CASE SyncRoot
  BY <1>4 DEF SyncRoot, MergeFails
<1>5. CASE MergeApplied
  BY <1>5 DEF MergeApplied, MergeFails
<1>6. CASE RollbackLiveRoot
  BY <1>6 DEF RollbackLiveRoot
<1>7. CASE RootCommitted
  BY <1>7 DEF RootCommitted, BestEffort
<1>8. CASE CopyStart
  BY <1>8 DEF CopyStart
<1>9. CASE CopyEnd
  BY <1>9 DEF CopyEnd, MergeFails
<1>10. CASE RestoreRecall
  BY <1>10 DEF RestoreRecall
<1>11. CASE Merged
  BY <1>11 DEF Merged, BestEffort, Checkpoint
<1> QED BY <1>1, <1>2, <1>3, <1>4, <1>5, <1>6, <1>7, <1>8, <1>9, <1>10, <1>11
       DEF MergeAction

(* From the verdict to the return.                                         *)
LEMMA LateStep ==
  ASSUME PlainTypes, SafetyInv, UNCHANGED config, LateAction
  PROVE  SafetyInv'
<1> USE RecordAdds, RecordErrorKeeps, EnqueueAdds, UpdateOpDistinct
<1> USE DEF Git, Darwin, SafetyInv, RootMovesOnlyAfterBarrier, StepFacts, StepRoot,
    VerdictInv, RowInv, QuarantineLeavesRoot, Cleared, PlainTypes, BeforeMerge,
    GitMerge, CopyMerge, Merging, Late, Ended, process, stages, space, queue,
    others, vars, Goto
<1>1. CASE Decide
  BY <1>1 DEF Decide
<1>2. CASE LedgerFinalizing
  BY <1>2 DEF LedgerFinalizing, FinalizationFails
<1>3. CASE TerminalStage
  BY <1>3 DEF TerminalStage, FinalizationFails
<1>4. CASE UpdateRun
  BY <1>4 DEF UpdateRun, FinalizationFails
<1>5. CASE RecordEvidence
  BY <1>5 DEF RecordEvidence, FinalizationFails
<1>6. CASE SettleQuota
  BY <1>6 DEF SettleQuota, Settle, FinalizationFails
<1>7. CASE SettleSpend
  BY <1>7 DEF SettleSpend, Settle, FinalizationFails
<1>8. CASE Feedback
  BY <1>8 DEF Feedback
<1>9. CASE Complete
  BY <1>9 DEF Complete, BestEffort
<1>10. CASE DestroyAtEnd
  BY <1>10 DEF DestroyAtEnd, DestroyWorkspace, Destroyed
<1>11. CASE LedgerPendingRow
  BY <1>11 DEF LedgerPendingRow
<1>12. CASE LedgerPendingStage
  BY <1>12 DEF LedgerPendingStage
<1>13. CASE UnwindWorkspace
  BY <1>13 DEF UnwindWorkspace, DestroyWorkspace, Destroyed
<1>14. CASE Return
  BY <1>14 DEF Return
<1>15. CASE \E k \in Reservations : UnwindReservation(k)
  BY <1>15 DEF UnwindReservation, Reservations
<1> QED BY <1>1, <1>2, <1>3, <1>4, <1>5, <1>6, <1>7, <1>8, <1>9, <1>10, <1>11,
    <1>12, <1>13, <1>14, <1>15
       DEF LateAction

(* Whoever touches the run while its process works, or afterwards.         *)
LEMMA OtherStep ==
  ASSUME PlainTypes, SafetyInv, UNCHANGED config,
         \/ Crash
         \/ \E r \in Recoverers : Recover(r) \/ Abandon(r) \/ RecoverFails(r)
         \/ \E op \in outbox : Replay(op)
         \/ Rollback
  PROVE  SafetyInv'
<1> USE EnqueueAdds, UpdateOpDistinct
<1> USE DEF Git, Darwin, SafetyInv, RootMovesOnlyAfterBarrier, StepFacts, StepRoot, VerdictInv,
            RowInv, QuarantineLeavesRoot, Cleared, PlainTypes, BeforeMerge,
                GitMerge,
            CopyMerge, Merging, Late, Ended, process, stages, space, queue, others
<1>1. CASE Crash
  BY <1>1 DEF Crash
<1>2. ASSUME NEW r \in Recoverers, Recover(r) \/ Abandon(r) \/ RecoverFails(r)
      PROVE  SafetyInv'
  <2>1. CASE \E forced \in BOOLEAN : RecoverBegin(r, forced)
    BY <2>1 DEF RecoverBegin
  <2>2. CASE RecoverRelease(r)
    BY <2>2 DEF RecoverRelease
  <2>3. CASE RecoverDestroy(r)
    BY <2>3 DEF RecoverDestroy, Destroyed
  <2>4. CASE RecoverUpdate(r)
    BY <2>4 DEF RecoverUpdate
  <2>5. CASE RecoverRecord(r)
    BY <2>5 DEF RecoverRecord
  <2>6. CASE RecoverFails(r)
    BY <2>6 DEF RecoverFails
  <2> QED BY <1>2, <2>1, <2>2, <2>3, <2>4, <2>5, <2>6 DEF Recover, Abandon
<1>3. ASSUME NEW op \in outbox, Replay(op)
      PROVE  SafetyInv'
  <2>1. CASE op.kind = "runUpdate"
    <3>1. op.arg = "APPROVED" => op = Op("runUpdate", "APPROVED")
      BY <2>1, <1>3, OpShape DEF PlainTypes
    <3> QED BY <1>3, <2>1, <3>1 DEF Replay
  <2>2. CASE op.kind # "runUpdate"
    BY <1>3, <2>2 DEF Replay
  <2> QED BY <2>1, <2>2
<1>4. CASE Rollback
  BY <1>4 DEF Rollback, RollbackRevert, RollbackUpdate, RollbackRecord,
      RollbackFails
<1> QED BY <1>1, <1>2, <1>3, <1>4

-----------------------------------------------------------------------------
(* Types                                                                   *)

(* The operations the model queues are operations.                         *)
LEMMA OpsQueued ==
  /\ \A s \in Stages : Op("stage", s) \in Ops
  /\ \A v \in {"APPROVED", "QUARANTINED"} : Op("runUpdate", v) \in Ops
  /\ \A k \in {"approved", "quarantined"} : Op("destroy", k) \in Ops
  /\ \A k \in Reservations : Op("release", k) \in Ops /\ Op("settle", k) \in Ops
  /\ Op("evidence", "run") \in Ops /\ Op("feedback", "run") \in Ops
BY DEF Ops, Op

(* The parts of TypeOK: one per group of variables that change together.   *)
ProcessTypes ==
  /\ pc \in Steps \cup Ended
  /\ facts \in SUBSET Facts
  /\ verdict \in {"none", "APPROVED", "QUARANTINED"}
  /\ armed \in SUBSET (Reservations \cup {"ws"})

StageTypes ==
  /\ reached \in SUBSET Stages
  /\ latest \in Stages \cup {NoStage}
  /\ slips \in SUBSET {"refused", "dropped"}

QueueTypes == outbox \in SUBSET Ops /\ unqueued \in SUBSET Ops

FaultType == faults \in 0..MaxFaults

WorldTypes ==
  /\ row \in RowStatuses
  /\ res \in [Reservations -> ReservationStates]
  /\ ws \in {"none", "present", "gone"}
  /\ branch \in {"none", "job", "evidence"}
  /\ work \in {"clean", "edited"}
  /\ root \in {"base", "partial", "merged", "reverted"}

OtherTypes ==
  /\ rpc \in [Recoverers -> {"idle", "release", "destroy", "update", "record"}]
  /\ rstatus \in [Recoverers -> {"ABANDONED", "QUARANTINED"}]
  /\ rb \in {"idle", "reverted", "updated"}

TypeParts == /\ ProcessTypes /\ StageTypes /\ QueueTypes
             /\ FaultType /\ WorldTypes /\ OtherTypes

(* The parts are TypeOK.                                                   *)
LEMMA TypePartsIsTypeOK == TypeOK <=> config \in Configs /\ TypeParts
BY DEF TypeOK, TypeParts, ProcessTypes, StageTypes, QueueTypes, FaultType,
       WorldTypes, OtherTypes

(* A group of variables that does not change keeps its types.              *)
LEMMA TypeFrames ==
  /\ StageTypes /\ UNCHANGED stages => StageTypes'
  /\ QueueTypes /\ UNCHANGED queue => QueueTypes'
  /\ FaultType /\ UNCHANGED faults => FaultType'
  /\ OtherTypes /\ UNCHANGED others => OtherTypes'
BY DEF StageTypes, QueueTypes, FaultType, OtherTypes, stages, queue, others

(* A Record keeps the types of the stages ...                              *)
LEMMA RecordTypes ==
  ASSUME NEW s \in Stages, StageTypes, FaultType, Record(s)
  PROVE  StageTypes' /\ FaultType'
BY DEF StageTypes, FaultType, Record, LatestAfter

(* ... and so does a failed one.                                           *)
LEMMA RecordErrorTypes ==
  ASSUME NEW s, NEW slip \in SUBSET {"dropped"}, StageTypes, FaultType,
         RecordError(s, slip)
  PROVE  StageTypes' /\ FaultType'
<1>1. FaultType'
  BY FaultsAssumption DEF FaultType, RecordError, Fault
<1>2. slips' \in SUBSET {"refused", "dropped"}
  <2>1. slips' = slips \cup {"refused"} \/ slips' = slips \cup slip
    BY DEF RecordError
  <2> QED BY <2>1, Zenon DEF StageTypes
<1> QED BY <1>1, <1>2 DEF StageTypes, RecordError

(* A fault is counted within its bound.                                    *)
LEMMA FaultTypes ==
  ASSUME FaultType, Fault
  PROVE  FaultType'
BY FaultsAssumption DEF FaultType, Fault

(* An enqueue keeps the types of the queue and of its history.             *)
LEMMA EnqueueTypes ==
  ASSUME NEW op \in Ops, QueueTypes, Enqueue(op)
  PROVE  QueueTypes'
BY DEF Enqueue, QueueTypes

(* From the contract to the final barrier.                                 *)
LEMMA EarlyTypes ==
  ASSUME TypeParts, VerdictInv, EarlyAction
  PROVE  TypeParts'
<1>1. CASE ErrorReturn
  BY <1>1, TypeFrames, RecordTypes, RecordErrorTypes, FaultTypes, EnqueueTypes,
      OpsQueued
  DEF TypeParts, ProcessTypes, WorldTypes, Steps, Ended, Facts, RowStatuses,
      ReservationStates, Reservations, space, Goto,
      ErrorReturn
<1>2. CASE Parsed
  BY <1>2, TypeFrames, RecordTypes, RecordErrorTypes, FaultTypes, EnqueueTypes,
      OpsQueued
  DEF TypeParts, ProcessTypes, WorldTypes, Steps, Ended, Facts, RowStatuses,
      ReservationStates, Reservations, space, Goto,
      Parsed, Checkpoint, Stages
<1>3. CASE Preflighted
  BY <1>3, TypeFrames, RecordTypes, RecordErrorTypes, FaultTypes, EnqueueTypes,
      OpsQueued
  DEF TypeParts, ProcessTypes, WorldTypes, Steps, Ended, Facts, RowStatuses,
      ReservationStates, Reservations, space, Goto,
      Preflighted, Checkpoint, Stages
<1>4. CASE CheckBudget
  <2>1. StageTypes' /\ QueueTypes' /\ FaultType' /\ OtherTypes'
    BY <1>4, TypeFrames, RecordTypes, RecordErrorTypes, FaultTypes,
        EnqueueTypes, OpsQueued
    DEF TypeParts, Goto, CheckBudget
  <2>2. ProcessTypes'
    BY <1>4 DEF TypeParts, ProcessTypes, Steps, Ended, Facts, Reservations,
        Goto, CheckBudget
  <2>3. WorldTypes'
    BY <1>4 DEF TypeParts, WorldTypes, RowStatuses, ReservationStates,
        Reservations, Goto, space, CheckBudget
  <2> QED BY <2>1, <2>2, <2>3 DEF TypeParts
<1>5. CASE Routed
  BY <1>5, TypeFrames, RecordTypes, RecordErrorTypes, FaultTypes, EnqueueTypes,
      OpsQueued
  DEF TypeParts, ProcessTypes, WorldTypes, Steps, Ended, Facts, RowStatuses,
      ReservationStates, Reservations, space, Goto,
      Routed, Checkpoint, Stages
<1>6. CASE PolicyGate
  <2>1. StageTypes' /\ QueueTypes' /\ FaultType' /\ OtherTypes'
    BY <1>6, TypeFrames, RecordTypes, RecordErrorTypes, FaultTypes,
        EnqueueTypes, OpsQueued
    DEF TypeParts, Goto, PolicyGate
  <2>2. ProcessTypes'
    BY <1>6 DEF TypeParts, ProcessTypes, Steps, Ended, Facts, Reservations,
        Goto, PolicyGate
  <2>3. WorldTypes'
    BY <1>6 DEF TypeParts, WorldTypes, RowStatuses, ReservationStates,
        Reservations, Goto, space, PolicyGate
  <2> QED BY <2>1, <2>2, <2>3 DEF TypeParts
<1>7. CASE ReserveSpend
  <2>1. StageTypes' /\ QueueTypes' /\ FaultType' /\ OtherTypes'
    BY <1>7, TypeFrames, RecordTypes, RecordErrorTypes, FaultTypes,
        EnqueueTypes, OpsQueued
    DEF TypeParts, Goto, ReserveSpend
  <2>2. ProcessTypes'
    BY <1>7 DEF TypeParts, ProcessTypes, Steps, Ended, Facts, Reservations,
        Goto, ReserveSpend
  <2>3. WorldTypes'
    BY <1>7 DEF TypeParts, WorldTypes, RowStatuses, ReservationStates,
        Reservations, Goto, space, ReserveSpend
  <2> QED BY <2>1, <2>2, <2>3 DEF TypeParts
<1>8. CASE ReserveQuota
  <2>1. StageTypes' /\ QueueTypes' /\ FaultType' /\ OtherTypes'
    BY <1>8, TypeFrames, RecordTypes, RecordErrorTypes, FaultTypes,
        EnqueueTypes, OpsQueued
    DEF TypeParts, Goto, ReserveQuota
  <2>2. ProcessTypes'
    BY <1>8 DEF TypeParts, ProcessTypes, Steps, Ended, Facts, Reservations,
        Goto, ReserveQuota
  <2>3. WorldTypes'
    BY <1>8 DEF TypeParts, WorldTypes, RowStatuses, ReservationStates,
        Reservations, Goto, space, ReserveQuota
  <2> QED BY <2>1, <2>2, <2>3 DEF TypeParts
<1>9. CASE QuotaReserved
  <2>1. StageTypes' /\ QueueTypes' /\ FaultType' /\ OtherTypes'
    BY <1>9, TypeFrames, RecordTypes, RecordErrorTypes, FaultTypes,
        EnqueueTypes, OpsQueued
    DEF TypeParts, Goto, QuotaReserved, Stages
  <2>2. ProcessTypes'
    BY <1>9 DEF TypeParts, ProcessTypes, Steps, Ended, Facts, Reservations,
        Goto, QuotaReserved
  <2>3. WorldTypes'
    BY <1>9 DEF TypeParts, WorldTypes, RowStatuses, ReservationStates,
        Reservations, Goto, space, QuotaReserved
  <2> QED BY <2>1, <2>2, <2>3 DEF TypeParts
<1>10. CASE RefuseRow
  BY <1>10, TypeFrames, RecordTypes, RecordErrorTypes, FaultTypes, EnqueueTypes,
      OpsQueued
  DEF TypeParts, ProcessTypes, WorldTypes, Steps, Ended, Facts, RowStatuses,
      ReservationStates, Reservations, space, Goto,
      RefuseRow
<1>11. CASE RefuseStage
  <2>1. StageTypes' /\ QueueTypes' /\ FaultType' /\ OtherTypes'
    BY <1>11, TypeFrames, RecordTypes, RecordErrorTypes, FaultTypes,
        EnqueueTypes, OpsQueued
    DEF TypeParts, Goto, RefuseStage, Checkpoint, Stages
  <2>2. ProcessTypes'
    BY <1>11 DEF TypeParts, ProcessTypes, Steps, Ended, Facts, Reservations,
        Goto, RefuseStage, Checkpoint
  <2>3. WorldTypes'
    BY <1>11 DEF TypeParts, WorldTypes, RowStatuses, ReservationStates,
        Reservations, Goto, space, RefuseStage, Checkpoint
  <2> QED BY <2>1, <2>2, <2>3 DEF TypeParts
<1>12. CASE Prepare
  <2>1. StageTypes' /\ QueueTypes' /\ FaultType' /\ OtherTypes'
    BY <1>12, TypeFrames, RecordTypes, RecordErrorTypes, FaultTypes,
        EnqueueTypes, OpsQueued
    DEF TypeParts, Goto, Prepare
  <2>2. ProcessTypes'
    BY <1>12 DEF TypeParts, ProcessTypes, Steps, Ended, Facts, Reservations,
        Goto, Prepare
  <2>3. WorldTypes'
    BY <1>12 DEF TypeParts, WorldTypes, RowStatuses, ReservationStates,
        Reservations, Goto, space, Prepare
  <2> QED BY <2>1, <2>2, <2>3 DEF TypeParts
<1>13. CASE InsertRun
  BY <1>13, TypeFrames, RecordTypes, RecordErrorTypes, FaultTypes, EnqueueTypes,
      OpsQueued
  DEF TypeParts, ProcessTypes, WorldTypes, Steps, Ended, Facts, RowStatuses,
      ReservationStates, Reservations, space, Goto,
      InsertRun
<1>14. CASE WorkspaceReady
  BY <1>14, TypeFrames, RecordTypes, RecordErrorTypes, FaultTypes, EnqueueTypes,
      OpsQueued
  DEF TypeParts, ProcessTypes, WorldTypes, Steps, Ended, Facts, RowStatuses,
      ReservationStates, Reservations, space, Goto,
      WorkspaceReady, Checkpoint, Stages
<1>15. CASE AgentRunning
  BY <1>15, TypeFrames, RecordTypes, RecordErrorTypes, FaultTypes, EnqueueTypes,
      OpsQueued
  DEF TypeParts, ProcessTypes, WorldTypes, Steps, Ended, Facts, RowStatuses,
      ReservationStates, Reservations, space, Goto,
      AgentRunning, Checkpoint, Stages
<1>16. CASE ConsumeOneShots
  <2>1. StageTypes' /\ QueueTypes' /\ FaultType' /\ OtherTypes'
    BY <1>16, TypeFrames, RecordTypes, RecordErrorTypes, FaultTypes,
        EnqueueTypes, OpsQueued
    DEF TypeParts, Goto, ConsumeOneShots
  <2>2. ProcessTypes'
    BY <1>16 DEF TypeParts, ProcessTypes, Steps, Ended, Facts, Reservations,
        Goto, ConsumeOneShots
  <2>3. WorldTypes'
    BY <1>16 DEF TypeParts, WorldTypes, RowStatuses, ReservationStates,
        Reservations, Goto, space, ConsumeOneShots
  <2> QED BY <2>1, <2>2, <2>3 DEF TypeParts
<1>17. CASE Launch
  BY <1>17, TypeFrames, RecordTypes, RecordErrorTypes, FaultTypes, EnqueueTypes,
      OpsQueued
  DEF TypeParts, ProcessTypes, WorldTypes, Steps, Ended, Facts, RowStatuses,
      ReservationStates, Reservations, space, Goto,
      Launch
<1>18. CASE Observe
  <2>1. StageTypes' /\ QueueTypes' /\ FaultType' /\ OtherTypes'
    BY <1>18, TypeFrames, RecordTypes, RecordErrorTypes, FaultTypes,
        EnqueueTypes, OpsQueued
    DEF TypeParts, Goto, Observe, BestEffort, Stages
  <2>2. ProcessTypes'
    BY <1>18 DEF TypeParts, ProcessTypes, Steps, Ended, Facts, Reservations,
        Goto, Observe, BestEffort
  <2>3. WorldTypes'
    BY <1>18 DEF TypeParts, WorldTypes, RowStatuses, ReservationStates,
        Reservations, Goto, space, Observe, BestEffort
  <2> QED BY <2>1, <2>2, <2>3 DEF TypeParts
<1>19. CASE Extinguish
  BY <1>19, TypeFrames, RecordTypes, RecordErrorTypes, FaultTypes, EnqueueTypes,
      OpsQueued
  DEF TypeParts, ProcessTypes, WorldTypes, Steps, Ended, Facts, RowStatuses,
      ReservationStates, Reservations, space, Goto,
      Extinguish, Checkpoint, Stages
<1>20. CASE ExtinctionProof
  <2>1. StageTypes' /\ QueueTypes' /\ FaultType' /\ OtherTypes'
    BY <1>20, TypeFrames, RecordTypes, RecordErrorTypes, FaultTypes,
        EnqueueTypes, OpsQueued
    DEF TypeParts, Goto, ExtinctionProof
  <2>2. ProcessTypes'
    BY <1>20 DEF TypeParts, ProcessTypes, Steps, Ended, Facts, Reservations,
        Goto, ExtinctionProof
  <2>3. WorldTypes'
    BY <1>20 DEF TypeParts, WorldTypes, RowStatuses, ReservationStates,
        Reservations, Goto, space, ExtinctionProof
  <2> QED BY <2>1, <2>2, <2>3 DEF TypeParts
<1>21. CASE Audited
  BY <1>21, TypeFrames, RecordTypes, RecordErrorTypes, FaultTypes, EnqueueTypes,
      OpsQueued
  DEF TypeParts, ProcessTypes, WorldTypes, Steps, Ended, Facts, RowStatuses,
      ReservationStates, Reservations, space, Goto,
      Audited, Checkpoint, Stages
<1>22. CASE Validating
  BY <1>22, TypeFrames, RecordTypes, RecordErrorTypes, FaultTypes, EnqueueTypes,
      OpsQueued
  DEF TypeParts, ProcessTypes, WorldTypes, Steps, Ended, Facts, RowStatuses,
      ReservationStates, Reservations, space, Goto,
      Validating, Stages
<1>23. CASE RunValidators
  BY <1>23, TypeFrames, RecordTypes, RecordErrorTypes, FaultTypes, EnqueueTypes,
      OpsQueued
  DEF TypeParts, ProcessTypes, WorldTypes, Steps, Ended, Facts, RowStatuses,
      ReservationStates, Reservations, space, Goto,
      RunValidators
<1>24. CASE Assaying
  <2>1. StageTypes' /\ QueueTypes' /\ FaultType' /\ OtherTypes'
    BY <1>24, TypeFrames, RecordTypes, RecordErrorTypes, FaultTypes,
        EnqueueTypes, OpsQueued
    DEF TypeParts, Goto, Assaying, Stages
  <2>2. ProcessTypes'
    BY <1>24 DEF TypeParts, ProcessTypes, Steps, Ended, Facts, Reservations,
        Goto, Assaying
  <2>3. WorldTypes'
    BY <1>24 DEF TypeParts, WorldTypes, RowStatuses, ReservationStates,
        Reservations, Goto, space, Assaying
  <2> QED BY <2>1, <2>2, <2>3 DEF TypeParts
<1>25. CASE FinalBarrier
  <2>1. StageTypes' /\ QueueTypes' /\ FaultType' /\ OtherTypes'
    BY <1>25, TypeFrames, RecordTypes, RecordErrorTypes, FaultTypes,
        EnqueueTypes, OpsQueued
    DEF TypeParts, Goto, FinalBarrier, Stages
  <2>2. ProcessTypes'
    BY <1>25 DEF TypeParts, ProcessTypes, Steps, Ended, Facts, Reservations,
        Goto, FinalBarrier
  <2>3. WorldTypes'
    BY <1>25 DEF TypeParts, WorldTypes, RowStatuses, ReservationStates,
        Reservations, Goto, space, FinalBarrier
  <2> QED BY <2>1, <2>2, <2>3 DEF TypeParts
<1> QED BY <1>1, <1>2, <1>3, <1>4, <1>5, <1>6, <1>7, <1>8, <1>9, <1>10, <1>11,
           <1>12, <1>13, <1>14, <1>15, <1>16, <1>17, <1>18, <1>19, <1>20,
           <1>21, <1>22, <1>23, <1>24, <1>25
       DEF EarlyAction

(* The merge.                                                              *)
LEMMA MergeTypes ==
  ASSUME TypeParts, VerdictInv, MergeAction
  PROVE  TypeParts'
<1>1. CASE MergeStart
  <2>1. StageTypes' /\ QueueTypes' /\ FaultType' /\ OtherTypes'
    BY <1>1, TypeFrames, RecordTypes, RecordErrorTypes, FaultTypes,
        EnqueueTypes, OpsQueued
    DEF TypeParts, Goto, MergeStart, MergeFails
  <2>2. ProcessTypes'
    BY <1>1 DEF TypeParts, ProcessTypes, Steps, Ended, Facts, Reservations,
        Goto, MergeStart, MergeFails
  <2>3. WorldTypes'
    BY <1>1 DEF TypeParts, WorldTypes, RowStatuses, ReservationStates,
        Reservations, Goto, space, MergeStart, MergeFails
  <2> QED BY <2>1, <2>2, <2>3 DEF TypeParts
<1>2. CASE MergeIntent
  <2>1. StageTypes' /\ QueueTypes' /\ FaultType' /\ OtherTypes'
    BY <1>2, TypeFrames, RecordTypes, RecordErrorTypes, FaultTypes,
        EnqueueTypes, OpsQueued
    DEF TypeParts, Goto, MergeIntent, MergeFails, Stages
  <2>2. ProcessTypes'
    BY <1>2 DEF TypeParts, ProcessTypes, Steps, Ended, Facts, Reservations,
        Goto, MergeIntent, MergeFails
  <2>3. WorldTypes'
    BY <1>2 DEF TypeParts, WorldTypes, RowStatuses, ReservationStates,
        Reservations, Goto, space, MergeIntent, MergeFails
  <2> QED BY <2>1, <2>2, <2>3 DEF TypeParts
<1>3. CASE BuildAndCommit
  <2>1. StageTypes' /\ QueueTypes' /\ FaultType' /\ OtherTypes'
    BY <1>3, TypeFrames, RecordTypes, RecordErrorTypes, FaultTypes,
        EnqueueTypes, OpsQueued
    DEF TypeParts, Goto, BuildAndCommit, MergeFails
  <2>2. ProcessTypes'
    BY <1>3 DEF TypeParts, ProcessTypes, Steps, Ended, Facts, Reservations,
        Goto, BuildAndCommit, MergeFails
  <2>3. WorldTypes'
    BY <1>3 DEF TypeParts, WorldTypes, RowStatuses, ReservationStates,
        Reservations, Goto, space, BuildAndCommit, MergeFails
  <2> QED BY <2>1, <2>2, <2>3 DEF TypeParts
<1>4. CASE SyncRoot
  <2>1. StageTypes' /\ QueueTypes' /\ FaultType' /\ OtherTypes'
    BY <1>4, TypeFrames, RecordTypes, RecordErrorTypes, FaultTypes,
        EnqueueTypes, OpsQueued
    DEF TypeParts, Goto, SyncRoot, MergeFails
  <2>2. ProcessTypes'
    BY <1>4 DEF TypeParts, ProcessTypes, Steps, Ended, Facts, Reservations,
        Goto, SyncRoot, MergeFails
  <2>3. WorldTypes'
    BY <1>4 DEF TypeParts, WorldTypes, RowStatuses, ReservationStates,
        Reservations, Goto, space, SyncRoot, MergeFails
  <2> QED BY <2>1, <2>2, <2>3 DEF TypeParts
<1>5. CASE MergeApplied
  <2>1. StageTypes' /\ QueueTypes' /\ FaultType' /\ OtherTypes'
    BY <1>5, TypeFrames, RecordTypes, RecordErrorTypes, FaultTypes,
        EnqueueTypes, OpsQueued
    DEF TypeParts, Goto, MergeApplied, MergeFails, Stages
  <2>2. ProcessTypes'
    BY <1>5 DEF TypeParts, ProcessTypes, Steps, Ended, Facts, Reservations,
        Goto, MergeApplied, MergeFails
  <2>3. WorldTypes'
    BY <1>5 DEF TypeParts, WorldTypes, RowStatuses, ReservationStates,
        Reservations, Goto, space, MergeApplied, MergeFails
  <2> QED BY <2>1, <2>2, <2>3 DEF TypeParts
<1>6. CASE RollbackLiveRoot
  <2>1. StageTypes' /\ QueueTypes' /\ FaultType' /\ OtherTypes'
    BY <1>6, TypeFrames, RecordTypes, RecordErrorTypes, FaultTypes,
        EnqueueTypes, OpsQueued
    DEF TypeParts, Goto, RollbackLiveRoot
  <2>2. ProcessTypes'
    BY <1>6 DEF TypeParts, ProcessTypes, Steps, Ended, Facts, Reservations,
        Goto, RollbackLiveRoot
  <2>3. WorldTypes'
    BY <1>6 DEF TypeParts, WorldTypes, RowStatuses, ReservationStates,
        Reservations, Goto, space, RollbackLiveRoot
  <2> QED BY <2>1, <2>2, <2>3 DEF TypeParts
<1>7. CASE RootCommitted
  BY <1>7, TypeFrames, RecordTypes, RecordErrorTypes, FaultTypes, EnqueueTypes,
      OpsQueued
  DEF TypeParts, ProcessTypes, WorldTypes, Steps, Ended, Facts, RowStatuses,
      ReservationStates, Reservations, space, Goto,
      RootCommitted, BestEffort, Stages
<1>8. CASE CopyStart
  BY <1>8, TypeFrames, RecordTypes, RecordErrorTypes, FaultTypes, EnqueueTypes,
      OpsQueued
  DEF TypeParts, ProcessTypes, WorldTypes, Steps, Ended, Facts, RowStatuses,
      ReservationStates, Reservations, space, Goto,
      CopyStart
<1>9. CASE CopyEnd
  <2>1. StageTypes' /\ QueueTypes' /\ FaultType' /\ OtherTypes'
    BY <1>9, TypeFrames, RecordTypes, RecordErrorTypes, FaultTypes,
        EnqueueTypes, OpsQueued
    DEF TypeParts, Goto, CopyEnd, MergeFails
  <2>2. ProcessTypes'
    BY <1>9 DEF TypeParts, ProcessTypes, Steps, Ended, Facts, Reservations,
        Goto, CopyEnd, MergeFails
  <2>3. WorldTypes'
    BY <1>9 DEF TypeParts, WorldTypes, RowStatuses, ReservationStates,
        Reservations, Goto, space, CopyEnd, MergeFails
  <2> QED BY <2>1, <2>2, <2>3 DEF TypeParts
<1>10. CASE RestoreRecall
  <2>1. StageTypes' /\ QueueTypes' /\ FaultType' /\ OtherTypes'
    BY <1>10, TypeFrames, RecordTypes, RecordErrorTypes, FaultTypes,
        EnqueueTypes, OpsQueued
    DEF TypeParts, Goto, RestoreRecall
  <2>2. ProcessTypes'
    BY <1>10 DEF TypeParts, ProcessTypes, Steps, Ended, Facts, Reservations,
        Goto, RestoreRecall
  <2>3. WorldTypes'
    BY <1>10 DEF TypeParts, WorldTypes, RowStatuses, ReservationStates,
        Reservations, Goto, space, RestoreRecall
  <2> QED BY <2>1, <2>2, <2>3 DEF TypeParts
<1>11. CASE Merged
  <2>1. StageTypes' /\ QueueTypes' /\ FaultType' /\ OtherTypes'
    BY <1>11, TypeFrames, RecordTypes, RecordErrorTypes, FaultTypes,
        EnqueueTypes, OpsQueued
    DEF TypeParts, Goto, Merged, BestEffort, Checkpoint, Stages
  <2>2. ProcessTypes'
    BY <1>11 DEF TypeParts, ProcessTypes, Steps, Ended, Facts, Reservations,
        Goto, Merged, BestEffort, Checkpoint
  <2>3. WorldTypes'
    BY <1>11 DEF TypeParts, WorldTypes, RowStatuses, ReservationStates,
        Reservations, Goto, space, Merged, BestEffort, Checkpoint
  <2> QED BY <2>1, <2>2, <2>3 DEF TypeParts
<1> QED BY <1>1, <1>2, <1>3, <1>4, <1>5, <1>6, <1>7, <1>8, <1>9, <1>10, <1>11
       DEF MergeAction

(* From the verdict to the return.                                         *)
LEMMA LateTypes ==
  ASSUME TypeParts, VerdictInv, LateAction
  PROVE  TypeParts'
<1>1. CASE Decide
  <2>1. StageTypes' /\ QueueTypes' /\ FaultType' /\ OtherTypes'
    BY <1>1, TypeFrames, RecordTypes, RecordErrorTypes, FaultTypes,
        EnqueueTypes, OpsQueued
    DEF TypeParts, Goto, Decide
  <2>2. ProcessTypes'
    BY <1>1 DEF TypeParts, ProcessTypes, Steps, Ended, Facts, Reservations,
        Goto, Decide
  <2>3. WorldTypes'
    BY <1>1 DEF TypeParts, WorldTypes, RowStatuses, ReservationStates,
        Reservations, Goto, space, Decide
  <2> QED BY <2>1, <2>2, <2>3 DEF TypeParts
<1>2. CASE LedgerFinalizing
  <2>1. StageTypes' /\ QueueTypes' /\ FaultType' /\ OtherTypes'
    BY <1>2, TypeFrames, RecordTypes, RecordErrorTypes, FaultTypes,
        EnqueueTypes, OpsQueued
    DEF TypeParts, Goto, LedgerFinalizing, FinalizationFails, Stages
  <2>2. ProcessTypes'
    BY <1>2 DEF TypeParts, ProcessTypes, Steps, Ended, Facts, Reservations,
        Goto, LedgerFinalizing, FinalizationFails
  <2>3. WorldTypes'
    BY <1>2 DEF TypeParts, WorldTypes, RowStatuses, ReservationStates,
        Reservations, Goto, space, LedgerFinalizing, FinalizationFails
  <2> QED BY <2>1, <2>2, <2>3 DEF TypeParts
<1>3. CASE TerminalStage
  <2>0. verdict \in {"APPROVED", "QUARANTINED"} /\ verdict \in Stages
    BY <1>3 DEF TypeParts, ProcessTypes, TerminalStage, VerdictInv, Late, Stages
  <2>1. StageTypes' /\ QueueTypes' /\ FaultType' /\ OtherTypes'
    BY <1>3, <2>0, TypeFrames, RecordTypes, RecordErrorTypes, FaultTypes,
        EnqueueTypes, OpsQueued
    DEF TypeParts, Goto, TerminalStage, FinalizationFails
  <2>2. ProcessTypes'
    BY <1>3 DEF TypeParts, ProcessTypes, Steps, Ended, Facts, Reservations,
        Goto, TerminalStage, FinalizationFails
  <2>3. WorldTypes'
    BY <1>3, <2>0 DEF TypeParts, WorldTypes, RowStatuses, ReservationStates,
        Reservations, Goto, space, TerminalStage, FinalizationFails
  <2> QED BY <2>1, <2>2, <2>3 DEF TypeParts
<1>4. CASE UpdateRun
  <2>0. verdict \in {"APPROVED", "QUARANTINED"} /\ verdict \in Stages
    BY <1>4 DEF TypeParts, ProcessTypes, UpdateRun, VerdictInv, Late, Stages
  <2>1. StageTypes' /\ QueueTypes' /\ FaultType' /\ OtherTypes'
    BY <1>4, <2>0, TypeFrames, RecordTypes, RecordErrorTypes, FaultTypes,
        EnqueueTypes, OpsQueued
    DEF TypeParts, Goto, UpdateRun, FinalizationFails
  <2>2. ProcessTypes'
    BY <1>4 DEF TypeParts, ProcessTypes, Steps, Ended, Facts, Reservations,
        Goto, UpdateRun, FinalizationFails
  <2>3. WorldTypes'
    BY <1>4, <2>0 DEF TypeParts, WorldTypes, RowStatuses, ReservationStates,
        Reservations, Goto, space, UpdateRun, FinalizationFails
  <2> QED BY <2>1, <2>2, <2>3 DEF TypeParts
<1>5. CASE RecordEvidence
  <2>1. StageTypes' /\ QueueTypes' /\ FaultType' /\ OtherTypes'
    BY <1>5, TypeFrames, RecordTypes, RecordErrorTypes, FaultTypes,
        EnqueueTypes, OpsQueued
    DEF TypeParts, Goto, RecordEvidence, FinalizationFails, Stages
  <2>2. ProcessTypes'
    BY <1>5 DEF TypeParts, ProcessTypes, Steps, Ended, Facts, Reservations,
        Goto, RecordEvidence, FinalizationFails
  <2>3. WorldTypes'
    BY <1>5 DEF TypeParts, WorldTypes, RowStatuses, ReservationStates,
        Reservations, Goto, space, RecordEvidence, FinalizationFails
  <2> QED BY <2>1, <2>2, <2>3 DEF TypeParts
<1>6. CASE SettleQuota
  <2>1. StageTypes' /\ QueueTypes' /\ FaultType' /\ OtherTypes'
    BY <1>6, TypeFrames, RecordTypes, RecordErrorTypes, FaultTypes,
        EnqueueTypes, OpsQueued
    DEF TypeParts, Reservations, Goto, SettleQuota, Settle, FinalizationFails
  <2>2. ProcessTypes'
    BY <1>6 DEF TypeParts, ProcessTypes, Steps, Ended, Facts, Reservations,
        Goto, SettleQuota, Settle, FinalizationFails
  <2>3. WorldTypes'
    BY <1>6 DEF TypeParts, WorldTypes, RowStatuses, ReservationStates,
        Reservations, Goto, space, SettleQuota, Settle, FinalizationFails
  <2> QED BY <2>1, <2>2, <2>3 DEF TypeParts
<1>7. CASE SettleSpend
  <2>1. StageTypes' /\ QueueTypes' /\ FaultType' /\ OtherTypes'
    BY <1>7, TypeFrames, RecordTypes, RecordErrorTypes, FaultTypes,
        EnqueueTypes, OpsQueued
    DEF TypeParts, Reservations, Goto, SettleSpend, Settle, FinalizationFails
  <2>2. ProcessTypes'
    BY <1>7 DEF TypeParts, ProcessTypes, Steps, Ended, Facts, Reservations,
        Goto, SettleSpend, Settle, FinalizationFails
  <2>3. WorldTypes'
    BY <1>7 DEF TypeParts, WorldTypes, RowStatuses, ReservationStates,
        Reservations, Goto, space, SettleSpend, Settle, FinalizationFails
  <2> QED BY <2>1, <2>2, <2>3 DEF TypeParts
<1>8. CASE Feedback
  BY <1>8, TypeFrames, RecordTypes, RecordErrorTypes, FaultTypes, EnqueueTypes,
      OpsQueued
  DEF TypeParts, ProcessTypes, WorldTypes, Steps, Ended, Facts, RowStatuses,
      ReservationStates, Reservations, space, Goto,
      Feedback
<1>9. CASE Complete
  <2>1. StageTypes' /\ QueueTypes' /\ FaultType' /\ OtherTypes'
    BY <1>9, TypeFrames, RecordTypes, RecordErrorTypes, FaultTypes,
        EnqueueTypes, OpsQueued
    DEF TypeParts, Goto, Complete, BestEffort, Stages
  <2>2. ProcessTypes'
    BY <1>9 DEF TypeParts, ProcessTypes, Steps, Ended, Facts, Reservations,
        Goto, Complete, BestEffort
  <2>3. WorldTypes'
    BY <1>9 DEF TypeParts, WorldTypes, RowStatuses, ReservationStates,
        Reservations, Goto, space, Complete, BestEffort
  <2> QED BY <2>1, <2>2, <2>3 DEF TypeParts
<1>10. CASE DestroyAtEnd
  BY <1>10, TypeFrames, RecordTypes, RecordErrorTypes, FaultTypes, EnqueueTypes,
      OpsQueued
  DEF TypeParts, ProcessTypes, WorldTypes, Steps, Ended, Facts, RowStatuses,
      ReservationStates, Reservations, space, Goto,
      DestroyAtEnd, DestroyWorkspace, Destroyed
<1>11. CASE LedgerPendingRow
  BY <1>11, TypeFrames, RecordTypes, RecordErrorTypes, FaultTypes, EnqueueTypes,
      OpsQueued
  DEF TypeParts, ProcessTypes, WorldTypes, Steps, Ended, Facts, RowStatuses,
      ReservationStates, Reservations, space, Goto,
      LedgerPendingRow
<1>12. CASE LedgerPendingStage
  BY <1>12, TypeFrames, RecordTypes, RecordErrorTypes, FaultTypes, EnqueueTypes,
      OpsQueued
  DEF TypeParts, ProcessTypes, WorldTypes, Steps, Ended, Facts, RowStatuses,
      ReservationStates, Reservations, space, Goto,
      LedgerPendingStage, Stages
<1>13. CASE UnwindWorkspace
  BY <1>13, TypeFrames, RecordTypes, RecordErrorTypes, FaultTypes, EnqueueTypes,
      OpsQueued
  DEF TypeParts, ProcessTypes, WorldTypes, Steps, Ended, Facts, RowStatuses,
      ReservationStates, Reservations, space, Goto,
      UnwindWorkspace, DestroyWorkspace, Destroyed
<1>14. CASE Return
  BY <1>14, TypeFrames, RecordTypes, RecordErrorTypes, FaultTypes, EnqueueTypes,
      OpsQueued
  DEF TypeParts, ProcessTypes, WorldTypes, Steps, Ended, Facts, RowStatuses,
      ReservationStates, Reservations, space, Goto,
      Return
<1>15. CASE \E k \in Reservations : UnwindReservation(k)
  BY <1>15, TypeFrames, RecordTypes, RecordErrorTypes, FaultTypes, EnqueueTypes,
      OpsQueued
  DEF TypeParts, ProcessTypes, WorldTypes, Steps, Ended, Facts, RowStatuses,
      ReservationStates, Reservations, space, Goto,
      UnwindReservation
<1> QED BY <1>1, <1>2, <1>3, <1>4, <1>5, <1>6, <1>7, <1>8, <1>9, <1>10, <1>11,
           <1>12, <1>13, <1>14, <1>15
       DEF LateAction

(* Whoever touches the run from outside.                                   *)
LEMMA OtherTypesKept ==
  ASSUME TypeParts,
         \/ Crash
         \/ \E r \in Recoverers : Recover(r) \/ Abandon(r) \/ RecoverFails(r)
         \/ \E op \in outbox : Replay(op)
         \/ Rollback
  PROVE  TypeParts'
<1> USE TypeFrames, FaultTypes DEF TypeParts
<1>1. CASE Crash
  BY <1>1 DEF Crash, ProcessTypes, Steps, Ended, WorldTypes, space
<1>2. ASSUME NEW r \in Recoverers, Recover(r) \/ Abandon(r) \/ RecoverFails(r)
      PROVE  TypeParts'
  <2>1. CASE \E forced \in BOOLEAN : RecoverBegin(r, forced)
    BY <2>1 DEF RecoverBegin, OtherTypes, ProcessTypes, WorldTypes, process, space
  <2>2. CASE RecoverRelease(r)
    BY <2>2 DEF RecoverRelease, OtherTypes, ProcessTypes, WorldTypes, process,
        space,
                Reservations, ReservationStates
  <2>3. CASE RecoverDestroy(r)
    <3>1. ProcessTypes' /\ WorldTypes' /\ OtherTypes'
      BY <2>3 DEF RecoverDestroy, Destroyed, OtherTypes, ProcessTypes,
          WorldTypes, process, space
    <3>2. StageTypes'
      BY <2>3 DEF RecoverDestroy, StageTypes, LatestAfter, stages, Stages
    <3>3. QueueTypes' /\ FaultType'
      BY <2>3, EnqueueTypes, OpsQueued DEF RecoverDestroy
    <3> QED BY <3>1, <3>2, <3>3
  <2>4. CASE RecoverUpdate(r)
    BY <2>4 DEF RecoverUpdate, OtherTypes, ProcessTypes, WorldTypes, process,
        space, RowStatuses
  <2>5. CASE RecoverRecord(r)
    <3>1. ProcessTypes' /\ WorldTypes' /\ OtherTypes' /\ QueueTypes' /\ FaultType'
      BY <2>5 DEF RecoverRecord, OtherTypes, ProcessTypes, WorldTypes, process,
          space
    <3>2. rstatus[r] \in Stages
      BY DEF OtherTypes, Stages
    <3>3. StageTypes'
      BY <2>5, <3>2 DEF RecoverRecord, StageTypes, LatestAfter, stages
    <3> QED BY <3>1, <3>3
  <2>6. CASE RecoverFails(r)
    BY <2>6 DEF RecoverFails, OtherTypes, ProcessTypes, WorldTypes, process, space
  <2> QED BY <1>2, <2>1, <2>2, <2>3, <2>4, <2>5, <2>6 DEF Recover, Abandon
<1>3. ASSUME NEW op \in outbox, Replay(op)
      PROVE  TypeParts'
  <2>1. ProcessTypes' /\ FaultType' /\ OtherTypes'
    BY <1>3 DEF Replay, ProcessTypes, process
  <2>2. QueueTypes'
    BY <1>3 DEF Replay, QueueTypes
  <2>3. op \in Ops
    BY DEF QueueTypes
  <2>4. StageTypes'
    BY <1>3, <2>3 DEF Replay, StageTypes, LatestAfter, Ops
  <2>5. WorldTypes'
    BY <1>3, <2>3 DEF Replay, WorldTypes, Ops, RowStatuses, Reservations,
        ReservationStates
  <2> QED BY <2>1, <2>2, <2>4, <2>5
<1>4. CASE Rollback
  <2>1. ProcessTypes' /\ WorldTypes' /\ OtherTypes' /\ QueueTypes' /\ FaultType'
    BY <1>4 DEF Rollback, RollbackRevert, RollbackUpdate, RollbackRecord,
        RollbackFails,
                OtherTypes, ProcessTypes, WorldTypes, process, space, RowStatuses
  <2>2. StageTypes'
    BY <1>4 DEF Rollback, RollbackRevert, RollbackUpdate, RollbackRecord,
        RollbackFails,
                StageTypes, LatestAfter, stages, Stages
  <2> QED BY <2>1, <2>2
<1> QED BY <1>1, <1>2, <1>3, <1>4

-----------------------------------------------------------------------------
(* The theorems                                                            *)

PipelineInv == TypeOK /\ SafetyInv

(* Initially nothing has been established and nothing is claimed.          *)
LEMMA InitEstablishes == Init => PipelineInv
<1> SUFFICES ASSUME Init PROVE PipelineInv
  OBVIOUS
<1>1. TypeOK
  BY FaultsAssumption DEF Init, TypeOK, Steps, Reservations, ReservationStates,
      RowStatuses
<1>2. SafetyInv
  BY DEF Init, SafetyInv, RootMovesOnlyAfterBarrier, StepFacts, StepRoot,
      VerdictInv,
         RowInv, QuarantineLeavesRoot, BeforeMerge, Merging, GitMerge,
             CopyMerge, Late, Ended
<1> QED BY <1>1, <1>2 DEF PipelineInv

(* No step changes what the run was started with.                          *)
LEMMA ConfigKept == Next => UNCHANGED config
<1> USE DEF Goto, others
<1>1. EarlyAction => UNCHANGED config
  BY DEF EarlyAction, ErrorReturn, Parsed, Preflighted, CheckBudget, Routed, PolicyGate,
      ReserveSpend, ReserveQuota, QuotaReserved, RefuseRow, RefuseStage, Prepare,
      InsertRun, WorkspaceReady, AgentRunning, ConsumeOneShots, Launch, Observe,
      Extinguish, ExtinctionProof, Audited, Validating, RunValidators, Assaying,
      FinalBarrier, Checkpoint, BestEffort
<1>2. MergeAction => UNCHANGED config
  BY DEF MergeAction, MergeStart, MergeIntent, BuildAndCommit, SyncRoot, MergeApplied,
      RollbackLiveRoot, RootCommitted, CopyStart, CopyEnd, RestoreRecall, Merged,
      MergeFails, Checkpoint, BestEffort
<1>3. LateAction => UNCHANGED config
  BY DEF LateAction, Decide, LedgerFinalizing, TerminalStage, UpdateRun, RecordEvidence,
      SettleQuota, SettleSpend, Settle, Feedback, Complete, DestroyAtEnd,
      LedgerPendingRow, LedgerPendingStage, UnwindWorkspace, Return, UnwindReservation,
      FinalizationFails, BestEffort
<1>4. ASSUME NEW r \in Recoverers, Recover(r) \/ Abandon(r) \/ RecoverFails(r)
      PROVE  UNCHANGED config
  BY <1>4 DEF Recover, Abandon, RecoverBegin, RecoverRelease, RecoverDestroy,
      RecoverUpdate, RecoverRecord, RecoverFails
<1>5. ASSUME NEW op \in outbox, Replay(op) PROVE UNCHANGED config
  BY <1>5 DEF Replay
<1>6. Rollback => UNCHANGED config
  BY DEF Rollback, RollbackRevert, RollbackUpdate, RollbackRecord, RollbackFails
<1>7. Crash => UNCHANGED config
  BY DEF Crash
<1>8. RunStep => EarlyAction \/ MergeAction \/ LateAction
  BY DEF RunStep, EarlyAction, MergeAction, LateAction
<1> QED BY <1>1, <1>2, <1>3, <1>4, <1>5, <1>6, <1>7, <1>8 DEF Next

(* Every step, of the run, a recoverer, a replay or a rollback, keeps it.  *)
LEMMA StepKeeps == PipelineInv /\ [Next]_vars => PipelineInv'
<1> SUFFICES ASSUME PipelineInv, [Next]_vars PROVE PipelineInv'
  OBVIOUS
<1>1. config \in Configs /\ TypeParts /\ SafetyInv /\ VerdictInv /\ PlainTypes
  BY TypePartsIsTypeOK DEF PipelineInv, SafetyInv, PlainTypes, TypeOK
<1>2. CASE RunStep
  <2> UNCHANGED config
    BY <1>2, ConfigKept DEF Next
  <2>1. TypeParts'
    BY <1>1, <1>2, EarlyTypes, MergeTypes, LateTypes DEF RunStep, EarlyAction,
        MergeAction, LateAction
  <2>2. SafetyInv'
    BY <1>1, <1>2, EarlyStep, MergeStep, LateStep DEF RunStep, EarlyAction,
        MergeAction, LateAction
  <2>3. (config \in Configs)'
    BY <1>1, <1>2
  <2> QED BY <2>1, <2>2, <2>3, TypePartsIsTypeOK, PTL DEF PipelineInv
<1>3. CASE Next /\ ~RunStep
  <2> UNCHANGED config
    BY <1>3, ConfigKept
  <2>1. TypeParts' /\ SafetyInv'
    BY <1>1, <1>3, OtherTypesKept, OtherStep DEF Next
  <2>2. (config \in Configs)'
    BY <1>1, <1>3 DEF Next
  <2> QED BY <2>1, <2>2, TypePartsIsTypeOK, PTL DEF PipelineInv
<1>4. CASE UNCHANGED vars
  BY <1>4 DEF vars, process, stages, space, queue, others, PipelineInv, TypeOK,
      SafetyInv,
     RootMovesOnlyAfterBarrier, StepFacts, StepRoot, VerdictInv, RowInv,
     QuarantineLeavesRoot, Cleared, Git, Darwin
<1> QED BY <1>2, <1>3, <1>4 DEF Next

(***************************************************************************)
(* The invariant holds in every state of every run, whatever the           *)
(* configuration, however many recoverers there are and however many       *)
(* ledger writes fail.                                                     *)
(***************************************************************************)
THEOREM PipelineInvariance == Spec => []PipelineInv
BY InitEstablishes, StepKeeps, PTL DEF Spec

(* Type correctness of the run, its ledger rows and its reservations.      *)
THEOREM TypeCorrectness == Spec => []TypeOK
BY PipelineInvariance, PTL DEF PipelineInv

(***************************************************************************)
(* The live root moves only after the final validation barrier, for a git  *)
(* root after the merge intent, and with the agent's processes extinct.    *)
(***************************************************************************)
THEOREM BarrierBeforeRoot == Spec => []RootMovesOnlyAfterBarrier
BY PipelineInvariance, PTL DEF PipelineInv, SafetyInv

(* An APPROVED row stands for validated work that is on the live root,     *)
(* whoever wrote the row.                                                  *)
THEOREM ApprovalIsEarned == Spec => []ApprovedIsEarned
<1>1. PipelineInv => ApprovedIsEarned
  BY DEF PipelineInv, SafetyInv, VerdictInv, RowInv, Cleared, ApprovedIsEarned
<1> QED BY <1>1, PipelineInvariance, PTL

(* A run that quarantines itself leaves the live root as it found it,      *)
(* unless its rollback failed (and was reported) or it runs on darwin.     *)
THEOREM QuarantineIsHarmless == Spec => []QuarantineLeavesRoot
BY PipelineInvariance, PTL DEF PipelineInv, SafetyInv, VerdictInv

(***************************************************************************)
(* After the git commit of the root no step of the run, of recovery or of  *)
(* a replay undoes it: only `gov run rollback` of an APPROVED run does.    *)
(***************************************************************************)
THEOREM CommitIsFinal == Spec => CommittedRootStays
<1>1. ASSUME PipelineInv, Next, root' # root, "rootCommitted" \in facts
      PROVE  row = "APPROVED" /\ rb = "idle" /\ rb' = "reverted"
  <2>1. pc \in {"rootCommitted", "merged", "decide", "unwind"} \cup Late \cup Ended
    BY <1>1 DEF PipelineInv, SafetyInv, StepFacts
  <2>2. ~RunStep
    <3> USE DEF Late, Ended, Goto
    <3>1. ~EarlyAction
      BY <1>1, <2>1 DEF EarlyAction, ErrorReturn, Parsed, Preflighted,
          CheckBudget, Routed, PolicyGate, ReserveSpend, ReserveQuota,
          QuotaReserved, RefuseRow, RefuseStage, Prepare, InsertRun, WorkspaceReady,
          AgentRunning, ConsumeOneShots, Launch, Observe, Extinguish,
          ExtinctionProof, Audited, Validating, RunValidators, Assaying,
          FinalBarrier, Checkpoint, BestEffort
    <3>2. ~MergeAction
      BY <1>1, <2>1 DEF MergeAction, MergeStart, MergeIntent, BuildAndCommit,
          SyncRoot, MergeApplied, RollbackLiveRoot, RootCommitted, CopyStart,
          CopyEnd, RestoreRecall, Merged, Checkpoint, BestEffort, MergeFails
    <3>3. ~LateAction
      BY <1>1, <2>1 DEF LateAction, Decide, LedgerFinalizing, TerminalStage,
          UpdateRun, RecordEvidence, SettleQuota, SettleSpend, Feedback, Complete,
          DestroyAtEnd, LedgerPendingRow, LedgerPendingStage, UnwindWorkspace,
          Return, UnwindReservation, BestEffort, FinalizationFails, Settle
    <3> QED BY <3>1, <3>2, <3>3 DEF RunStep, EarlyAction, MergeAction, LateAction
  <2>3. CASE Crash
    BY <1>1, <2>3 DEF Crash
  <2>4. CASE \E r \in Recoverers : Recover(r) \/ Abandon(r) \/ RecoverFails(r)
    BY <1>1, <2>4 DEF Recover, Abandon, RecoverBegin, RecoverRelease,
        RecoverDestroy,
                      RecoverUpdate, RecoverRecord, RecoverFails
  <2>5. CASE \E op \in outbox : Replay(op)
    BY <1>1, <2>5 DEF Replay
  <2>6. CASE Rollback
    BY <1>1, <2>6 DEF Rollback, RollbackRevert, RollbackUpdate, RollbackRecord,
        RollbackFails
  <2> QED BY <1>1, <2>2, <2>3, <2>4, <2>5, <2>6 DEF Next
<1>2. PipelineInv /\ [Next]_vars =>
        [root' # root /\ "rootCommitted" \in facts =>
           row = "APPROVED" /\ rb = "idle" /\ rb' = "reverted"]_vars
  BY <1>1
<1> QED BY <1>2, PipelineInvariance, PTL DEF Spec, CommittedRootStays

-----------------------------------------------------------------------------
(* Leaks                                                                   *)

(* The steps up to the QUOTA_RESERVED checkpoint.                          *)
UpToQuota == {"parse", "preflight", "budget", "route", "gate", "refuseRow",
              "refuseStage", "spend", "quota", "quotaStage"}

(***************************************************************************)
(* Whatever the run holds is still due for release, or was handed over, or *)
(* the process died.  The one window is between quota.Reserve and the      *)
(* QUOTA_RESERVED checkpoint that arms its release.                        *)
(***************************************************************************)
SpendIsDue ==
  res["spend"] = "held" =>
    "spend" \in armed \/ HandedOver(Op("release", "spend")) \/ pc = "dead"

QuotaIsDue ==
  res["quota"] = "held" =>
    \/ "quota" \in armed \/ HandedOver(Op("release", "quota")) \/ pc = "dead"
    \/ pc = "quotaStage"
    \/ pc \in {"unwind", "returned"} /\ "QUOTA_RESERVED" \notin reached

ShotIsDue ==
  res["shot"] = "held" =>
    \/ "shot" \in armed \/ HandedOver(Op("release", "shot")) \/ pc = "dead"
    \/ "gateError" \in facts

WorktreeIsDue ==
  ws = "present" =>
    \/ "ws" \in armed \/ pc = "dead"
    \/ \E k \in {"approved", "quarantined"} : HandedOver(Op("destroy", k))

LeakInv ==
  /\ SpendIsDue /\ QuotaIsDue /\ ShotIsDue /\ WorktreeIsDue
  /\ pc \in Ended => armed = {}
  /\ pc \in UpToQuota => "QUOTA_RESERVED" \notin reached
  /\ Op("stage", "QUOTA_RESERVED") \notin outbox

(* A step that neither takes nor gives back anything.                      *)
Quiet ==
  /\ UNCHANGED <<res, ws, armed>>
  /\ facts \subseteq facts' /\ outbox \subseteq outbox' /\ unqueued \subseteq unqueued'
  /\ "QUOTA_RESERVED" \in reached' => "QUOTA_RESERVED" \in reached
  /\ Op("stage", "QUOTA_RESERVED") \in outbox' => Op("stage", "QUOTA_RESERVED") \in outbox
  /\ pc # "quotaStage" /\ pc \notin Ended /\ pc' \notin {"quotaStage", "dead"}
  /\ pc = "unwind" => pc' = "returned" /\ armed = {}
  /\ pc' = "returned" => pc = "unwind" /\ armed = {}
  /\ pc' \in UpToQuota => pc \in UpToQuota

(* The steps that take something or give it back.                          *)
Takes ==
  PolicyGate \/ ReserveSpend \/ ReserveQuota \/ QuotaReserved \/ Prepare
    \/ ConsumeOneShots \/ SettleQuota \/ SettleSpend \/ DestroyAtEnd
    \/ UnwindWorkspace \/ \E k \in Reservations : UnwindReservation(k)

(* Every other step of the run is quiet.                                   *)
LEMMA OthersAreQuiet == PlainTypes /\ RunStep => Takes \/ Quiet
<1> SUFFICES ASSUME PlainTypes, RunStep, ~Takes PROVE Quiet
  OBVIOUS
<1> USE DEF Quiet, Takes, Goto, Ended, UpToQuota, Op, Record, RecordError, Enqueue, space,
        stages, queue, others, PlainTypes
<1>1. CASE EarlyAction
  BY <1>1 DEF EarlyAction, ErrorReturn, Parsed, Preflighted, CheckBudget, Routed,
      RefuseRow, RefuseStage, InsertRun, WorkspaceReady, AgentRunning, Launch, Observe,
      Extinguish, ExtinctionProof, Audited, Validating, RunValidators, Assaying,
      FinalBarrier, Checkpoint, BestEffort
<1>2. CASE MergeAction
  BY <1>2 DEF MergeAction, MergeStart, MergeIntent, BuildAndCommit, SyncRoot, MergeApplied,
      RollbackLiveRoot, RootCommitted, CopyStart, CopyEnd, RestoreRecall, Merged,
      MergeFails, Checkpoint, BestEffort
<1>3. CASE LateAction
  BY <1>3 DEF LateAction, Decide, LedgerFinalizing, TerminalStage, UpdateRun,
      RecordEvidence, Feedback, Complete, LedgerPendingRow, LedgerPendingStage, Return,
      FinalizationFails, BestEffort
<1> QED BY <1>1, <1>2, <1>3 DEF RunStep, EarlyAction, MergeAction, LateAction

(* A quiet step leaves everything due that was due.                        *)
LEMMA QuietKeepsDue == LeakInv /\ Quiet => LeakInv'
BY DEF LeakInv, Quiet, SpendIsDue, QuotaIsDue, ShotIsDue, WorktreeIsDue, HandedOver,
       Ended, UpToQuota

(* What a run takes is armed at once, but for the quota window, and what   *)
(* it gives back is released, settled, or handed over.                     *)
LEMMA TakesKeepsDue ==
  ASSUME WorldTypes, LeakInv, Takes
  PROVE  LeakInv'
<1> USE EnqueueAdds, OpKinds
<1> USE DEF LeakInv, SpendIsDue, QuotaIsDue, ShotIsDue, WorktreeIsDue, HandedOver, Ended,
    UpToQuota, WorldTypes, Reservations, Goto, stages, space, queue, others, Enqueue
<1>1. CASE PolicyGate
  BY <1>1 DEF PolicyGate
<1>2. CASE ReserveSpend
  BY <1>2 DEF ReserveSpend
<1>3. CASE ReserveQuota
  BY <1>3 DEF ReserveQuota
<1>4. CASE QuotaReserved
  BY <1>4 DEF QuotaReserved, RecordError
<1>5. CASE Prepare
  BY <1>5 DEF Prepare
<1>6. CASE ConsumeOneShots
  BY <1>6 DEF ConsumeOneShots
<1>7. CASE SettleQuota
  BY <1>7 DEF SettleQuota, Settle, FinalizationFails
<1>8. CASE SettleSpend
  BY <1>8 DEF SettleSpend, Settle, FinalizationFails
<1>9. CASE DestroyAtEnd
  BY <1>9 DEF DestroyAtEnd, DestroyWorkspace, Destroyed
<1>10. CASE UnwindWorkspace
  BY <1>10 DEF UnwindWorkspace, DestroyWorkspace, Destroyed
<1>11. ASSUME NEW k \in Reservations, UnwindReservation(k)
       PROVE  LeakInv'
  BY <1>11 DEF UnwindReservation
<1> QED BY <1>1, <1>2, <1>3, <1>4, <1>5, <1>6, <1>7, <1>8, <1>9, <1>10, <1>11
       DEF Takes

(* A crash, recovery, a replay and a rollback only ever give back.         *)
LEMMA OthersKeepDue ==
  ASSUME WorldTypes, PlainTypes, LeakInv,
         \/ Crash
         \/ \E r \in Recoverers : Recover(r) \/ Abandon(r) \/ RecoverFails(r)
         \/ \E op \in outbox : Replay(op)
         \/ Rollback
  PROVE  LeakInv'
<1> USE OpKinds
<1> USE DEF LeakInv, SpendIsDue, QuotaIsDue, ShotIsDue, WorktreeIsDue, HandedOver, Ended,
    UpToQuota, WorldTypes, Reservations, process, stages, space, queue, others, Enqueue
<1>1. CASE Crash
  BY <1>1 DEF Crash
<1>2. ASSUME NEW r \in Recoverers, Recover(r) \/ Abandon(r) \/ RecoverFails(r)
      PROVE  LeakInv'
  <2>1. CASE \E forced \in BOOLEAN : RecoverBegin(r, forced)
    BY <2>1 DEF RecoverBegin
  <2>2. CASE RecoverRelease(r)
    BY <2>2 DEF RecoverRelease
  <2>3. CASE RecoverDestroy(r)
    BY <2>3 DEF RecoverDestroy, Destroyed
  <2>4. CASE RecoverUpdate(r)
    BY <2>4 DEF RecoverUpdate
  <2>5. CASE RecoverRecord(r)
    BY <2>5 DEF RecoverRecord, PlainTypes
  <2>6. CASE RecoverFails(r)
    BY <2>6 DEF RecoverFails
  <2> QED BY <1>2, <2>1, <2>2, <2>3, <2>4, <2>5, <2>6 DEF Recover, Abandon
<1>3. ASSUME NEW op \in outbox, Replay(op)
      PROVE  LeakInv'
  <2>0. op \in Ops /\ op = Op(op.kind, op.arg)
    BY OpShape DEF PlainTypes
  <2> op.kind \in {"stage", "runUpdate", "destroy", "release", "settle", "evidence", "feedback"}
    BY <2>0 DEF Ops
  <2>1. CASE op.kind = "stage"
    BY <2>0, <2>1, <1>3 DEF Replay
  <2>2. CASE op.kind = "destroy"
    BY <2>0, <2>2, <1>3 DEF Replay
  <2>3. CASE op.kind \in {"release", "settle"}
    BY <2>0, <2>3, <1>3 DEF Replay
  <2>4. CASE op.kind \in {"runUpdate", "evidence", "feedback"}
    BY <2>0, <2>4, <1>3 DEF Replay
  <2> QED BY <2>1, <2>2, <2>3, <2>4
<1>4. CASE Rollback
  BY <1>4 DEF Rollback, RollbackRevert, RollbackUpdate, RollbackRecord,
      RollbackFails
<1> QED BY <1>1, <1>2, <1>3, <1>4

-----------------------------------------------------------------------------
(* Evidence                                                                *)

(* The steps after it, on a way that no ledger write has failed.           *)
AfterSettled == {"feedback", "complete", "destroy", "unwind"} \cup Ended

Committed == "rootCommitted" \in facts

(* A preserved run is a quarantined one; a committed root is not           *)
(* quarantined, except on darwin.                                          *)
PreservedFacts ==
  /\ "preserved" \in facts =>
       "violation" \in facts /\ verdict = "QUARANTINED" /\ pc \in Late \cup {"unwind"} \cup Ended
  /\ Committed /\ ~Darwin => "violation" \notin facts

(* Only a committed run queues a settlement or goes through ledgerPending; *)
(* the teardown that takes the branch is only queued after the run's end.  *)
QueuedFacts ==
  /\ \A k \in Reservations : Op("settle", k) \in outbox => Committed
  /\ pc \in {"pendingRow", "pendingStage"} => Committed
  /\ Op("destroy", "approved") \in outbox => pc \in {"unwind"} \cup Ended

(* Nobody recovers a living run, and none whose row is settled.            *)
RecoveryFacts ==
  /\ \A r \in Recoverers : rpc[r] # "idle" => pc \in Ended
  /\ pc \in {"evidence", "settleQuota", "settleSpend"} => row # "RUNNING"

(* Without a commit the settlement is the last word: after it nothing can  *)
(* take the branch of a quarantined run any more.                          *)
SettledFacts ==
  res["spend"] = "settled" /\ ~Committed =>
    /\ pc \in AfterSettled /\ row # "RUNNING"
    /\ \A r \in Recoverers : rpc[r] = "idle"
    /\ pc = "unwind" => "ws" \notin armed
    /\ verdict = "QUARANTINED" => Op("destroy", "approved") \notin outbox

BranchFacts ==
  /\ "preserved" \in facts /\ pc \in Late => branch = "evidence"
  /\ EvidenceStays

EvidenceInv == PreservedFacts /\ QueuedFacts /\ RecoveryFacts /\ SettledFacts /\ BranchFacts

(* Before the verdict nothing is preserved, settled or torn down.          *)
LEMMA EarlyKeepsEvidence ==
  ASSUME PlainTypes, WorldTypes, SafetyInv, EvidenceInv, UNCHANGED config, EarlyAction
  PROVE  EvidenceInv'
<1> USE EnqueueAdds, OpKinds
<1> USE DEF EvidenceInv, PreservedFacts, QueuedFacts, RecoveryFacts, SettledFacts, BranchFacts,
    EvidenceStays, Committed, Darwin, Late, Ended, AfterSettled, PlainTypes,
    WorldTypes, Reservations, SafetyInv, StepFacts, Cleared, Merging, VerdictInv, Goto,
    process, stages, space, queue, others
<1>1. CASE ErrorReturn
  BY <1>1 DEF ErrorReturn
<1>2. CASE Parsed
  BY <1>2 DEF Parsed, Checkpoint
<1>3. CASE Preflighted
  BY <1>3 DEF Preflighted, Checkpoint
<1>4. CASE CheckBudget
  BY <1>4 DEF CheckBudget
<1>5. CASE Routed
  BY <1>5 DEF Routed, Checkpoint
<1>6. CASE PolicyGate
  BY <1>6 DEF PolicyGate
<1>7. CASE ReserveSpend
  BY <1>7 DEF ReserveSpend
<1>8. CASE ReserveQuota
  BY <1>8 DEF ReserveQuota
<1>9. CASE QuotaReserved
  BY <1>9 DEF QuotaReserved
<1>10. CASE RefuseRow
  BY <1>10 DEF RefuseRow
<1>11. CASE RefuseStage
  BY <1>11 DEF RefuseStage, Checkpoint
<1>12. CASE Prepare
  BY <1>12 DEF Prepare
<1>13. CASE InsertRun
  BY <1>13 DEF InsertRun
<1>14. CASE WorkspaceReady
  BY <1>14 DEF WorkspaceReady, Checkpoint
<1>15. CASE AgentRunning
  BY <1>15 DEF AgentRunning, Checkpoint
<1>16. CASE ConsumeOneShots
  BY <1>16 DEF ConsumeOneShots
<1>17. CASE Launch
  BY <1>17 DEF Launch
<1>18. CASE Observe
  BY <1>18 DEF Observe, BestEffort
<1>19. CASE Extinguish
  BY <1>19 DEF Extinguish, Checkpoint
<1>20. CASE ExtinctionProof
  BY <1>20 DEF ExtinctionProof
<1>21. CASE Audited
  BY <1>21 DEF Audited, Checkpoint
<1>22. CASE Validating
  BY <1>22 DEF Validating
<1>23. CASE RunValidators
  BY <1>23 DEF RunValidators
<1>24. CASE Assaying
  BY <1>24 DEF Assaying
<1>25. CASE FinalBarrier
  BY <1>25 DEF FinalBarrier
<1> QED BY <1>1, <1>2, <1>3, <1>4, <1>5, <1>6, <1>7, <1>8, <1>9, <1>10, <1>11, <1>12,
           <1>13, <1>14, <1>15, <1>16, <1>17, <1>18, <1>19, <1>20, <1>21, <1>22, <1>23, <1>24,
           <1>25 DEF EarlyAction

(* The merge commits the root only if nothing speaks against it.           *)
LEMMA MergeKeepsEvidence ==
  ASSUME PlainTypes, WorldTypes, SafetyInv, EvidenceInv, UNCHANGED config, MergeAction
  PROVE  EvidenceInv'
<1> USE EnqueueAdds, OpKinds
<1> USE DEF EvidenceInv, PreservedFacts, QueuedFacts, RecoveryFacts, SettledFacts, BranchFacts,
    EvidenceStays, Committed, Darwin, Late, Ended, AfterSettled, PlainTypes,
    WorldTypes, Reservations, SafetyInv, StepFacts, Cleared, Merging, VerdictInv, Goto,
    process, stages, space, queue, others
<1>1. CASE MergeStart
  BY <1>1 DEF MergeStart, MergeFails
<1>2. CASE MergeIntent
  BY <1>2 DEF MergeIntent, MergeFails
<1>3. CASE BuildAndCommit
  BY <1>3 DEF BuildAndCommit, MergeFails
<1>4. CASE SyncRoot
  BY <1>4 DEF SyncRoot, MergeFails
<1>5. CASE MergeApplied
  BY <1>5 DEF MergeApplied, MergeFails
<1>6. CASE RollbackLiveRoot
  BY <1>6 DEF RollbackLiveRoot
<1>7. CASE RootCommitted
  BY <1>7 DEF RootCommitted, BestEffort
<1>8. CASE CopyStart
  BY <1>8 DEF CopyStart
<1>9. CASE CopyEnd
  BY <1>9 DEF CopyEnd, MergeFails
<1>10. CASE RestoreRecall
  BY <1>10 DEF RestoreRecall
<1>11. CASE Merged
  BY <1>11 DEF Merged, BestEffort, Checkpoint
<1> QED BY <1>1, <1>2, <1>3, <1>4, <1>5, <1>6, <1>7, <1>8, <1>9, <1>10, <1>11 DEF MergeAction

(* From the verdict on: a run that settles is not unwound, and one that is *)
(* unwound has not settled.                                                *)
LEMMA LateKeepsEvidence ==
  ASSUME PlainTypes, WorldTypes, SafetyInv, EvidenceInv, UNCHANGED config, LateAction
  PROVE  EvidenceInv'
<1> USE EnqueueAdds, OpKinds
<1> USE DEF EvidenceInv, PreservedFacts, QueuedFacts, RecoveryFacts, SettledFacts, BranchFacts,
    EvidenceStays, Committed, Darwin, Late, Ended, AfterSettled, PlainTypes,
    WorldTypes, Reservations, SafetyInv, StepFacts, Cleared, Merging, VerdictInv, Goto,
    process, stages, space, queue, others
<1>1. CASE Decide
  BY <1>1 DEF Decide
<1>2. CASE LedgerFinalizing
  BY <1>2 DEF LedgerFinalizing, FinalizationFails
<1>3. CASE TerminalStage
  BY <1>3 DEF TerminalStage, FinalizationFails
<1>4. CASE UpdateRun
  BY <1>4 DEF UpdateRun, FinalizationFails
<1>5. CASE RecordEvidence
  BY <1>5 DEF RecordEvidence, FinalizationFails
<1>6. CASE SettleQuota
  BY <1>6 DEF SettleQuota, Settle, FinalizationFails
<1>7. CASE SettleSpend
  BY <1>7 DEF SettleSpend, Settle, FinalizationFails
<1>8. CASE Feedback
  BY <1>8 DEF Feedback
<1>9. CASE Complete
  BY <1>9 DEF Complete, BestEffort
<1>10. CASE DestroyAtEnd
  BY <1>10 DEF DestroyAtEnd, DestroyWorkspace, Destroyed
<1>11. CASE LedgerPendingRow
  BY <1>11 DEF LedgerPendingRow
<1>12. CASE LedgerPendingStage
  BY <1>12 DEF LedgerPendingStage
<1>13. CASE UnwindWorkspace
  BY <1>13 DEF UnwindWorkspace, DestroyWorkspace, Destroyed
<1>14. CASE Return
  BY <1>14 DEF Return
<1>15. ASSUME NEW k \in Reservations, UnwindReservation(k) PROVE EvidenceInv'
  BY <1>15 DEF UnwindReservation
<1> QED BY <1>1, <1>2, <1>3, <1>4, <1>5, <1>6, <1>7, <1>8, <1>9, <1>10, <1>11, <1>12,
           <1>13, <1>14, <1>15 DEF LateAction

(* Recovery, replays and rollbacks find nothing to take of a settled run.  *)
LEMMA OthersKeepEvidence ==
  ASSUME PlainTypes, WorldTypes, SafetyInv, EvidenceInv, UNCHANGED config,
         \/ Crash
         \/ \E r \in Recoverers : Recover(r) \/ Abandon(r) \/ RecoverFails(r)
         \/ \E op \in outbox : Replay(op)
         \/ Rollback
  PROVE  EvidenceInv'
<1> USE EnqueueAdds, OpKinds
<1> USE DEF EvidenceInv, PreservedFacts, QueuedFacts, RecoveryFacts, SettledFacts, BranchFacts,
    EvidenceStays, Committed, Darwin, Late, Ended, AfterSettled, PlainTypes,
    WorldTypes, Reservations, SafetyInv, StepFacts, Cleared, Merging, VerdictInv, Goto,
    process, stages, space, queue, others
<1> USE DEF OtherTypes
<1>1. CASE Crash
  BY <1>1 DEF Crash
<1>2. ASSUME NEW r \in Recoverers, Recover(r) \/ Abandon(r) \/ RecoverFails(r)
      PROVE  EvidenceInv'
  <2>1. CASE \E forced \in BOOLEAN : RecoverBegin(r, forced)
    BY <2>1 DEF RecoverBegin
  <2>2. CASE RecoverRelease(r)
    BY <2>2 DEF RecoverRelease
  <2>3. CASE RecoverDestroy(r)
    BY <2>3 DEF RecoverDestroy, Destroyed
  <2>4. CASE RecoverUpdate(r)
    BY <2>4 DEF RecoverUpdate
  <2>5. CASE RecoverRecord(r)
    BY <2>5 DEF RecoverRecord
  <2>6. CASE RecoverFails(r)
    BY <2>6 DEF RecoverFails
  <2> QED BY <1>2, <2>1, <2>2, <2>3, <2>4, <2>5, <2>6 DEF Recover, Abandon
<1>3. ASSUME NEW op \in outbox, Replay(op)
      PROVE  EvidenceInv'
  <2>0. op \in Ops /\ op = Op(op.kind, op.arg)
    BY OpShape
  <2> op.kind \in {"stage", "runUpdate", "destroy", "release", "settle", "evidence", "feedback"}
    BY <2>0 DEF Ops
  <2>1. CASE op.kind \in {"stage", "evidence", "feedback"}
    BY <2>0, <2>1, <1>3 DEF Replay
  <2>2. CASE op.kind = "destroy"
    BY <2>0, <2>2, <1>3 DEF Replay
  <2>3. CASE op.kind \in {"release", "settle"}
    <3>1. op.arg \in Reservations
      BY <2>0, <2>3 DEF Ops
    <3> QED BY <2>0, <2>3, <3>1, <1>3 DEF Replay
  <2>4. CASE op.kind = "runUpdate"
    <3>1. op.arg # "RUNNING"
      BY <2>0, <2>4 DEF Ops
    <3> QED BY <2>0, <2>4, <3>1, <1>3 DEF Replay
  <2> QED BY <2>1, <2>2, <2>3, <2>4
<1>4. CASE Rollback
  BY <1>4 DEF Rollback, RollbackRevert, RollbackUpdate, RollbackRecord,
      RollbackFails
<1> QED BY <1>1, <1>2, <1>3, <1>4

-----------------------------------------------------------------------------
(* The transition table fits the call sites                                *)

(* The order in which a run that drops nothing records its stages.         *)
Rank ==
  [s \in Stages \cup {NoStage} |->
     CASE s = NoStage -> 0
       [] s = "PARSED" -> 1
       [] s = "PREFLIGHTED" -> 2
       [] s = "ROUTED" -> 3
       [] s = "QUOTA_RESERVED" -> 4
       [] s = "WORKSPACE_READY" -> 5
       [] s = "AGENT_RUNNING" -> 6
       [] s = "OUTPUT_TRUNCATED" -> 7
       [] s = "DESCENDANTS_TERMINATED" -> 8
       [] s = "AUDITED" -> 9
       [] s = "VALIDATING" -> 10
       [] s = "ASSAYING" -> 11
       [] s = "FINAL_VALIDATION_BARRIER" -> 12
       [] s = "MERGE_INTENT" -> 13
       [] s = "MERGE_APPLIED" -> 14
       [] s = "ROOT_COMMITTED" -> 15
       [] s = "MERGED" -> 16
       [] s = "LEDGER_FINALIZING" -> 17
       [] s \in {"APPROVED", "QUARANTINED"} -> 18
       [] OTHER -> 19]

(* The recorded stages are in that order.                                  *)
InOrder == \A s \in reached : Rank[s] <= Rank[latest]

(***************************************************************************)
(* The latest stage at each step, as long as no stage write of the run was *)
(* dropped; between them, and in the run's own order, Validate accepts     *)
(* every stage a call site records.                                        *)
(***************************************************************************)
LatestBeforeMerge ==
  /\ pc = "parse" => latest = NoStage
  /\ pc = "preflight" => latest = "PARSED"
  /\ pc \in {"budget", "route"} => latest = "PREFLIGHTED"
  /\ pc \in {"gate", "spend", "quota", "quotaStage"} => latest = "ROUTED"
  /\ pc \in {"refuseRow", "refuseStage"} => latest \in {"PREFLIGHTED", "ROUTED"}
  /\ pc \in {"prepare", "insert", "ready"} => latest = "QUOTA_RESERVED"
  /\ pc = "agent" => latest = "WORKSPACE_READY"
  /\ pc \in {"consume", "launch", "observe"} => latest = "AGENT_RUNNING"
  /\ pc = "extinguish" => latest \in {"AGENT_RUNNING", "OUTPUT_TRUNCATED"}
  /\ pc \in {"proof", "audit"} => latest = "DESCENDANTS_TERMINATED"
  /\ pc = "checks" => latest = "AUDITED"
  /\ pc \in {"validate", "assay"} => latest = "VALIDATING"
  /\ pc = "barrier" => latest \in {"VALIDATING", "ASSAYING"}

LatestInMerge ==
  /\ pc = "merge" =>
       /\ latest \in {"VALIDATING", "ASSAYING", "FINAL_VALIDATION_BARRIER"}
       /\ "violation" \notin facts => latest = "FINAL_VALIDATION_BARRIER"
  /\ pc \in {"intent", "copy", "copied", "restore"} => latest = "FINAL_VALIDATION_BARRIER"
  /\ pc \in {"build", "sync", "applied"} => latest = "MERGE_INTENT"
  /\ pc = "rollback" => latest \in {"FINAL_VALIDATION_BARRIER", "MERGE_INTENT"}
  /\ pc = "rootCommitted" => latest = "MERGE_APPLIED" /\ Committed
  /\ pc = "merged" => latest = IF Committed THEN "ROOT_COMMITTED"
                               ELSE "FINAL_VALIDATION_BARRIER"

LatestAtEnd ==
  /\ pc \in {"decide", "finalize"} =>
       latest \in {"VALIDATING", "ASSAYING", "FINAL_VALIDATION_BARRIER", "MERGE_INTENT", "MERGED"}
  /\ pc = "decide" /\ ("violation" \notin facts \/ Committed) => latest = "MERGED"
  /\ pc = "finalize" /\ (verdict = "APPROVED" \/ Committed) => latest = "MERGED"
  /\ pc = "terminal" =>
       latest \in {"VALIDATING", "ASSAYING", "FINAL_VALIDATION_BARRIER", "MERGE_INTENT",
                  "MERGED", "LEDGER_FINALIZING"}
  /\ pc = "terminal" /\ (verdict = "APPROVED" \/ Committed) =>
       latest \in {"MERGED", "LEDGER_FINALIZING"}
  /\ pc \in {"update", "evidence", "settleQuota", "settleSpend", "feedback", "complete",
            "destroy"} => latest \in {verdict, "COMPLETE"}
  /\ pc \in {"update", "evidence", "settleQuota", "settleSpend", "feedback", "complete"} =>
       latest = verdict
  /\ pc \in {"pendingRow", "pendingStage"} =>
       latest \in {"MERGED", "LEDGER_FINALIZING", "APPROVED", "QUARANTINED"}

(* The steps at which a stage the run has queued may be replayed.          *)
Queueing == {"pendingRow", "pendingStage", "unwind"} \cup Ended

(* A queued stage is one that the finalisation could not record.           *)
StagesQueued ==
  \A s \in Stages : Op("stage", s) \in outbox =>
    pc \in Queueing /\ s \in {"LEDGER_FINALIZING", "APPROVED", "QUARANTINED"}

NothingDropped ==
  /\ pc \notin Queueing => InOrder
  /\ LatestBeforeMerge /\ LatestInMerge /\ LatestAtEnd
  /\ StagesQueued

(* Nothing was dropped and nothing refused.                                *)
Fits == NothingDropped /\ "refused" \notin slips

StageInv ==
  /\ "dropped" \notin slips => Fits
  /\ \A r \in Recoverers : rpc[r] # "idle" => pc \in Ended
  /\ rb # "idle" => pc \in Ended

(* The ranks of the stages.                                                *)
LEMMA Ranks ==
  /\ Rank[NoStage] = 0
  /\ Rank["PARSED"] = 1 /\ Rank["PREFLIGHTED"] = 2
  /\ Rank["ROUTED"] = 3 /\ Rank["QUOTA_RESERVED"] = 4
  /\ Rank["WORKSPACE_READY"] = 5 /\ Rank["AGENT_RUNNING"] = 6
  /\ Rank["OUTPUT_TRUNCATED"] = 7 /\ Rank["DESCENDANTS_TERMINATED"] = 8
  /\ Rank["AUDITED"] = 9 /\ Rank["VALIDATING"] = 10
  /\ Rank["ASSAYING"] = 11 /\ Rank["FINAL_VALIDATION_BARRIER"] = 12
  /\ Rank["MERGE_INTENT"] = 13 /\ Rank["MERGE_APPLIED"] = 14
  /\ Rank["ROOT_COMMITTED"] = 15 /\ Rank["MERGED"] = 16
  /\ Rank["LEDGER_FINALIZING"] = 17 /\ Rank["APPROVED"] = 18
  /\ Rank["QUARANTINED"] = 18 /\ Rank["COMPLETE"] = 19
  /\ Rank["ROLLED_BACK"] = 19 /\ Rank["MERGED_LEDGER_PENDING"] = 19
  /\ Rank["CLEANUP_PENDING"] = 19 /\ Rank["ABANDONED"] = 19
BY DEF Rank, Stages, NoStage

(* A step without a stage keeps the order.                                 *)
LEMMA OrderKept == InOrder /\ UNCHANGED <<reached, latest>> => InOrder'
BY DEF InOrder

(* A stage that comes later in the order becomes the latest one.           *)
LEMMA RecordNext ==
  ASSUME StageTypes, InOrder, NEW s \in Stages, Rank[latest] < Rank[s], Record(s)
  PROVE  latest' = s /\ InOrder' /\ slips' = slips
<1>1. s \notin reached
  <2> SUFFICES ASSUME s \in reached PROVE FALSE
    OBVIOUS
  <2>1. Rank[s] <= Rank[latest]
    BY DEF InOrder
  <2>2. Rank[s] \in Nat /\ Rank[latest] \in Nat
    BY Ranks DEF Stages, StageTypes
  <2> QED BY <2>1, <2>2
<1>2. latest' = s /\ reached' = reached \cup {s} /\ slips' = slips
  BY <1>1 DEF Record, LatestAfter
<1>3. InOrder'
  <2> SUFFICES ASSUME NEW x \in reached' PROVE Rank[x] <= Rank[s]
    BY <1>2 DEF InOrder
  <2>1. CASE x = s
    BY <2>1, Ranks DEF Stages
  <2>2. CASE x \in reached
    <3>1. Rank[x] <= Rank[latest] /\ x \in Stages
      BY <2>2 DEF InOrder, StageTypes
    <3>2. Rank[x] \in Nat /\ Rank[latest] \in Nat /\ Rank[s] \in Nat
      BY <3>1, Ranks DEF Stages, StageTypes
    <3> QED BY <3>1, <3>2
  <2> QED BY <1>2, <2>1, <2>2
<1> QED BY <1>2, <1>3

(* A refusal needs a stage that Validate refuses; any other failure leaves *)
(* the history as it is.                                                   *)
LEMMA RecordErrorNext ==
  ASSUME NEW s, NEW slip, RecordError(s, slip)
  PROVE  /\ UNCHANGED <<reached, latest>>
         /\ Validate(latest, s) => slips' = slips \cup slip
         /\ ~Validate(latest, s) => slips' = slips \cup {"refused"}
BY DEF RecordError

(* What Validate accepts along the run's own order.                        *)
LEMMA Edges ==
  /\ Validate(NoStage, "PARSED") /\ Validate("PARSED", "PREFLIGHTED")
  /\ Validate("PREFLIGHTED", "ROUTED") /\ Validate("ROUTED", "QUOTA_RESERVED")
  /\ Validate("QUOTA_RESERVED", "WORKSPACE_READY")
  /\ Validate("WORKSPACE_READY", "AGENT_RUNNING")
  /\ Validate("AGENT_RUNNING", "OUTPUT_TRUNCATED")
  /\ Validate("AGENT_RUNNING", "DESCENDANTS_TERMINATED")
  /\ Validate("OUTPUT_TRUNCATED", "DESCENDANTS_TERMINATED")
  /\ Validate("DESCENDANTS_TERMINATED", "AUDITED") /\ Validate("AUDITED", "VALIDATING")
  /\ Validate("VALIDATING", "ASSAYING")
  /\ Validate("VALIDATING", "FINAL_VALIDATION_BARRIER")
  /\ Validate("ASSAYING", "FINAL_VALIDATION_BARRIER")
  /\ Validate("FINAL_VALIDATION_BARRIER", "MERGE_INTENT")
  /\ Validate("FINAL_VALIDATION_BARRIER", "MERGED")
  /\ Validate("MERGE_INTENT", "MERGE_APPLIED") /\ Validate("MERGE_APPLIED", "ROOT_COMMITTED")
  /\ Validate("ROOT_COMMITTED", "MERGED") /\ Validate("MERGED", "LEDGER_FINALIZING")
  /\ Validate("MERGED", "APPROVED") /\ Validate("LEDGER_FINALIZING", "APPROVED")
  /\ \A s \in {"PREFLIGHTED", "ROUTED", "VALIDATING", "ASSAYING", "FINAL_VALIDATION_BARRIER",
               "MERGE_INTENT", "MERGED", "LEDGER_FINALIZING"} : Validate(s, "QUARANTINED")
  /\ \A s \in {"APPROVED", "QUARANTINED"} : Validate(s, "COMPLETE")
  /\ \A s \in {"MERGED", "LEDGER_FINALIZING", "APPROVED", "QUARANTINED"} :
       Validate(s, "MERGED_LEDGER_PENDING")
BY DEF Validate, Transitions, Stages, RecoveryTargets, TerminalStages, NoStage

(* No step of the run takes back a note of a failed stage write.         *)
LEMMA SlipsStay ==
  PlainTypes /\ StageTypes /\ RunStep =>
    slips \subseteq slips' /\ UNCHANGED <<rpc, rb>> /\ pc \notin Ended
<1> SUFFICES ASSUME PlainTypes, StageTypes, RunStep
             PROVE  slips \subseteq slips' /\ UNCHANGED <<rpc, rb>> /\ pc \notin Ended
  OBVIOUS
<1> USE DEF PlainTypes, StageTypes, Goto, Ended, Record, RecordError, stages, others
<1>1. CASE EarlyAction
  BY <1>1 DEF EarlyAction, ErrorReturn, Parsed, Preflighted, CheckBudget, Routed, PolicyGate,
      ReserveSpend, ReserveQuota, QuotaReserved, RefuseRow, RefuseStage, Prepare, InsertRun,
      WorkspaceReady, AgentRunning, ConsumeOneShots, Launch, Observe, Extinguish,
      ExtinctionProof, Audited, Validating, RunValidators, Assaying, FinalBarrier,
      Checkpoint, BestEffort
<1>2. CASE MergeAction
  BY <1>2 DEF MergeAction, MergeStart, MergeIntent, BuildAndCommit, SyncRoot, MergeApplied,
      RollbackLiveRoot, RootCommitted, CopyStart, CopyEnd, RestoreRecall, Merged,
      MergeFails, Checkpoint, BestEffort
<1>3. CASE LateAction
  BY <1>3 DEF LateAction, Decide, LedgerFinalizing, TerminalStage, UpdateRun,
      RecordEvidence, SettleQuota, SettleSpend, Feedback, Complete, DestroyAtEnd,
      LedgerPendingRow, LedgerPendingStage, UnwindWorkspace, UnwindReservation, Return,
      Settle, FinalizationFails, BestEffort
<1> QED BY <1>1, <1>2, <1>3 DEF RunStep, EarlyAction, MergeAction, LateAction

(* The stages of a run from the contract to the barrier.                   *)
LEMMA EarlyKeepsStages ==
  ASSUME PlainTypes, StageTypes, Fits, "dropped" \notin slips', EarlyAction
  PROVE  Fits'
<1> USE OrderKept, RecordNext, RecordErrorNext, EnqueueAdds, OpKinds, Ranks, Edges
<1> USE DEF Fits, NothingDropped, LatestBeforeMerge, LatestInMerge, LatestAtEnd,
    StagesQueued, Queueing, Committed, Ended, PlainTypes, Stages, Goto, stages, space,
    queue, others
<1>1. CASE ErrorReturn
  BY <1>1 DEF ErrorReturn
<1>2. CASE Parsed
  BY <1>2 DEF Parsed, Checkpoint
<1>3. CASE Preflighted
  BY <1>3 DEF Preflighted, Checkpoint
<1>4. CASE CheckBudget
  BY <1>4 DEF CheckBudget
<1>5. CASE Routed
  BY <1>5 DEF Routed, Checkpoint
<1>6. CASE PolicyGate
  BY <1>6 DEF PolicyGate
<1>7. CASE ReserveSpend
  BY <1>7 DEF ReserveSpend
<1>8. CASE ReserveQuota
  BY <1>8 DEF ReserveQuota
<1>9. CASE QuotaReserved
  BY <1>9 DEF QuotaReserved
<1>10. CASE RefuseRow
  BY <1>10 DEF RefuseRow
<1>11. CASE RefuseStage
  BY <1>11 DEF RefuseStage, Checkpoint
<1>12. CASE Prepare
  BY <1>12 DEF Prepare
<1>13. CASE InsertRun
  BY <1>13 DEF InsertRun
<1>14. CASE WorkspaceReady
  BY <1>14 DEF WorkspaceReady, Checkpoint
<1>15. CASE AgentRunning
  BY <1>15 DEF AgentRunning, Checkpoint
<1>16. CASE ConsumeOneShots
  BY <1>16 DEF ConsumeOneShots
<1>17. CASE Launch
  BY <1>17 DEF Launch
<1>18. CASE Observe
  BY <1>18 DEF Observe, BestEffort
<1>19. CASE Extinguish
  BY <1>19 DEF Extinguish, Checkpoint
<1>20. CASE ExtinctionProof
  BY <1>20 DEF ExtinctionProof
<1>21. CASE Audited
  BY <1>21 DEF Audited, Checkpoint
<1>22. CASE Validating
  BY <1>22 DEF Validating
<1>23. CASE RunValidators
  BY <1>23 DEF RunValidators
<1>24. CASE Assaying
  BY <1>24 DEF Assaying
<1>25. CASE FinalBarrier
  BY <1>25 DEF FinalBarrier
<1> QED BY <1>1, <1>2, <1>3, <1>4, <1>5, <1>6, <1>7, <1>8, <1>9, <1>10, <1>11, <1>12,
           <1>13, <1>14, <1>15, <1>16, <1>17, <1>18, <1>19, <1>20, <1>21, <1>22, <1>23, <1>24,
           <1>25 DEF EarlyAction

(* The stages of a merge, of a git root and of any other.                  *)
LEMMA MergeKeepsStages ==
  ASSUME PlainTypes, StageTypes, SafetyInv, Fits, "dropped" \notin slips', MergeAction
  PROVE  Fits'
<1> USE OrderKept, RecordNext, RecordErrorNext, EnqueueAdds, OpKinds, Ranks, Edges
<1> USE DEF Fits, NothingDropped, LatestBeforeMerge, LatestInMerge, LatestAtEnd,
    StagesQueued, Queueing, Committed, Ended, PlainTypes, Stages, Goto, SafetyInv, StepFacts, Cleared, Merging, Late,
    VerdictInv, stages, space,
    queue, others
<1>1. CASE MergeStart
  BY <1>1 DEF MergeStart, MergeFails
<1>2. CASE MergeIntent
  BY <1>2 DEF MergeIntent, MergeFails
<1>3. CASE BuildAndCommit
  BY <1>3 DEF BuildAndCommit, MergeFails
<1>4. CASE SyncRoot
  BY <1>4 DEF SyncRoot, MergeFails
<1>5. CASE MergeApplied
  BY <1>5 DEF MergeApplied, MergeFails
<1>6. CASE RollbackLiveRoot
  BY <1>6 DEF RollbackLiveRoot
<1>7. CASE RootCommitted
  BY <1>7 DEF RootCommitted, BestEffort
<1>8. CASE CopyStart
  BY <1>8 DEF CopyStart
<1>9. CASE CopyEnd
  BY <1>9 DEF CopyEnd, MergeFails
<1>10. CASE RestoreRecall
  BY <1>10 DEF RestoreRecall
<1>11. CASE Merged
  BY <1>11 DEF Merged, BestEffort, Checkpoint
<1> QED BY <1>1, <1>2, <1>3, <1>4, <1>5, <1>6, <1>7, <1>8, <1>9, <1>10, <1>11 DEF MergeAction

(* The stages of the finalisation and of ledgerPending.                    *)
LEMMA LateKeepsStages ==
  ASSUME PlainTypes, StageTypes, SafetyInv, Fits, "dropped" \notin slips', LateAction
  PROVE  Fits'
<1> USE OrderKept, RecordNext, RecordErrorNext, EnqueueAdds, OpKinds, Ranks, Edges
<1> USE DEF Fits, NothingDropped, LatestBeforeMerge, LatestInMerge, LatestAtEnd,
    StagesQueued, Queueing, Committed, Ended, PlainTypes, Stages, Goto, SafetyInv, StepFacts, Cleared, Merging, Late,
    VerdictInv, stages, space,
    queue, others
<1>1. CASE Decide
  BY <1>1 DEF Decide
<1>2. CASE LedgerFinalizing
  BY <1>2 DEF LedgerFinalizing, FinalizationFails
<1>3. CASE TerminalStage
  BY <1>3 DEF TerminalStage, FinalizationFails
<1>4. CASE UpdateRun
  BY <1>4 DEF UpdateRun, FinalizationFails
<1>5. CASE RecordEvidence
  BY <1>5 DEF RecordEvidence, FinalizationFails
<1>6. CASE SettleQuota
  BY <1>6 DEF SettleQuota, Settle, FinalizationFails
<1>7. CASE SettleSpend
  BY <1>7 DEF SettleSpend, Settle, FinalizationFails
<1>8. CASE Feedback
  BY <1>8 DEF Feedback
<1>9. CASE Complete
  BY <1>9 DEF Complete, BestEffort
<1>10. CASE DestroyAtEnd
  BY <1>10 DEF DestroyAtEnd, DestroyWorkspace, Destroyed
<1>11. CASE LedgerPendingRow
  BY <1>11 DEF LedgerPendingRow
<1>12. CASE LedgerPendingStage
  BY <1>12 DEF LedgerPendingStage, Record
<1>13. CASE UnwindWorkspace
  BY <1>13 DEF UnwindWorkspace, DestroyWorkspace, Destroyed
<1>14. CASE Return
  BY <1>14 DEF Return
<1>15. ASSUME NEW k \in Reservations, UnwindReservation(k) PROVE Fits'
  BY <1>15 DEF UnwindReservation
<1> QED BY <1>1, <1>2, <1>3, <1>4, <1>5, <1>6, <1>7, <1>8, <1>9, <1>10, <1>11, <1>12,
           <1>13, <1>14, <1>15 DEF LateAction

(* Recovery and rollback come after the run; a replay records a stage  *)
(* only after ledgerPending began, where nothing fails any more.           *)
LEMMA OthersKeepStages ==
  ASSUME PlainTypes, StageTypes, OtherTypes, StageInv,
         \/ Crash
         \/ \E r \in Recoverers : Recover(r) \/ Abandon(r) \/ RecoverFails(r)
         \/ \E op \in outbox : Replay(op)
         \/ Rollback
  PROVE  StageInv'
<1> USE OrderKept, EnqueueAdds, OpKinds
<1> USE DEF StageInv, Fits, NothingDropped, LatestBeforeMerge, LatestInMerge, LatestAtEnd,
    StagesQueued, Queueing, Committed, Ended, PlainTypes, OtherTypes, process, stages,
    space, queue, others
<1>1. CASE Crash
  BY <1>1 DEF Crash
<1>2. ASSUME NEW r \in Recoverers, Recover(r) \/ Abandon(r) \/ RecoverFails(r)
      PROVE  StageInv'
  <2>1. CASE \E forced \in BOOLEAN : RecoverBegin(r, forced)
    BY <2>1 DEF RecoverBegin
  <2>2. CASE RecoverRelease(r)
    BY <2>2 DEF RecoverRelease
  <2>3. CASE RecoverDestroy(r)
    BY <2>3 DEF RecoverDestroy, Destroyed
  <2>4. CASE RecoverUpdate(r)
    BY <2>4 DEF RecoverUpdate
  <2>5. CASE RecoverRecord(r)
    BY <2>5 DEF RecoverRecord
  <2>6. CASE RecoverFails(r)
    BY <2>6 DEF RecoverFails
  <2> QED BY <1>2, <2>1, <2>2, <2>3, <2>4, <2>5, <2>6 DEF Recover, Abandon
<1>3. ASSUME NEW op \in outbox, Replay(op)
      PROVE  StageInv'
  <2>1. op \in Ops /\ op = Op(op.kind, op.arg)
    BY OpShape
  <2>2. CASE op.kind = "stage"
    <3>1. op.arg \in Stages
      BY <2>1, <2>2 DEF Ops
    <3>2. latest' \in {latest, op.arg} /\ pc' = pc /\ outbox' \subseteq outbox
      BY <1>3, <2>2 DEF Replay, LatestAfter
    <3>3. UNCHANGED <<slips, rpc, rb, facts, verdict>>
      BY <1>3 DEF Replay
    <3> QED BY <2>1, <2>2, <3>1, <3>2, <3>3
  <2>3. CASE op.kind # "stage"
    <3>1. UNCHANGED <<reached, latest, slips, rpc, rb, facts, verdict, pc>>
          /\ outbox' \subseteq outbox
      BY <1>3, <2>1, <2>3 DEF Replay, Ops
    <3> QED BY <3>1
  <2> QED BY <2>2, <2>3
<1>4. CASE Rollback
  BY <1>4 DEF Rollback, RollbackRevert, RollbackUpdate, RollbackRecord,
      RollbackFails
<1> QED BY <1>1, <1>2, <1>3, <1>4

-----------------------------------------------------------------------------
(* The three invariants hold in every state.                               *)

(* What holds beside PipelineInv.                                          *)
RunInv == LeakInv /\ EvidenceInv /\ StageInv

(* At its start a run holds, has preserved and has recorded nothing.       *)
LEMMA InitOfRun == Init => RunInv
<1> SUFFICES ASSUME Init PROVE RunInv
  OBVIOUS
<1>1. LeakInv
  BY DEF Init, LeakInv, SpendIsDue, QuotaIsDue, ShotIsDue, WorktreeIsDue, Ended, UpToQuota,
      Reservations
<1>2. EvidenceInv
  BY DEF Init, EvidenceInv, PreservedFacts, QueuedFacts, RecoveryFacts, SettledFacts,
      BranchFacts, EvidenceStays, Committed, Late, Ended, AfterSettled,
      Reservations
<1>3. StageInv
  BY DEF Init, StageInv, Fits, NothingDropped, InOrder, LatestBeforeMerge, LatestInMerge,
      LatestAtEnd, StagesQueued, Queueing, Committed, Ended
<1> QED BY <1>1, <1>2, <1>3 DEF RunInv

(* A step of the run keeps what holds of its stages.                       *)
LEMMA RunKeepsStages ==
  ASSUME PlainTypes, StageTypes, SafetyInv, StageInv, RunStep
  PROVE  StageInv'
<1>1. slips \subseteq slips' /\ UNCHANGED <<rpc, rb>> /\ pc \notin Ended
  BY SlipsStay
<1>2. ASSUME "dropped" \notin slips' PROVE Fits'
  <2>1. Fits
    BY <1>1, <1>2 DEF StageInv
  <2> QED BY <1>2, <2>1, EarlyKeepsStages, MergeKeepsStages, LateKeepsStages
          DEF RunStep, EarlyAction, MergeAction, LateAction
<1> QED BY <1>1, <1>2 DEF StageInv

(* Every step keeps the three.                                             *)
LEMMA NextOfRun == PipelineInv /\ RunInv /\ [Next]_vars => RunInv'
<1> SUFFICES ASSUME PipelineInv, RunInv, [Next]_vars PROVE RunInv'
  OBVIOUS
<1>1. PlainTypes /\ StageTypes /\ WorldTypes /\ OtherTypes /\ SafetyInv
  BY TypePartsIsTypeOK DEF PipelineInv, TypeParts, PlainTypes, ProcessTypes, QueueTypes,
      OtherTypes
<1>2. LeakInv /\ EvidenceInv /\ StageInv
  BY DEF RunInv
<1>3. CASE RunStep
  <2>1. LeakInv'
    BY <1>1, <1>2, <1>3, OthersAreQuiet, QuietKeepsDue, TakesKeepsDue
  <2>2. UNCHANGED config
    BY <1>3, ConfigKept DEF Next
  <2>3. EvidenceInv'
    BY <1>1, <1>2, <1>3, <2>2, EarlyKeepsEvidence, MergeKeepsEvidence, LateKeepsEvidence
       DEF RunStep, EarlyAction, MergeAction, LateAction
  <2>4. StageInv'
    BY <1>1, <1>2, <1>3, RunKeepsStages
  <2> QED BY <2>1, <2>3, <2>4 DEF RunInv
<1>4. CASE Next /\ ~RunStep
  <2>1. UNCHANGED config
    BY <1>4, ConfigKept
  <2>2. LeakInv' /\ EvidenceInv' /\ StageInv'
    BY <1>1, <1>2, <1>4, <2>1, OthersKeepDue, OthersKeepEvidence, OthersKeepStages DEF Next
  <2> QED BY <2>2 DEF RunInv
<1>5. CASE UNCHANGED vars
  <2> USE DEF vars, process, stages, space, queue, others
  <2>1. LeakInv'
    BY <1>2, <1>5 DEF LeakInv, SpendIsDue, QuotaIsDue, ShotIsDue, WorktreeIsDue, HandedOver
  <2>2. EvidenceInv'
    BY <1>2, <1>5 DEF EvidenceInv, PreservedFacts, QueuedFacts, RecoveryFacts, SettledFacts,
        BranchFacts, EvidenceStays, Committed, Darwin
  <2>3. StageInv'
    BY <1>2, <1>5 DEF StageInv, Fits, NothingDropped, InOrder, LatestBeforeMerge,
        LatestInMerge, LatestAtEnd, StagesQueued, Committed
  <2> QED BY <2>1, <2>2, <2>3 DEF RunInv
<1> QED BY <1>3, <1>4, <1>5

(* RunInv is an invariant of the run, beside PipelineInv.                  *)
THEOREM RunInvariance == Spec => []RunInv
BY InitOfRun, NextOfRun, PipelineInvariance, PTL DEF Spec

(***************************************************************************)
(* A run that has returned holds no reservation and no worktree that was   *)
(* not handed to the outbox, but for the two windows the property names.   *)
(***************************************************************************)
THEOREM NothingLeaks == Spec => []NoLeakOnReturn
<1>1. RunInv => NoLeakOnReturn
  BY DEF RunInv, LeakInv, SpendIsDue, QuotaIsDue, ShotIsDue, WorktreeIsDue, NoLeakOnReturn,
      Ended
<1> QED BY <1>1, RunInvariance, PTL

(***************************************************************************)
(* Once a quarantined run has settled its spend, its evidence branch       *)
(* outlives its own teardown, recovery and the replay of the outbox.       *)
(***************************************************************************)
THEOREM EvidenceIsKept == Spec => []EvidenceStays
<1>1. RunInv => EvidenceStays
  BY DEF RunInv, EvidenceInv, BranchFacts
<1> QED BY <1>1, RunInvariance, PTL

(***************************************************************************)
(* Every call site that records a stage records one the transition table   *)
(* accepts there, as long as no best-effort stage write of the run was     *)
(* dropped.                                                                *)
(***************************************************************************)
THEOREM TableFitsTheRun == Spec => []RefusedOnlyAfterDrop
<1>1. RunInv => RefusedOnlyAfterDrop
  BY DEF RunInv, StageInv, Fits, RefusedOnlyAfterDrop
<1> QED BY <1>1, RunInvariance, PTL

----------------------------------------------------------------------------
(* The refinement                                                          *)

(* RunPipeline implements RunOutcome on every build but darwin.  Beyond    *)
(* what the process has established, the simulation needs who may write    *)
(* the row when (RowTurns, QueuedTurns), that nobody recovers a living     *)
(* run, and that what happened to the root can be told from the facts      *)
(* (RootTurns).                                                            *)

(* The steps before the run's row is inserted.                             *)
BeforeRow == {"parse", "preflight", "budget", "route", "gate", "refuseRow",
              "spend", "quota", "quotaStage", "prepare", "insert"}

(* The steps at which it says RUNNING.                                     *)
RowOpen == {"ready", "agent", "consume", "launch", "observe", "extinguish",
            "proof", "audit", "checks", "validate", "assay", "barrier", "merge",
            "intent", "build", "sync", "applied", "rollback", "rootCommitted",
            "copy", "copied", "restore", "merged", "decide", "finalize",
            "terminal", "update"}

(* Where a run may be whose failed update of the row was queued.           *)
AfterUpdate == {"pendingRow", "pendingStage", "unwind"} \cup Ended

RowTurns ==
  /\ pc \in BeforeRow => row = "absent"
  /\ pc \in RowOpen => row = "RUNNING"
  /\ \A r \in Recoverers : rpc[r] # "idle" => pc \in Ended
  /\ rb # "idle" => root = "reverted"

QueuedTurns ==
  /\ Op("stage", "FINAL_VALIDATION_BARRIER") \notin outbox
  /\ Op("runUpdate", "QUARANTINED") \in outbox =>
       verdict = "QUARANTINED" /\ pc \in AfterUpdate
  /\ Op("runUpdate", "APPROVED") \in outbox =>
       pc \in AfterUpdate /\ row # "APPROVED" /\ root # "reverted"

RootTurns ==
  /\ "rollbackFailed" \in facts =>
       "violation" \in facts /\ pc \in {"decide", "unwind"} \cup Late \cup Ended
  /\ "rootCommitted" \in facts => root \in {"merged", "reverted"} /\ "violation" \notin facts
  /\ pc \in {"sync", "copied"} => root = "partial"
  /\ pc = "pendingRow" => "rootCommitted" \in facts
  /\ verdict = "QUARANTINED" => "violation" \in facts

SeenInv == ~Darwin /\ RowTurns /\ QueuedTurns /\ RootTurns

-----------------------------------------------------------------------------
(* The invariant                                                           *)

(* Nothing is queued, committed or recovered before the merge.             *)
LEMMA EarlySeen ==
  ASSUME PlainTypes, SafetyInv, SeenInv, UNCHANGED config, EarlyAction
  PROVE  SeenInv'
<1> USE EnqueueAdds, OpKinds
<1> USE DEF SeenInv, RowTurns, QueuedTurns, RootTurns, Darwin, BeforeRow, RowOpen,
    AfterUpdate, Late, Ended, SafetyInv, StepFacts, StepRoot, VerdictInv, Cleared,
    BeforeMerge, Merging, process, stages, space, queue, others, Goto
<1>1. CASE ErrorReturn
  BY <1>1 DEF ErrorReturn
<1>2. CASE Parsed
  BY <1>2 DEF Parsed, Checkpoint
<1>3. CASE Preflighted
  BY <1>3 DEF Preflighted, Checkpoint
<1>4. CASE CheckBudget
  BY <1>4 DEF CheckBudget
<1>5. CASE Routed
  BY <1>5 DEF Routed, Checkpoint
<1>6. CASE PolicyGate
  BY <1>6 DEF PolicyGate
<1>7. CASE ReserveSpend
  BY <1>7 DEF ReserveSpend
<1>8. CASE ReserveQuota
  BY <1>8 DEF ReserveQuota
<1>9. CASE QuotaReserved
  BY <1>9 DEF QuotaReserved
<1>10. CASE RefuseRow
  BY <1>10 DEF RefuseRow
<1>11. CASE RefuseStage
  BY <1>11 DEF RefuseStage, Checkpoint
<1>12. CASE Prepare
  BY <1>12 DEF Prepare
<1>13. CASE InsertRun
  BY <1>13 DEF InsertRun
<1>14. CASE WorkspaceReady
  BY <1>14 DEF WorkspaceReady, Checkpoint
<1>15. CASE AgentRunning
  BY <1>15 DEF AgentRunning, Checkpoint
<1>16. CASE ConsumeOneShots
  BY <1>16 DEF ConsumeOneShots
<1>17. CASE Launch
  BY <1>17 DEF Launch
<1>18. CASE Observe
  BY <1>18 DEF Observe, BestEffort
<1>19. CASE Extinguish
  BY <1>19 DEF Extinguish, Checkpoint
<1>20. CASE ExtinctionProof
  BY <1>20 DEF ExtinctionProof
<1>21. CASE Audited
  BY <1>21 DEF Audited, Checkpoint
<1>22. CASE Validating
  BY <1>22 DEF Validating
<1>23. CASE RunValidators
  BY <1>23 DEF RunValidators
<1>24. CASE Assaying
  BY <1>24 DEF Assaying
<1>25. CASE FinalBarrier
  BY <1>25 DEF FinalBarrier
<1> QED BY <1>1, <1>2, <1>3, <1>4, <1>5, <1>6, <1>7, <1>8, <1>9, <1>10, <1>11,
    <1>12, <1>13, <1>14, <1>15, <1>16, <1>17, <1>18, <1>19, <1>20, <1>21, <1>22,
    <1>23, <1>24, <1>25
       DEF EarlyAction

(* The merge moves the root and the facts together.                        *)
LEMMA MergeSeen ==
  ASSUME PlainTypes, SafetyInv, SeenInv, UNCHANGED config, MergeAction
  PROVE  SeenInv'
<1> USE EnqueueAdds, OpKinds
<1> USE DEF SeenInv, RowTurns, QueuedTurns, RootTurns, Darwin, BeforeRow, RowOpen,
    AfterUpdate, Late, Ended, SafetyInv, StepFacts, StepRoot, VerdictInv, Cleared,
    BeforeMerge, Merging, process, stages, space, queue, others, Goto
<1>1. CASE MergeStart
  BY <1>1 DEF MergeStart, MergeFails
<1>2. CASE MergeIntent
  BY <1>2 DEF MergeIntent, MergeFails
<1>3. CASE BuildAndCommit
  BY <1>3 DEF BuildAndCommit, MergeFails
<1>4. CASE SyncRoot
  BY <1>4 DEF SyncRoot, MergeFails
<1>5. CASE MergeApplied
  BY <1>5 DEF MergeApplied, MergeFails
<1>6. CASE RollbackLiveRoot
  BY <1>6 DEF RollbackLiveRoot
<1>7. CASE RootCommitted
  BY <1>7 DEF RootCommitted, BestEffort
<1>8. CASE CopyStart
  BY <1>8 DEF CopyStart
<1>9. CASE CopyEnd
  BY <1>9 DEF CopyEnd, MergeFails
<1>10. CASE RestoreRecall
  BY <1>10 DEF RestoreRecall
<1>11. CASE Merged
  BY <1>11 DEF Merged, BestEffort, Checkpoint
<1> QED BY <1>1, <1>2, <1>3, <1>4, <1>5, <1>6, <1>7, <1>8, <1>9, <1>10, <1>11
       DEF MergeAction

(* A row update is queued by the step that failed to write it, and by no   *)
(* other.                                                                  *)
LEMMA LateSeen ==
  ASSUME PlainTypes, SafetyInv, SeenInv, UNCHANGED config, LateAction
  PROVE  SeenInv'
<1> USE EnqueueAdds, OpKinds
<1> USE DEF SeenInv, RowTurns, QueuedTurns, RootTurns, Darwin, BeforeRow, RowOpen,
    AfterUpdate, Late, Ended, SafetyInv, StepFacts, StepRoot, VerdictInv, RowInv, Cleared,
    PlainTypes, Merging, process, stages, space, queue, others, Goto
<1>1. CASE Decide
  BY <1>1 DEF Decide
<1>2. CASE LedgerFinalizing
  BY <1>2 DEF LedgerFinalizing, FinalizationFails
<1>3. CASE TerminalStage
  BY <1>3 DEF TerminalStage, FinalizationFails
<1>4. CASE UpdateRun
  BY <1>4 DEF UpdateRun, FinalizationFails
<1>5. CASE RecordEvidence
  BY <1>5 DEF RecordEvidence, FinalizationFails
<1>6. CASE SettleQuota
  BY <1>6 DEF SettleQuota, Settle, FinalizationFails
<1>7. CASE SettleSpend
  BY <1>7 DEF SettleSpend, Settle, FinalizationFails
<1>8. CASE Feedback
  BY <1>8 DEF Feedback
<1>9. CASE Complete
  BY <1>9 DEF Complete, BestEffort
<1>10. CASE DestroyAtEnd
  BY <1>10 DEF DestroyAtEnd, DestroyWorkspace, Destroyed
<1>11. CASE LedgerPendingRow
  BY <1>11 DEF LedgerPendingRow
<1>12. CASE LedgerPendingStage
  BY <1>12 DEF LedgerPendingStage
<1>13. CASE UnwindWorkspace
  BY <1>13 DEF UnwindWorkspace, DestroyWorkspace, Destroyed
<1>14. CASE Return
  BY <1>14 DEF Return
<1>15. CASE \E k \in Reservations : UnwindReservation(k)
  BY <1>15 DEF UnwindReservation, Reservations
<1> QED BY <1>1, <1>2, <1>3, <1>4, <1>5, <1>6, <1>7, <1>8, <1>9, <1>10, <1>11,
    <1>12, <1>13, <1>14, <1>15
       DEF LateAction

(* Nobody but the living run inserts its row, and a replay takes the       *)
(* operation it replayed off the queue.                                    *)
LEMMA OtherSeen ==
  ASSUME PlainTypes, SafetyInv, SeenInv, UNCHANGED config,
         \/ Crash
         \/ \E r \in Recoverers : Recover(r) \/ Abandon(r) \/ RecoverFails(r)
         \/ \E op \in outbox : Replay(op)
         \/ Rollback
  PROVE  SeenInv'
<1> USE EnqueueAdds, OpKinds
<1> USE DEF SeenInv, RowTurns, QueuedTurns, RootTurns, Darwin, BeforeRow, RowOpen,
    AfterUpdate, Late, Ended, SafetyInv, StepFacts, StepRoot, VerdictInv, RowInv, Cleared,
    PlainTypes, process, stages, space, queue, others
<1>1. CASE Crash
  BY <1>1 DEF Crash
<1>2. ASSUME NEW r \in Recoverers, Recover(r) \/ Abandon(r) \/ RecoverFails(r)
      PROVE  SeenInv'
  <2>1. CASE \E forced \in BOOLEAN : RecoverBegin(r, forced)
    BY <2>1 DEF RecoverBegin
  <2>2. CASE RecoverRelease(r)
    BY <2>2 DEF RecoverRelease
  <2>3. CASE RecoverDestroy(r)
    BY <2>3 DEF RecoverDestroy, Destroyed
  <2>4. CASE RecoverUpdate(r)
    BY <2>4 DEF RecoverUpdate
  <2>5. CASE RecoverRecord(r)
    BY <2>5 DEF RecoverRecord
  <2>6. CASE RecoverFails(r)
    BY <2>6 DEF RecoverFails
  <2> QED BY <1>2, <2>1, <2>2, <2>3, <2>4, <2>5, <2>6 DEF Recover, Abandon
<1>3. ASSUME NEW op \in outbox, Replay(op)
      PROVE  SeenInv'
  <2>1. CASE op.kind = "runUpdate"
    <3>1. op = Op("runUpdate", op.arg) /\ op.arg \in {"APPROVED", "QUARANTINED"}
      BY <2>1, <1>3, OpShape DEF PlainTypes, Ops
    <3>2. /\ row' = op.arg /\ outbox' = outbox \ {op}
          /\ UNCHANGED <<pc, facts, verdict, reached, root, rpc, rb>>
      BY <1>3, <2>1 DEF Replay
    <3> QED BY <1>3, <3>1, <3>2
  <2>2. CASE op.kind # "runUpdate"
    <3>1. /\ outbox' \subseteq outbox
          /\ UNCHANGED <<pc, facts, verdict, row, root, rpc, rb>>
      BY <1>3, <2>2 DEF Replay
    <3> QED BY <3>1
  <2> QED BY <2>1, <2>2
<1>4. CASE Rollback
  BY <1>4 DEF Rollback, RollbackRevert, RollbackUpdate, RollbackRecord,
      RollbackFails
<1> QED BY <1>1, <1>2, <1>3, <1>4

(* A run that starts has no row, no queue and an untouched root.           *)
LEMMA InitSeen ==
  ASSUME \A c \in Configs : "darwin" \notin c, Init
  PROVE  SeenInv
BY DEF Init, SeenInv, RowTurns, QueuedTurns, RootTurns, Darwin, BeforeRow, RowOpen, Ended

(* Every step keeps what the simulation rests on.                          *)
LEMMA SeenKept ==
  ASSUME PipelineInv, SeenInv, [Next]_vars
  PROVE  SeenInv'
<1>1. PlainTypes /\ SafetyInv
  BY DEF PipelineInv, PlainTypes, TypeOK
<1>2. CASE Next
  BY <1>1, <1>2, ConfigKept, EarlySeen, MergeSeen, LateSeen, OtherSeen
     DEF Next, RunStep, EarlyAction, MergeAction, LateAction
<1>3. CASE UNCHANGED vars
  BY <1>3 DEF vars, process, stages, space, queue, others, SeenInv, RowTurns,
     QueuedTurns, RootTurns, Darwin
<1> QED BY <1>2, <1>3

-----------------------------------------------------------------------------
(* The simulation                                                          *)

(* What the mapping reads is what it was.                                  *)
SameView ==
  /\ pc' \in Ended <=> pc \in Ended
  /\ UNCHANGED <<root, verdict, row>>
  /\ "extinct" \in facts' <=> "extinct" \in facts
  /\ "rollbackFailed" \in facts' <=> "rollbackFailed" \in facts
  /\ "rootCommitted" \in facts' <=> "rootCommitted" \in facts
  /\ "FINAL_VALIDATION_BARRIER" \in reached' <=> "FINAL_VALIDATION_BARRIER" \in reached

(* An operator then sees nothing happen.                                   *)
LEMMA ViewStutters ==
  ASSUME SameView
  PROVE  UNCHANGED Outcome!outcome
<1>1. UNCHANGED aliveNow
  BY DEF SameView, aliveNow
<1>2. UNCHANGED proofNow
  BY DEF SameView, proofNow
<1>3. UNCHANGED placeNow
  BY DEF SameView, placeNow
<1>4. UNCHANGED decisionNow
  BY DEF SameView, decisionNow
<1>5. UNCHANGED ledgerNow
  BY DEF SameView, ledgerNow
<1> QED BY <1>1, <1>2, <1>3, <1>4, <1>5 DEF Outcome!outcome

(* lifecycle.Record of another stage is not the barrier.                   *)
LEMMA OtherStage ==
  ASSUME NEW s, s # "FINAL_VALIDATION_BARRIER", Record(s)
  PROVE  "FINAL_VALIDATION_BARRIER" \in reached' <=> "FINAL_VALIDATION_BARRIER" \in reached
BY DEF Record

(* Up to the barrier an operator sees the row appear, or the run refused,  *)
(* and the proof of the run completed.                                     *)
LEMMA EarlySim ==
  ASSUME PlainTypes, SafetyInv, SeenInv, EarlyAction
  PROVE  Outcome!OutcomeNext \/ UNCHANGED Outcome!outcome
<1> USE OtherStage, RecordErrorKeeps, ViewStutters
<1> USE DEF SameView, Ended, Goto, stages, space, queue, others
<1>1. CASE ErrorReturn
  BY <1>1 DEF ErrorReturn
<1>2. CASE Parsed \/ Preflighted \/ Routed
  BY <1>2 DEF Parsed, Preflighted, Routed, Checkpoint
<1>3. CASE CheckBudget \/ PolicyGate \/ ReserveSpend \/ ReserveQuota \/ Prepare
  BY <1>3 DEF CheckBudget, PolicyGate, ReserveSpend, ReserveQuota, Prepare
<1>4. CASE QuotaReserved \/ RefuseStage
  BY <1>4 DEF QuotaReserved, RefuseStage, Checkpoint
<1>5. CASE RefuseRow
  <2>1. CASE row' = row
    BY <1>5, <2>1 DEF RefuseRow
  <2>2. CASE row' = "QUARANTINED"
    <3>1. root = "base" /\ UNCHANGED <<root, verdict, facts, reached>>
          /\ pc \notin Ended /\ pc' \notin Ended
      BY <1>5, <2>2 DEF RefuseRow, SafetyInv, StepRoot, BeforeMerge
    <3>2. UNCHANGED <<aliveNow, proofNow, placeNow, decisionNow>>
      BY <3>1 DEF aliveNow, proofNow, placeNow, decisionNow
    <3>3. placeNow = "untouched" /\ ledgerNow' = "closed"
      BY <3>1, <2>2 DEF placeNow, ledgerNow
    <3> QED BY <3>2, <3>3 DEF Outcome!OutcomeNext, Outcome!Close, Outcome!Write
  <2> QED BY <1>5, <2>1, <2>2 DEF RefuseRow
<1>6. CASE InsertRun
  <2>1. CASE row' = row
    BY <1>6, <2>1 DEF InsertRun
  <2>2. CASE row' = "RUNNING"
    <3>1. row = "absent" /\ verdict = "none" /\ UNCHANGED <<root, verdict, facts, reached>>
          /\ pc \notin Ended /\ pc' \notin Ended
      BY <1>6, <2>2 DEF InsertRun, SafetyInv, VerdictInv, Late, SeenInv, RowTurns,
          BeforeRow
    <3>2. UNCHANGED <<aliveNow, proofNow, placeNow, decisionNow>>
      BY <3>1 DEF aliveNow, proofNow, placeNow, decisionNow
    <3>3. /\ aliveNow = "yes" /\ decisionNow = "none"
          /\ ledgerNow = "none" /\ ledgerNow' = "open"
      BY <3>1, <2>2 DEF aliveNow, decisionNow, ledgerNow
    <3> QED BY <3>2, <3>3 DEF Outcome!OutcomeNext, Outcome!Open, Outcome!Write
  <2> QED BY <1>6, <2>1, <2>2 DEF InsertRun
<1>7. CASE WorkspaceReady \/ AgentRunning \/ Extinguish \/ Audited
  BY <1>7 DEF WorkspaceReady, AgentRunning, Extinguish, Audited, Checkpoint
<1>8. CASE ConsumeOneShots \/ Launch
  BY <1>8 DEF ConsumeOneShots, Launch
<1>9. CASE Observe
  BY <1>9 DEF Observe, BestEffort
<1>10. CASE Validating
  BY <1>10 DEF Validating
<1>11. CASE RunValidators
  BY <1>11 DEF RunValidators
<1>12. CASE Assaying
  BY <1>12 DEF Assaying
<1>13. CASE ExtinctionProof \/ FinalBarrier
  <2>1. /\ pc \in {"proof", "barrier"} /\ pc' \notin Ended
        /\ UNCHANGED <<root, verdict, row>>
        /\ facts \subseteq facts' /\ reached \subseteq reached'
        /\ "rollbackFailed" \in facts' <=> "rollbackFailed" \in facts
        /\ "rootCommitted" \in facts' <=> "rootCommitted" \in facts
    BY <1>13, RecordAdds DEF ExtinctionProof, FinalBarrier
  <2>2. root = "base" /\ row = "RUNNING" /\ verdict = "none" /\ pc \notin Ended
    BY <2>1 DEF SafetyInv, StepRoot, BeforeMerge, VerdictInv, Late, SeenInv,
        RowTurns, RowOpen
  <2>3. UNCHANGED <<aliveNow, placeNow, decisionNow, ledgerNow>>
    BY <2>1, <2>2 DEF aliveNow, placeNow, decisionNow, ledgerNow
  <2>4. /\ aliveNow = "yes" /\ placeNow = "untouched" /\ decisionNow = "none"
        /\ ledgerNow = "open"
    BY <2>2 DEF aliveNow, placeNow, decisionNow, ledgerNow
  <2>5. CASE proofNow = "no" /\ proofNow' = "yes"
    BY <2>3, <2>4, <2>5 DEF Outcome!OutcomeNext, Outcome!Prove
  <2>6. CASE proofNow' = proofNow
    BY <2>3, <2>6 DEF Outcome!outcome
  <2> QED BY <2>1, <2>5, <2>6 DEF proofNow
<1> QED BY <1>1, <1>2, <1>3, <1>4, <1>5, <1>6, <1>7, <1>8, <1>9, <1>10, <1>11,
    <1>12, <1>13
       DEF EarlyAction

(* What a step of the merge shows: the run lives and is undecided, and     *)
(* only the root and what is known of it change.                           *)
MergeView ==
  /\ aliveNow = "yes" /\ decisionNow = "none"
  /\ UNCHANGED <<aliveNow, proofNow, decisionNow, ledgerNow>>

(* The root goes forward under the proof, and back only before its commit. *)
LEMMA MergeSim ==
  ASSUME TypeOK, SafetyInv, SeenInv, MergeAction
  PROVE  Outcome!OutcomeNext \/ UNCHANGED Outcome!outcome
<1> USE OtherStage, RecordErrorKeeps
<1> USE DEF SameView, Ended, Goto, stages, space, queue, others
<1>1. /\ pc \in {"merge", "intent", "build", "sync", "applied", "rollback",
                "rootCommitted", "copy", "copied", "restore", "merged"}
      /\ pc' \notin Ended /\ UNCHANGED <<verdict, row>>
      /\ "extinct" \in facts' <=> "extinct" \in facts
      /\ "FINAL_VALIDATION_BARRIER" \in reached' <=> "FINAL_VALIDATION_BARRIER" \in reached
  <2>1. CASE MergeStart \/ MergeIntent \/ MergeApplied
    BY <2>1 DEF MergeStart, MergeIntent, MergeApplied, MergeFails
  <2>2. CASE BuildAndCommit \/ SyncRoot \/ CopyStart \/ CopyEnd
    BY <2>2 DEF BuildAndCommit, SyncRoot, CopyStart, CopyEnd, MergeFails
  <2>3. CASE RollbackLiveRoot \/ RestoreRecall
    BY <2>3 DEF RollbackLiveRoot, RestoreRecall
  <2>4. CASE RootCommitted \/ Merged
    BY <2>4 DEF RootCommitted, Merged, BestEffort, Checkpoint
  <2> QED BY <2>1, <2>2, <2>3, <2>4 DEF MergeAction
<1>2. verdict = "none" /\ pc \notin Ended
  BY <1>1 DEF SafetyInv, VerdictInv, Late
<1>3. MergeView
  BY <1>1, <1>2 DEF MergeView, aliveNow, proofNow, decisionNow, ledgerNow
<1>4. "rollbackFailed" \notin facts
  BY <1>1 DEF SeenInv, RootTurns, Late
<1>5. ASSUME pc \in Merging PROVE proofNow = "yes"
  BY <1>5 DEF SafetyInv, StepFacts, Cleared, proofNow
<1>6. ASSUME UNCHANGED placeNow PROVE UNCHANGED Outcome!outcome
  BY <1>3, <1>6 DEF MergeView, Outcome!outcome
<1>7. ASSUME pc \in Merging,
             \/ placeNow = "untouched" /\ placeNow' = "changing"
             \/ placeNow = "changing" /\ placeNow' = "holds"
             \/ placeNow = "holds" /\ placeNow' = "committed"
      PROVE  Outcome!OutcomeNext
  BY <1>3, <1>5, <1>7 DEF MergeView, Outcome!OutcomeNext, Outcome!Forward, Outcome!Move
<1>8. ASSUME placeNow \in {"changing", "holds"}, placeNow' \in {"untouched", "stuck"}
      PROVE  Outcome!OutcomeNext
  BY <1>3, <1>8 DEF MergeView, Outcome!OutcomeNext, Outcome!TakeBack, Outcome!Move
<1>9. ASSUME UNCHANGED root, "rollbackFailed" \notin facts',
             "rootCommitted" \in facts' <=> "rootCommitted" \in facts
      PROVE  UNCHANGED placeNow
  BY <1>4, <1>9 DEF placeNow
<1>10. CASE MergeStart \/ MergeIntent \/ RootCommitted \/ Merged
  BY <1>4, <1>6, <1>9, <1>10 DEF MergeStart, MergeIntent, RootCommitted, Merged,
      MergeFails, BestEffort, Checkpoint
<1>11. CASE BuildAndCommit \/ CopyStart
  <2>1. root = "base" /\ "rootCommitted" \notin facts /\ pc \in Merging
    BY <1>11 DEF BuildAndCommit, CopyStart, SafetyInv, StepRoot, StepFacts, Late, Merging
  <2>2. CASE root' = "partial" /\ UNCHANGED facts
    <3>1. placeNow = "untouched" /\ placeNow' = "changing"
      BY <1>4, <2>1, <2>2 DEF placeNow
    <3> QED BY <1>7, <2>1, <3>1
  <2>3. CASE UNCHANGED root /\ facts' = facts \cup {"violation"}
    BY <1>4, <1>6, <1>9, <2>3
  <2> QED BY <1>11, <2>2, <2>3 DEF BuildAndCommit, CopyStart, MergeFails
<1>12. CASE SyncRoot \/ CopyEnd
  <2>1. root = "partial" /\ "rootCommitted" \notin facts /\ pc \in Merging
    BY <1>12 DEF SyncRoot, CopyEnd, SafetyInv, StepFacts, Late, Merging, SeenInv, RootTurns
  <2>2. CASE root' = "merged" /\ UNCHANGED facts
    <3>1. placeNow = "changing" /\ placeNow' = "holds"
      BY <1>4, <2>1, <2>2 DEF placeNow
    <3> QED BY <1>7, <2>1, <3>1
  <2>3. CASE UNCHANGED root /\ facts' = facts \cup {"violation"}
    BY <1>4, <1>6, <1>9, <2>3
  <2> QED BY <1>12, <2>2, <2>3 DEF SyncRoot, CopyEnd, MergeFails
<1>13. CASE MergeApplied
  <2>1. root = "merged" /\ "rootCommitted" \notin facts /\ pc \in Merging
    BY <1>13 DEF MergeApplied, SafetyInv, StepRoot, StepFacts, Late, Merging
  <2>2. CASE UNCHANGED root /\ facts' = facts \cup {"rootCommitted"}
    <3>1. placeNow = "holds" /\ placeNow' = "committed"
      BY <1>4, <2>1, <2>2 DEF placeNow
    <3> QED BY <1>7, <2>1, <3>1
  <2>3. CASE UNCHANGED root /\ facts' = facts \cup {"violation"}
    BY <1>4, <1>6, <1>9, <2>3
  <2> QED BY <1>13, <2>2, <2>3 DEF MergeApplied, MergeFails
<1>14. CASE RollbackLiveRoot \/ RestoreRecall
  <2>1. pc \in {"rollback", "restore"} /\ root # "reverted" /\ "rootCommitted" \notin facts
    BY <1>14 DEF RollbackLiveRoot, RestoreRecall, SafetyInv, StepRoot, StepFacts, Late
  <2>2. root \in {"base", "partial", "merged"}
    BY <2>1 DEF TypeOK
  <2>3. placeNow \in {"untouched", "changing", "holds"}
    BY <1>4, <2>1, <2>2 DEF placeNow
  <2>4. CASE root' = "base" /\ UNCHANGED facts
    <3>1. placeNow' = "untouched"
      BY <2>4 DEF placeNow
    <3> QED BY <1>6, <1>8, <2>3, <3>1
  <2>5. CASE UNCHANGED root /\ facts' = facts \cup {"rollbackFailed"}
    <3>1. root = "base" => placeNow' = placeNow
      BY <2>5 DEF placeNow
    <3>2. root # "base" => placeNow' = "stuck" /\ placeNow # "untouched"
      BY <1>4, <2>1, <2>2, <2>5 DEF placeNow
    <3> QED BY <1>6, <1>8, <2>3, <3>1, <3>2
  <2> QED BY <1>14, <2>4, <2>5 DEF RollbackLiveRoot, RestoreRecall
<1> QED BY <1>10, <1>11, <1>12, <1>13, <1>14 DEF MergeAction

(* A write of the row that is neither of the run's process nor of the root *)
(* or the proof.                                                           *)
RowWrite ==
  /\ pc' \in Ended <=> pc \in Ended
  /\ UNCHANGED <<root, verdict, facts>>
  /\ "FINAL_VALIDATION_BARRIER" \in reached' <=> "FINAL_VALIDATION_BARRIER" \in reached

(* Of such a write an operator sees the row alone.                         *)
LEMMA RowView ==
  ASSUME RowWrite
  PROVE  UNCHANGED <<aliveNow, proofNow, placeNow, decisionNow>>
<1>1. UNCHANGED aliveNow
  BY DEF RowWrite, aliveNow
<1>2. UNCHANGED proofNow
  BY DEF RowWrite, proofNow
<1>3. UNCHANGED placeNow
  BY DEF RowWrite, placeNow
<1>4. UNCHANGED decisionNow
  BY DEF RowWrite, decisionNow
<1> QED BY <1>1, <1>2, <1>3, <1>4

(* APPROVED is written of an accepted run whose work is on the root.       *)
LEMMA ApprovedView ==
  ASSUME TypeOK, SafetyInv, SeenInv, RowWrite, row' = "APPROVED",
         verdict = "APPROVED", root # "reverted"
  PROVE  Outcome!OutcomeNext
<1>1. root = "merged" /\ "rollbackFailed" \notin facts
  BY DEF SafetyInv, VerdictInv, Cleared, SeenInv, RootTurns
<1>2. placeNow \in {"holds", "committed"}
  BY <1>1 DEF placeNow
<1>3. decisionNow = "accepted" /\ ledgerNow' = "approved"
  BY DEF decisionNow, ledgerNow
<1> QED BY <1>2, <1>3, RowView DEF Outcome!OutcomeNext, Outcome!Approve, Outcome!Write

(* The process, or a replay while it lives, closes the row of a run that   *)
(* has left the root alone or reported that it could not.                  *)
LEMMA ClosedView ==
  ASSUME TypeOK, SafetyInv, SeenInv, RowWrite, row' \in {"QUARANTINED", "ABANDONED"},
         pc \in Ended \/ verdict = "QUARANTINED"
  PROVE  Outcome!OutcomeNext
<1>1. ledgerNow' = "closed"
  BY DEF ledgerNow
<1>2. ASSUME aliveNow = "yes" PROVE placeNow \in {"untouched", "stuck"}
  <2>1. pc \notin Ended /\ verdict = "QUARANTINED" /\ root # "reverted"
    BY <1>2 DEF aliveNow, SafetyInv, StepRoot
  <2>2. root = "base" \/ ("rollbackFailed" \in facts /\ root \in {"partial", "merged"})
    BY <2>1 DEF SafetyInv, VerdictInv, QuarantineLeavesRoot, SeenInv, TypeOK
  <2> QED BY <2>2 DEF placeNow
<1> QED BY <1>1, <1>2, RowView DEF Outcome!OutcomeNext, Outcome!Close, Outcome!Write

(* The process ends, and nothing else is seen of it.                       *)
LEMMA EndView ==
  ASSUME pc \notin Ended, pc' \in Ended, UNCHANGED <<root, verdict, facts, reached, row>>
  PROVE  Outcome!OutcomeNext
<1>1. aliveNow = "yes" /\ aliveNow' = "no"
  BY DEF aliveNow
<1>2. UNCHANGED <<proofNow, placeNow, decisionNow, ledgerNow>>
  BY DEF proofNow, placeNow, decisionNow, ledgerNow
<1> QED BY <1>1, <1>2 DEF Outcome!OutcomeNext, Outcome!End

(* From the verdict on the process decides once, writes the row and ends.  *)
LEMMA LateSim ==
  ASSUME TypeOK, SafetyInv, SeenInv, LateAction
  PROVE  Outcome!OutcomeNext \/ UNCHANGED Outcome!outcome
<1> USE OtherStage, RecordErrorKeeps, ViewStutters
<1> USE DEF SameView, Ended, Goto, stages, space, queue, others
<1>1. CASE Decide
  <2>1. /\ pc = "decide" /\ pc' = "finalize" /\ UNCHANGED <<root, row, reached>>
        /\ verdict' = IF "violation" \in facts THEN "QUARANTINED" ELSE "APPROVED"
        /\ \A f \in {"extinct", "rollbackFailed", "rootCommitted"} : f \in facts' <=> f \in facts
    BY <1>1 DEF Decide, SeenInv
  <2>2. verdict = "none"
    BY <2>1 DEF SafetyInv, VerdictInv, Late
  <2>3. UNCHANGED <<aliveNow, proofNow, placeNow, ledgerNow>>
    <3>1. UNCHANGED aliveNow
      BY <2>1 DEF aliveNow
    <3>2. UNCHANGED proofNow
      BY <2>1 DEF proofNow
    <3>3. UNCHANGED placeNow
      BY <2>1 DEF placeNow
    <3>4. UNCHANGED ledgerNow
      BY <2>1 DEF ledgerNow
    <3> QED BY <3>1, <3>2, <3>3, <3>4
  <2>4. aliveNow = "yes" /\ decisionNow = "none"
    BY <2>1, <2>2 DEF aliveNow, decisionNow
  <2>5. CASE "violation" \in facts
    <3>1. root = "base" \/ ("rollbackFailed" \in facts /\ root \in {"partial", "merged"})
      BY <2>1, <2>5 DEF SafetyInv, StepRoot, TypeOK
    <3>2. placeNow \in {"untouched", "stuck"}
      BY <3>1 DEF placeNow
    <3>3. decisionNow' = "rejected"
      BY <2>1, <2>5 DEF decisionNow
    <3> QED BY <2>3, <2>4, <3>2, <3>3 DEF Outcome!OutcomeNext, Outcome!Decide
  <2>6. CASE "violation" \notin facts
    <3>1. root = "merged" /\ "rollbackFailed" \notin facts
      BY <2>1, <2>6 DEF SafetyInv, StepRoot, SeenInv, RootTurns
    <3>2. placeNow \in {"holds", "committed"}
      BY <3>1 DEF placeNow
    <3>3. proofNow = "yes"
      BY <2>1, <2>6 DEF SafetyInv, StepFacts, Cleared, proofNow
    <3>4. decisionNow' = "accepted"
      BY <2>1, <2>6 DEF decisionNow
    <3> QED BY <2>3, <2>4, <3>2, <3>3, <3>4 DEF Outcome!OutcomeNext, Outcome!Decide
  <2> QED BY <2>5, <2>6
<1>2. CASE LedgerFinalizing
  BY <1>2 DEF LedgerFinalizing, FinalizationFails
<1>3. CASE TerminalStage
  <2>1. verdict # "FINAL_VALIDATION_BARRIER"
    BY DEF TypeOK
  <2> QED BY <1>3, <2>1 DEF TerminalStage, FinalizationFails
<1>4. CASE UpdateRun
  <2>1. pc = "update" /\ pc' \notin Ended /\ UNCHANGED <<root, verdict, facts, reached>>
    BY <1>4 DEF UpdateRun, FinalizationFails
  <2>2. CASE row' = verdict
    <3>1. RowWrite
      BY <2>1 DEF RowWrite
    <3>2. verdict \in {"APPROVED", "QUARANTINED"} /\ root # "reverted"
      BY <2>1 DEF TypeOK, SafetyInv, VerdictInv, StepRoot, Late
    <3> QED BY <2>2, <3>1, <3>2, ApprovedView, ClosedView
  <2>3. CASE UNCHANGED row
    BY <2>1, <2>3
  <2> QED BY <1>4, <2>2, <2>3 DEF UpdateRun, FinalizationFails
<1>5. CASE RecordEvidence
  BY <1>5 DEF RecordEvidence, FinalizationFails
<1>6. CASE SettleQuota \/ SettleSpend
  BY <1>6 DEF SettleQuota, SettleSpend, Settle, FinalizationFails
<1>7. CASE Feedback \/ Complete
  BY <1>7 DEF Feedback, Complete, BestEffort
<1>8. CASE DestroyAtEnd \/ UnwindWorkspace
  BY <1>8 DEF DestroyAtEnd, UnwindWorkspace
<1>9. CASE LedgerPendingRow
  <2>1. pc = "pendingRow" /\ pc' \notin Ended /\ UNCHANGED <<root, verdict, facts, reached>>
    BY <1>9 DEF LedgerPendingRow
  <2>2. CASE row' = "MERGED_LEDGER_PENDING"
    <3>1. RowWrite
      BY <2>1 DEF RowWrite
    <3>2. /\ "rootCommitted" \in facts /\ "rollbackFailed" \notin facts
          /\ root = "merged" /\ verdict = "APPROVED"
      BY <2>1 DEF SeenInv, RootTurns, SafetyInv, StepRoot, VerdictInv, Late, TypeOK
    <3>3. placeNow = "committed" /\ decisionNow = "accepted" /\ ledgerNow' = "pending"
      BY <2>2, <3>2 DEF placeNow, decisionNow, ledgerNow
    <3> QED BY <3>1, <3>3, RowView DEF Outcome!OutcomeNext, Outcome!Defer, Outcome!Write
  <2>3. CASE UNCHANGED row
    BY <2>1, <2>3
  <2> QED BY <1>9, <2>2, <2>3 DEF LedgerPendingRow
<1>10. CASE LedgerPendingStage
  BY <1>10 DEF LedgerPendingStage
<1>11. CASE Return
  BY <1>11, EndView DEF Return
<1>12. CASE \E k \in Reservations : UnwindReservation(k)
  BY <1>12 DEF UnwindReservation
<1> QED BY <1>1, <1>2, <1>3, <1>4, <1>5, <1>6, <1>7, <1>8, <1>9, <1>10, <1>11, <1>12
       DEF LateAction

(* Of the others an operator sees the death of the process, the row that a *)
(* recovery, a replay or a rollback writes, and the root taken back.       *)
LEMMA OtherSim ==
  ASSUME TypeOK, SafetyInv, SeenInv,
         \/ Crash
         \/ \E r \in Recoverers : Recover(r) \/ Abandon(r) \/ RecoverFails(r)
         \/ \E op \in outbox : Replay(op)
         \/ Rollback
  PROVE  Outcome!OutcomeNext \/ UNCHANGED Outcome!outcome
<1> USE ViewStutters
<1> USE DEF process, stages, space, queue, others
<1>1. CASE Crash
  BY <1>1, EndView DEF Crash, Ended
<1>2. ASSUME NEW r \in Recoverers, Recover(r) \/ Abandon(r) \/ RecoverFails(r)
      PROVE  Outcome!OutcomeNext \/ UNCHANGED Outcome!outcome
  <2>1. rstatus[r] \in {"ABANDONED", "QUARANTINED"}
    BY DEF TypeOK
  <2>2. CASE RecoverBegin(r, FALSE) \/ Abandon(r) \/ RecoverRelease(r) \/ RecoverFails(r)
    BY <2>2 DEF RecoverBegin, Abandon, RecoverRelease, RecoverFails, SameView
  <2>3. CASE RecoverDestroy(r)
    BY <2>3 DEF RecoverDestroy, SameView
  <2>4. CASE RecoverUpdate(r)
    <3>1. RowWrite /\ row' = rstatus[r]
      BY <2>4 DEF RecoverUpdate, RowWrite
    <3>2. pc \in Ended
      BY <2>4 DEF RecoverUpdate, SeenInv, RowTurns
    <3> QED BY <2>1, <3>1, <3>2, ClosedView
  <2>5. CASE RecoverRecord(r)
    BY <2>1, <2>5 DEF RecoverRecord, SameView
  <2> QED BY <1>2, <2>2, <2>3, <2>4, <2>5 DEF Recover
<1>3. ASSUME NEW op \in outbox, Replay(op)
      PROVE  Outcome!OutcomeNext \/ UNCHANGED Outcome!outcome
  <2>1. op \in Ops /\ op = Op(op.kind, op.arg)
    BY OpShape DEF TypeOK
  <2>2. UNCHANGED <<pc, facts, verdict, root>>
    BY <1>3 DEF Replay
  <2>3. CASE op.kind = "runUpdate"
    <3>1. row' = op.arg /\ UNCHANGED reached
      BY <1>3, <2>3 DEF Replay
    <3>2. RowWrite
      BY <2>2, <3>1 DEF RowWrite
    <3>3. op.arg \in {"APPROVED", "QUARANTINED"}
      BY <2>1, <2>3 DEF Ops
    <3>4. op.arg = "APPROVED" => verdict = "APPROVED" /\ root # "reverted"
      BY <2>1, <2>3 DEF SafetyInv, RowInv, SeenInv, QueuedTurns
    <3>5. op.arg = "QUARANTINED" => verdict = "QUARANTINED"
      BY <2>1, <2>3 DEF SeenInv, QueuedTurns
    <3> QED BY <3>1, <3>2, <3>3, <3>4, <3>5, ApprovedView, ClosedView
  <2>4. CASE op.kind = "stage"
    <3>1. op.arg # "FINAL_VALIDATION_BARRIER"
      BY <2>1, <2>4 DEF SeenInv, QueuedTurns
    <3>2. row' = row /\ reached' = reached \cup {op.arg}
      BY <1>3, <2>4 DEF Replay
    <3> QED BY <2>2, <3>1, <3>2 DEF SameView
  <2>5. CASE op.kind \notin {"runUpdate", "stage"}
    <3>1. UNCHANGED <<row, reached>>
      BY <1>3, <2>5 DEF Replay
    <3> QED BY <2>2, <3>1 DEF SameView
  <2> QED BY <2>3, <2>4, <2>5
<1>4. CASE RollbackRevert
  <2>1. /\ row = "APPROVED" /\ pc \in Ended /\ root = "merged" /\ root' = "reverted"
        /\ UNCHANGED <<pc, facts, verdict, reached, row>>
    BY <1>4 DEF RollbackRevert
  <2>2. "rollbackFailed" \notin facts
    BY <2>1 DEF SafetyInv, RowInv, VerdictInv, Cleared, SeenInv, RootTurns
  <2>3. placeNow \in {"holds", "committed"} /\ placeNow' = "undone"
    BY <2>1, <2>2 DEF placeNow
  <2>4. aliveNow = "no" /\ ledgerNow = "approved"
    BY <2>1 DEF aliveNow, ledgerNow
  <2>5. UNCHANGED <<aliveNow, proofNow, decisionNow, ledgerNow>>
    BY <2>1 DEF aliveNow, proofNow, decisionNow, ledgerNow
  <2> QED BY <2>3, <2>4, <2>5 DEF Outcome!OutcomeNext, Outcome!Undo, Outcome!Move
<1>5. CASE RollbackUpdate
  <2>1. RowWrite /\ row' = "ROLLED_BACK" /\ root = "reverted"
    BY <1>5 DEF RollbackUpdate, RowWrite, SeenInv, RowTurns
  <2>2. placeNow = "undone" /\ ledgerNow' = "rolledBack"
    BY <2>1 DEF placeNow, ledgerNow
  <2> QED BY <2>1, <2>2, RowView DEF Outcome!OutcomeNext, Outcome!RollBack, Outcome!Write
<1>6. CASE RollbackRecord \/ RollbackFails
  BY <1>6 DEF RollbackRecord, RollbackFails, SameView
<1> QED BY <1>1, <1>2, <1>3, <1>4, <1>5, <1>6 DEF Rollback

(* The run begins where RunOutcome begins.                                 *)
LEMMA InitSim ==
  ASSUME Init
  PROVE  Outcome!OutcomeInit
BY DEF Init, Ended, aliveNow, proofNow, placeNow, decisionNow, ledgerNow, Outcome!OutcomeInit

(* Every step of the run and of everyone who touches it is a step that     *)
(* RunOutcome allows, or one an operator does not see.                     *)
LEMMA StepSim ==
  ASSUME PipelineInv, SeenInv, [Next]_vars
  PROVE  [Outcome!OutcomeNext]_Outcome!outcome
<1>1. TypeOK /\ SafetyInv /\ PlainTypes
  BY DEF PipelineInv, PlainTypes, TypeOK
<1>2. CASE Next
  BY <1>1, <1>2, EarlySim, MergeSim, LateSim, OtherSim
     DEF Next, RunStep, EarlyAction, MergeAction, LateAction
<1>3. CASE UNCHANGED vars
  BY <1>3, ViewStutters DEF vars, process, stages, space, queue, others, SameView
<1> QED BY <1>2, <1>3

(***************************************************************************)
(* On every build but darwin runOnce, together with crash recovery,        *)
(* reconcile and rollback, implements RunOutcome, however many recoverers  *)
(* overlap, however many writes fail and wherever the process dies.        *)
(***************************************************************************)
THEOREM RunImplementsOutcome ==
  ASSUME \A c \in Configs : "darwin" \notin c
  PROVE  Spec => ImplementsOutcome
<1>1. Init => SeenInv
  BY InitSeen
<1>2. PipelineInv /\ SeenInv /\ [Next]_vars => SeenInv'
  BY SeenKept
<1>3. Init => Outcome!OutcomeInit
  BY InitSim
<1>4. PipelineInv /\ SeenInv /\ [Next]_vars => [Outcome!OutcomeNext]_Outcome!outcome
  BY StepSim
<1> QED BY <1>1, <1>2, <1>3, <1>4, PipelineInvariance, PTL
     DEF Spec, ImplementsOutcome, Outcome!OutcomeSpec

=============================================================================
