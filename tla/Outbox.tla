------------------------------- MODULE Outbox -------------------------------
(***************************************************************************)
(* maintenance_outbox: the durable retry queue for post-run operations     *)
(* that failed inline (internal/observability/outbox.go) and the two       *)
(* commands that drain it, `gov reconcile` and `gov cleanup --stale`       *)
(* (internal/runtime/reconcile.go).  Any number of reconcilers may run at  *)
(* once.  A pass leases every claimable row in one UPDATE and then, row by *)
(* row, inserts the applied marker, dispatches the operation, and writes   *)
(* the outcome, each in a statement of its own: other processes run        *)
(* between any two of them.                                                *)
(*                                                                         *)
(* A row's lease time is abstracted to whether it has run out.  An owner   *)
(* id is fresh for every pass and nothing of a pass survives it, so the    *)
(* reconciler itself serves as the owner id.                               *)
(***************************************************************************)
EXTENDS Naturals

CONSTANTS Items,        \* outbox rows
          Reconcilers,  \* processes running `gov reconcile`
          None,
          MaxAttempts,  \* the threshold given to `gov cleanup --stale`
          MaxKills      \* bound: passes cut short by a kill or a DB error

ASSUME NoneAssumption == None \notin Items /\ None \notin Reconcilers
ASSUME AttemptsAssumption == MaxAttempts \in Nat /\ MaxKills \in Nat

VARIABLES
  row,       \* the rows of maintenance_outbox
  applied,   \* maintenance_outbox_applied: rows with an applied marker
  opc,       \* where each reconciler is
  claimed,   \* rows claimed by its pass and not handled yet
  cur,       \* the row it is handling
  victims,   \* rows `gov cleanup --stale` selected and has not marked yet
  executed,  \* history: how often each operation took effect (2: or more)
  succeeded, \* history: operations a dispatch of which returned nil
  botched,   \* history: ... of which took effect and returned an error
  cut,       \* history: rows whose handling was cut short by a kill
  kills

history == <<executed, succeeded, botched>>
outboxVars == <<row, applied, opc, claimed, cur, victims, history, cut, kills>>

Statuses == {"absent", "pending", "processing", "done", "dead"}

(* lease_until: unset, in the future, or past.                             *)
Leases == {"unset", "valid", "expired"}

(* attempts counts up to the threshold: beyond it nothing tells it apart.  *)
Row == [status : Statuses, attempts : 0..MaxAttempts,
        owner : Reconcilers \cup {None}, lease : Leases]

Places == {"idle", "loop", "dispatch", "skip", "finish", "release", "retry"}

OutboxTypeOK ==
  /\ row \in [Items -> Row]
  /\ applied \in SUBSET Items
  /\ opc \in [Reconcilers -> Places]
  /\ claimed \in [Reconcilers -> SUBSET Items]
  /\ cur \in [Reconcilers -> Items \cup {None}]
  /\ victims \in SUBSET Items
  /\ executed \in [Items -> 0..2]
  /\ succeeded \in SUBSET Items
  /\ botched \in SUBSET Items
  /\ cut \in SUBSET Items
  /\ kills \in 0..MaxKills

OutboxInit ==
  /\ row = [i \in Items |-> [status |-> "absent", attempts |-> 0,
                             owner |-> None, lease |-> "unset"]]
  /\ applied = {}
  /\ opc = [r \in Reconcilers |-> "idle"]
  /\ claimed = [r \in Reconcilers |-> {}]
  /\ cur = [r \in Reconcilers |-> None]
  /\ victims = {}
  /\ executed = [i \in Items |-> 0]
  /\ succeeded = {}
  /\ botched = {}
  /\ cut = {}
  /\ kills = 0

(* EnqueueOutbox, from noteOperationalFailure of some run.                 *)
Enqueue(i) ==
  /\ row[i].status = "absent"
  /\ row' = [row EXCEPT ![i].status = "pending"]
  /\ UNCHANGED <<applied, opc, claimed, cur, victims, history, cut, kills>>

(* Time passes lease_until of a leased row.                                *)
LeaseExpires(i) ==
  /\ row[i].status = "processing"
  /\ row[i].lease = "valid"
  /\ row' = [row EXCEPT ![i].lease = "expired"]
  /\ UNCHANGED <<applied, opc, claimed, cur, victims, history, cut, kills>>

-----------------------------------------------------------------------------
(* `gov reconcile`                                                         *)

(* Mutant: rows of a reconciler that died are never claimed again.         *)
Claimable_PendingOnly(i) == row[i].status = "pending"

Claimable(i) ==
  \/ row[i].status = "pending"
  \/ row[i].status = "processing" /\ row[i].lease = "expired"

(* ClaimOutbox: one UPDATE leases every claimable row.                     *)
ClaimOutbox(r) ==
  /\ opc[r] = "idle"
  /\ \E i \in Items : Claimable(i)
  /\ claimed' = [claimed EXCEPT ![r] = {i \in Items : Claimable(i)}]
  /\ row' = [i \in Items |->
               IF Claimable(i)
               THEN [row[i] EXCEPT !.status = "processing", !.owner = r,
                                   !.lease = "valid"]
               ELSE row[i]]
  /\ opc' = [opc EXCEPT ![r] = "loop"]
  /\ UNCHANGED <<applied, cur, victims, history, cut, kills>>

(* The end of the loop over the claimed rows.                              *)
PassEnds(r) ==
  /\ opc[r] = "loop"
  /\ claimed[r] = {}
  /\ opc' = [opc EXCEPT ![r] = "idle"]
  /\ UNCHANGED <<row, applied, claimed, cur, victims, history, cut, kills>>

(* Mutant: the applied marker is inserted but a conflict is not noticed.   *)
ClaimExecution_Ignored(r, i) ==
  /\ opc[r] = "loop"
  /\ i \in claimed[r]
  /\ claimed' = [claimed EXCEPT ![r] = @ \ {i}]
  /\ cur' = [cur EXCEPT ![r] = i]
  /\ applied' = applied \cup {i}
  /\ opc' = [opc EXCEPT ![r] = "dispatch"]
  /\ UNCHANGED <<row, victims, history, cut, kills>>

(* ClaimOutboxExecution: INSERT ... ON CONFLICT DO NOTHING.                *)
ClaimExecution(r, i) ==
  /\ opc[r] = "loop"
  /\ i \in claimed[r]
  /\ claimed' = [claimed EXCEPT ![r] = @ \ {i}]
  /\ cur' = [cur EXCEPT ![r] = i]
  /\ \/ /\ i \notin applied
        /\ applied' = applied \cup {i}
        /\ opc' = [opc EXCEPT ![r] = "dispatch"]
     \/ /\ i \in applied
        /\ opc' = [opc EXCEPT ![r] = "skip"]
        /\ UNCHANGED applied
  /\ UNCHANGED <<row, victims, history, cut, kills>>

TakeEffect(i) == executed' = [executed EXCEPT ![i] = IF @ = 2 THEN 2 ELSE @ + 1]

(* Mutant: a failed operation keeps its applied marker.                    *)
Dispatch_KeepMarker(r) ==
  /\ opc[r] = "dispatch"
  /\ \/ /\ TakeEffect(cur[r])
        /\ succeeded' = succeeded \cup {cur[r]}
        /\ opc' = [opc EXCEPT ![r] = "finish"]
        /\ UNCHANGED botched
     \/ /\ opc' = [opc EXCEPT ![r] = "retry"]
        /\ UNCHANGED history
  /\ UNCHANGED <<row, applied, claimed, cur, victims, cut, kills>>

(***************************************************************************)
(* dispatchReconcile.  The operation takes effect and returns nil; or it   *)
(* returns an error, with no effect (a payload that does not parse and an  *)
(* unknown op_kind included) or after its effect: breaker.RecordFailure    *)
(* saves the row and then fails to append the audit event.  A dropped      *)
(* out-of-range quota hint counts as an effect.                            *)
(***************************************************************************)
Dispatch(r) ==
  /\ opc[r] = "dispatch"
  /\ \/ /\ TakeEffect(cur[r])
        /\ succeeded' = succeeded \cup {cur[r]}
        /\ opc' = [opc EXCEPT ![r] = "finish"]
        /\ UNCHANGED botched
     \/ /\ TakeEffect(cur[r])
        /\ botched' = botched \cup {cur[r]}
        /\ opc' = [opc EXCEPT ![r] = "release"]
        /\ UNCHANGED succeeded
     \/ /\ opc' = [opc EXCEPT ![r] = "release"]
        /\ UNCHANGED history
  /\ UNCHANGED <<row, applied, claimed, cur, victims, cut, kills>>

(* MarkOutboxDone: ... WHERE id=? AND lease_owner=?, for a marker found    *)
(* ("skip") and for an operation that succeeded ("finish").                *)
MarkDone(r) ==
  /\ opc[r] \in {"skip", "finish"}
  /\ row' = IF row[cur[r]].owner = r
            THEN [row EXCEPT ![cur[r]].status = "done", ![cur[r]].owner = None,
                             ![cur[r]].lease = "unset"]
            ELSE row
  /\ cur' = [cur EXCEPT ![r] = None]
  /\ opc' = [opc EXCEPT ![r] = "loop"]
  /\ UNCHANGED <<applied, claimed, victims, history, cut, kills>>

(* ReleaseOutboxExecution: DELETE of the marker.                           *)
ReleaseExecution(r) ==
  /\ opc[r] = "release"
  /\ applied' = applied \ {cur[r]}
  /\ opc' = [opc EXCEPT ![r] = "retry"]
  /\ UNCHANGED <<row, claimed, cur, victims, history, cut, kills>>

(* MarkOutboxRetry: ... WHERE id=?, whoever holds the lease by now.        *)
MarkRetry(r) ==
  /\ opc[r] = "retry"
  /\ row' = [row EXCEPT ![cur[r]] =
               [status |-> "pending", owner |-> None, lease |-> "unset",
                attempts |-> IF @.attempts = MaxAttempts THEN MaxAttempts
                             ELSE @.attempts + 1]]
  /\ cur' = [cur EXCEPT ![r] = None]
  /\ opc' = [opc EXCEPT ![r] = "loop"]
  /\ UNCHANGED <<applied, claimed, victims, history, cut, kills>>

(***************************************************************************)
(* The process is killed, or a ledger statement returns an error and       *)
(* Reconcile returns: either way the rest of the pass does not happen.     *)
(***************************************************************************)
Killed(r) ==
  /\ opc[r] # "idle"
  /\ kills < MaxKills
  /\ kills' = kills + 1
  /\ cut' = IF opc[r] \in {"dispatch", "release", "retry"}
            THEN cut \cup {cur[r]} ELSE cut
  /\ opc' = [opc EXCEPT ![r] = "idle"]
  /\ claimed' = [claimed EXCEPT ![r] = {}]
  /\ cur' = [cur EXCEPT ![r] = None]
  /\ UNCHANGED <<row, applied, victims, history>>

-----------------------------------------------------------------------------
(* `gov cleanup --stale`                                                   *)

(* StaleOutbox: SELECT of the pending rows at the threshold.               *)
CleanupSelect ==
  /\ victims = {}
  /\ victims' = {i \in Items : /\ row[i].status = "pending"
                               /\ row[i].attempts >= MaxAttempts}
  /\ victims' # {}
  /\ UNCHANGED <<row, applied, opc, claimed, cur, history, cut, kills>>

(* MarkOutboxDead: ... WHERE id=?; lease_owner and lease_until stay.       *)
CleanupMark(i) ==
  /\ i \in victims
  /\ row' = [row EXCEPT ![i].status = "dead"]
  /\ victims' = victims \ {i}
  /\ UNCHANGED <<applied, opc, claimed, cur, history, cut, kills>>

(* CleanupStale is killed, or MarkOutboxDead returns an error.             *)
CleanupKilled ==
  /\ victims # {}
  /\ kills < MaxKills
  /\ kills' = kills + 1
  /\ victims' = {}
  /\ UNCHANGED <<row, applied, opc, claimed, cur, history, cut>>

-----------------------------------------------------------------------------
Pass(r) ==
  \/ ClaimOutbox(r) \/ PassEnds(r) \/ Dispatch(r) \/ MarkDone(r)
  \/ ReleaseExecution(r) \/ MarkRetry(r)
  \/ \E i \in Items : ClaimExecution(r, i)

Cleanup == CleanupSelect \/ CleanupKilled \/ \E i \in Items : CleanupMark(i)

OutboxNext ==
  \/ \E i \in Items : Enqueue(i) \/ LeaseExpires(i)
  \/ \E r \in Reconcilers : Pass(r) \/ Killed(r)
  \/ Cleanup

OutboxSpec == OutboxInit /\ [][OutboxNext]_outboxVars

(* Reconciler r has inserted the marker of i and not settled it yet.       *)
Executing(r, i) == opc[r] \in {"dispatch", "release"} /\ cur[r] = i

(* Reconciler r still owes row i its outcome.                              *)
Owes(r, i) == opc[r] \in {"dispatch", "release", "retry"} /\ cur[r] = i

(***************************************************************************)
(* Passes that were started go on, `gov reconcile` is invoked again and    *)
(* again (it is an operator or cron command), and time passes: the lease   *)
(* of a row that its owner no longer handles runs out.                     *)
(***************************************************************************)
Handling(r, i) == i \in claimed[r] \/ cur[r] = i

TimelyExpiry(i) == LeaseExpires(i) /\ ~Handling(row[i].owner, i)

(* A lease runs out under the pass that is working on its row.             *)
Overrun(i) == LeaseExpires(i) /\ Handling(row[i].owner, i)

FairSpec ==
  /\ OutboxSpec
  /\ \A r \in Reconcilers : WF_outboxVars(Pass(r))
  /\ \A i \in Items : WF_outboxVars(TimelyExpiry(i))

-----------------------------------------------------------------------------
(***************************************************************************)
(* Inductive invariant: an applied marker is there because a dispatch      *)
(* reported success, because exactly one reconciler is executing it, or    *)
(* because a kill left it behind; never the first two at once.             *)
(***************************************************************************)
CurAgrees ==
  \A r \in Reconcilers :
    cur[r] # None <=> opc[r] \in {"dispatch", "skip", "finish", "release", "retry"}

OneExecutor ==
  \A i \in Items, r, s \in Reconcilers :
    Executing(r, i) /\ Executing(s, i) => r = s

ExecutorHoldsMarker ==
  \A i \in Items, r \in Reconcilers :
    Executing(r, i) => i \in applied /\ i \notin succeeded

SuccessKeepsMarker == succeeded \subseteq applied

EffectsAreReported ==
  \A i \in Items :
    /\ executed[i] > 0 => i \in succeeded \cup botched
    /\ executed[i] > 1 => i \in botched

(***************************************************************************)
(* No operation is dispatched by two passes at once, none is dispatched    *)
(* again once a dispatch of it reported success, and none takes effect     *)
(* twice unless one of its dispatches took effect and returned an error:   *)
(* whatever leases expire, rows are reclaimed and reconcilers die.  The    *)
(* applied marker, not the lease, excludes the second dispatch (outbox.go, *)
(* ClaimOutboxExecution).                                                  *)
(***************************************************************************)
NoRedispatch ==
  \A i \in Items :
    /\ \A r, s \in Reconcilers : Executing(r, i) /\ Executing(s, i) => r = s
    /\ i \in succeeded => \A r \in Reconcilers : ~Executing(r, i)
    /\ executed[i] > 1 => i \in botched

OutboxInv ==
  /\ OutboxTypeOK /\ CurAgrees /\ OneExecutor /\ ExecutorHoldsMarker
  /\ SuccessKeepsMarker /\ EffectsAreReported

(***************************************************************************)
(* An operation is lost, i.e. its row says done and no dispatch of it      *)
(* reported success, only when a kill cut its execution short; as long as  *)
(* some reconciler still owes the row its outcome, a late failure takes it *)
(* back to pending.                                                        *)
(***************************************************************************)
LostOnlyIfCut ==
  \A i \in Items :
    row[i].status = "done" /\ i \notin succeeded =>
      i \in cut \/ \E r \in Reconcilers : Owes(r, i)

(***************************************************************************)
(* Unless passes outlast their leases (reconcileLeaseDuration) for ever, a *)
(* row never stays leased: the rows of a killed reconciler come back for   *)
(* retry (reconcile.go).                                                   *)
(***************************************************************************)
LeasesEnd ==
  <>[][\A i \in Items : ~Overrun(i)]_outboxVars =>
    \A i \in Items : row[i].status = "processing" ~> row[i].status # "processing"

(***************************************************************************)
(* docs/security.md says that every op kind that is not idempotent has a   *)
(* marker written with its effect: that no operation takes effect twice.   *)
(* False of an effect whose dispatch returned an error (NoRedispatch).     *)
(***************************************************************************)
AtMostOnce == \A i \in Items : executed[i] <= 1

(***************************************************************************)
(* outbox.go says of the status done: the operation eventually succeeded.  *)
(***************************************************************************)
DoneMeansExecuted ==
  \A i \in Items : row[i].status = "done" => executed[i] > 0

(***************************************************************************)
(* reconcile.go says of CleanupStale that it terminalizes pending rows     *)
(* that failed maxAttempts times; outbox.go that a leased row is never     *)
(* stale.                                                                  *)
(***************************************************************************)
DeadOnlyFromPending ==
  [][\A i \in Items :
       row[i].status # "dead" /\ row'[i].status = "dead" =>
         row[i].status = "pending"]_outboxVars

=============================================================================
