------------------------------- MODULE Spend -------------------------------
(***************************************************************************)
(* The daily spend cap (internal/spend): the reservations every process    *)
(* makes in the shared ledger, the halt file, and the accountant that the  *)
(* jobs of one `gov batch` share.  One SQL statement or transaction, one   *)
(* file operation and one critical section of the accountant are a step.   *)
(* Every run has the same estimate.                                        *)
(***************************************************************************)
EXTENDS Integers, FiniteSets, Functions, TLC

CONSTANTS
  Runs,        \* runs, each with its process
  Batch,       \* the runs that are jobs of one `gov batch`
  Cap,         \* spend.daily_cap_usd
  Estimate,    \* EstimateCostUSD of every run
  Costs,       \* what an agent may really cost
  TTL,         \* of a reservation
  DayLength,
  LastStart,   \* bound: the last time at which a run reserves
  MaxTime,     \* bound: the clock
  MaxFaults,   \* bound: failed statements and error returns
  MaxCrashes   \* bound: processes that die

ASSUME SpendAssumption ==
  /\ IsFiniteSet(Runs) /\ Batch \subseteq Runs
  /\ Cap \in Nat \ {0} /\ Estimate \in Nat \ {0} /\ Costs \subseteq Nat
  /\ TTL \in Nat /\ DayLength \in Nat \ {0}
  /\ LastStart \in Nat /\ MaxTime \in Nat /\ MaxFaults \in Nat /\ MaxCrashes \in Nat

VARIABLES
  clock,
  halted,   \* the halt file exists
  resv,     \* spend_reservations, by run
  row,      \* runs: status, day of created, cost_usd
  pc,       \* the step each run is at
  at,       \* the time a run's ReserveGlobal works with
  owed,     \* what the agent of a run really cost
  metered,  \* whether the backend reported it
  acct,     \* Accountant: spent, pending
  queued,   \* spend operations of a run in the maintenance outbox
  faults, crashes,
  baseline  \* history: the ledger total the accountant started from

vars == <<clock, halted, resv, row, pc, at, owed, metered, acct, queued, faults, crashes, baseline>>
world == <<clock, halted, at, owed, metered, acct, queued, faults, crashes, baseline>>

NoReservation == [state |-> "none", day |-> 0, expires |-> 0, actual |-> 0]
NoRow == [status |-> "none", day |-> 0, cost |-> 0]

Day(t) == t \div DayLength

TypeOK ==
  /\ clock \in 0..MaxTime /\ halted \in BOOLEAN
  /\ \A r \in Runs :
       /\ resv[r].state \in {"none", "pending", "settled", "released", "expired"}
       /\ row[r].status \in {"none", "RUNNING", "closed"}
       /\ owed[r] \in Nat /\ metered[r] \in BOOLEAN
       /\ queued[r] \subseteq {"settle", "release", "halt"}
  /\ pc \in [Runs -> {"start", "check", "reserve", "insert", "created", "working", "audited",
                      "settle", "halt", "leaving", "failing", "done", "error",
                      "skipped", "closed", "failed", "dead"}]
  /\ acct.spent \in Nat /\ acct.pending \in Nat

Init ==
  /\ clock = 0 /\ halted = FALSE
  /\ resv = [r \in Runs |-> NoReservation]
  /\ row = [r \in Runs |-> NoRow]
  /\ pc = [r \in Runs |-> "start"]
  /\ at = [r \in Runs |-> 0]
  /\ owed = [r \in Runs |-> 0] /\ metered = [r \in Runs |-> TRUE]
  /\ acct = [open |-> FALSE, spent |-> 0, pending |-> 0]
  /\ queued = [r \in Runs |-> {}]
  /\ faults = 0 /\ crashes = 0 /\ baseline = 0

-----------------------------------------------------------------------------
(* What the ledger says of a day                                           *)

Closed(d) == {r \in Runs : row[r].status = "closed" /\ row[r].day = d}
Pending(d) == {r \in Runs : resv[r].state = "pending" /\ resv[r].day = d}
Settled(d) == {r \in Runs : resv[r].state = "settled" /\ resv[r].day = d}
Reserved(d) == {r \in Runs : resv[r].state # "none" /\ resv[r].day = d}

Cost == [r \in Runs |-> row[r].cost]
Actual == [r \in Runs |-> resv[r].actual]

DaySpend(d) == SumFunctionOnSet(Cost, Closed(d))

(* Mutant: reservations that are still pending are not counted.            *)
Committed_SettledOnly(d) ==
  SumFunctionOnSet(Cost, Closed(d) \ Reserved(d)) + SumFunctionOnSet(Actual, Settled(d))

(* The three terms ReserveGlobal weighs: closed runs without a reservation *)
(* of the day, pending estimates, settled actuals.                         *)
Committed(d) ==
  SumFunctionOnSet(Cost, Closed(d) \ Reserved(d))
    + Estimate * Cardinality(Pending(d))
    + SumFunctionOnSet(Actual, Settled(d))

Goto(r, step) == pc' = [pc EXCEPT ![r] = step]

(* A refused run is recorded, QUARANTINED at no cost.                      *)
Refused(r) ==
  /\ row' = [row EXCEPT ![r] = [status |-> "closed", day |-> Day(clock), cost |-> 0]]
  /\ Goto(r, "done")

-----------------------------------------------------------------------------
(* The batch accountant: one mutex, in-process                             *)

NewAccountant ==
  /\ Batch # {} /\ ~acct.open
  /\ acct' = [open |-> TRUE, spent |-> DaySpend(Day(clock)), pending |-> 0]
  /\ baseline' = acct'.spent
  /\ UNCHANGED <<clock, halted, resv, row, pc, at, owed, metered, queued, faults, crashes>>

(* runBatchJob: Accountant.Reserve, or the job is SKIPPED.                 *)
AccountantReserve(r) ==
  /\ r \in Batch /\ pc[r] = "start" /\ acct.open
  /\ IF halted \/ acct.spent + acct.pending + Estimate > Cap
     THEN Goto(r, "skipped") /\ UNCHANGED acct
     ELSE Goto(r, "check") /\ acct' = [acct EXCEPT !.pending = @ + Estimate]
  /\ UNCHANGED <<clock, halted, resv, row, at, owed, metered, queued, faults, crashes, baseline>>

(* Mutant: a job that ends with an error keeps its reservation.            *)
AccountantSettle_LeaksErrors(r) ==
  /\ r \in Batch /\ pc[r] \in {"done", "error"}
  /\ acct' = IF pc[r] = "error" THEN acct
             ELSE [acct EXCEPT !.pending = @ - Estimate, !.spent = @ + row[r].cost]
  /\ Goto(r, IF pc[r] = "error" THEN "failed" ELSE "closed")
  /\ UNCHANGED <<clock, halted, resv, row, at, owed, metered, queued, faults, crashes, baseline>>

(* ... and Accountant.Settle once its run returns: the recorded cost, and  *)
(* nothing for a run that returned an error.                               *)
AccountantSettle(r) ==
  /\ r \in Batch /\ pc[r] \in {"done", "error"}
  /\ LET cost == IF pc[r] = "error" THEN 0 ELSE row[r].cost
         left == acct.pending - Estimate
     IN acct' = [acct EXCEPT !.pending = IF left < 0 THEN 0 ELSE left, !.spent = @ + cost]
  /\ Goto(r, IF pc[r] = "error" THEN "failed" ELSE "closed")
  /\ UNCHANGED <<clock, halted, resv, row, at, owed, metered, queued, faults, crashes, baseline>>

-----------------------------------------------------------------------------
(* One run                                                                 *)

(* A `gov run` of its own.                                                 *)
Begin(r) ==
  /\ r \notin Batch /\ pc[r] = "start"
  /\ Goto(r, "check")
  /\ UNCHANGED <<resv, row, world>>

(* The early look at the halt file and at what has landed.                 *)
CheckBudget(r) ==
  /\ pc[r] = "check" /\ clock <= LastStart
  /\ IF halted \/ DaySpend(Day(clock)) >= Cap
     THEN Refused(r)
     ELSE Goto(r, "reserve") /\ UNCHANGED row
  /\ UNCHANGED <<resv, world>>

Stale(now) == {x \in Runs : resv[x].state = "pending" /\ resv[x].expires < now}

(* ReserveGlobal: the time, the halt file, and expireStaleReservations.    *)
ReserveGlobal(r) ==
  /\ pc[r] = "reserve" /\ clock <= LastStart
  /\ IF halted THEN Refused(r) /\ UNCHANGED <<resv, at>>
     ELSE /\ at' = [at EXCEPT ![r] = clock]
          /\ resv' = [x \in Runs |->
               IF x \in Stale(clock) THEN [resv[x] EXCEPT !.state = "expired"] ELSE resv[x]]
          /\ Goto(r, "insert") /\ UNCHANGED row
  /\ UNCHANGED <<clock, halted, owed, metered, acct, queued, faults, crashes, baseline>>

(* The INSERT ... SELECT ... WHERE.                                        *)
ReserveInsert(r) ==
  /\ pc[r] = "insert"
  /\ LET d == Day(at[r])
     IN IF Committed(d) + Estimate <= Cap
        THEN /\ resv' = [resv EXCEPT ![r] = [state |-> "pending", day |-> d,
                           expires |-> at[r] + TTL, actual |-> 0]]
             /\ Goto(r, "created") /\ UNCHANGED row
        ELSE Refused(r) /\ UNCHANGED resv
  /\ at' = [at EXCEPT ![r] = 0]
  /\ UNCHANGED <<clock, halted, owed, metered, acct, queued, faults, crashes, baseline>>

(* The quota reservation is refused, or insertRun and the launch follow.   *)
Launch(r) ==
  /\ pc[r] = "created"
  /\ \/ /\ row' = [row EXCEPT ![r] = [status |-> "closed", day |-> Day(clock), cost |-> 0]]
        /\ Goto(r, "leaving")
     \/ /\ row' = [row EXCEPT ![r] = [status |-> "RUNNING", day |-> Day(clock), cost |-> 0]]
        /\ Goto(r, "working")
  /\ UNCHANGED <<resv, world>>

(* External: the agent runs up a cost, which its backend reports or not.   *)
AgentEnds(r, cost) ==
  /\ pc[r] = "working"
  /\ owed' = [owed EXCEPT ![r] = cost]
  /\ \E known \in BOOLEAN : metered' = [metered EXCEPT ![r] = known]
  /\ Goto(r, "audited")
  /\ UNCHANGED <<clock, halted, resv, row, at, acct, queued, faults, crashes, baseline>>

(* The completion row: an unknown cost is recorded as 0.                   *)
UpdateRun(r) ==
  /\ pc[r] = "audited"
  /\ row' = [row EXCEPT ![r].status = "closed", ![r].cost = IF metered[r] THEN owed[r] ELSE 0]
  /\ Goto(r, "settle")
  /\ UNCHANGED <<resv, world>>

(* An error return between the agent's end and the completion row.         *)
ErrorReturn(r) ==
  /\ pc[r] = "audited" /\ faults < MaxFaults /\ faults' = faults + 1
  /\ Goto(r, "failing")
  /\ UNCHANGED <<clock, halted, resv, row, at, owed, metered, acct, queued, crashes, baseline>>

(* Mutant: an unmetered run settles at nothing.                            *)
Charge_Recorded(r) == row[r].cost

(* An unmetered run settles at its estimate.                               *)
Charge(r) == IF metered[r] THEN row[r].cost ELSE Estimate

(* Only a pending reservation changes; for any other the settlement is a   *)
(* silent no-op.                                                           *)
Settle(r) ==
  resv' = IF resv[r].state = "pending"
          THEN [resv EXCEPT ![r].state = "settled", ![r].actual = Charge(r)]
          ELSE resv

Release(r) ==
  resv' = IF resv[r].state = "pending" THEN [resv EXCEPT ![r].state = "released"] ELSE resv

SettleGlobal(r) ==
  /\ pc[r] = "settle"
  /\ Settle(r) /\ Goto(r, "halt")
  /\ UNCHANGED <<row, world>>

(* The settlement fails: after a commit of the root it is queued and the   *)
(* run returns normally, otherwise with an error.                          *)
SettleFails(r) ==
  /\ pc[r] = "settle" /\ faults < MaxFaults /\ faults' = faults + 1
  /\ \/ queued' = [queued EXCEPT ![r] = @ \cup {"settle"}] /\ Goto(r, "leaving")
     \/ UNCHANGED queued /\ Goto(r, "failing")
  /\ UNCHANGED <<clock, halted, resv, row, at, owed, metered, acct, crashes, baseline>>

(* The deferred ReleaseGlobal of a run that did not settle; if it fails it *)
(* is queued.                                                              *)
ReleaseGlobal(r) ==
  /\ pc[r] \in {"leaving", "failing"}
  /\ \/ Release(r) /\ UNCHANGED <<queued, faults>>
     \/ /\ faults < MaxFaults /\ faults' = faults + 1
        /\ queued' = [queued EXCEPT ![r] = @ \cup {"release"}]
        /\ UNCHANGED resv
  /\ Goto(r, IF pc[r] = "leaving" THEN "done" ELSE "error")
  /\ UNCHANGED <<clock, halted, row, at, owed, metered, acct, crashes, baseline>>

(* MaybeHalt: the halt file is written once the recorded total reaches the *)
(* cap; a failure is queued.                                               *)
MaybeHalt(r) ==
  /\ pc[r] = "halt"
  /\ \/ /\ halted' = (halted \/ DaySpend(Day(clock)) >= Cap)
        /\ UNCHANGED <<queued, faults>>
     \/ /\ faults < MaxFaults /\ faults' = faults + 1
        /\ queued' = [queued EXCEPT ![r] = @ \cup {"halt"}]
        /\ UNCHANGED halted
  /\ Goto(r, "done")
  /\ UNCHANGED <<clock, resv, row, at, owed, metered, acct, crashes, baseline>>

-----------------------------------------------------------------------------
(* Crash, recovery, reconciliation and the operator                        *)

(* A batch is one process: its jobs die together.                          *)
Crash(r) ==
  /\ pc[r] \notin {"start", "done", "error", "skipped", "closed", "failed", "dead"}
  /\ crashes < MaxCrashes /\ crashes' = crashes + 1
  /\ LET gone == IF r \in Batch THEN Batch ELSE {r}
     IN pc' = [x \in Runs |-> IF x \in gone THEN "dead" ELSE pc[x]]
  /\ UNCHANGED <<clock, halted, resv, row, at, owed, metered, acct, queued, faults, baseline>>

(* recoverOne: ReleaseForRun, then the row of a run nobody is working on   *)
(* is closed without a cost.                                               *)
Recover(r) ==
  /\ pc[r] \in {"dead", "error", "failed"} /\ row[r].status = "RUNNING"
  /\ Release(r)
  /\ row' = [row EXCEPT ![r].status = "closed"]
  /\ UNCHANGED <<pc, world>>

(* `gov reconcile` replays a queued operation.                             *)
Replay(r, kind) ==
  /\ kind \in queued[r]
  /\ queued' = [queued EXCEPT ![r] = @ \ {kind}]
  /\ CASE kind = "settle" -> Settle(r) /\ UNCHANGED halted
       [] kind = "release" -> Release(r) /\ UNCHANGED halted
       [] kind = "halt" -> UNCHANGED resv
                           /\ halted' = (halted \/ DaySpend(Day(clock)) >= Cap)
  /\ UNCHANGED <<clock, row, pc, at, owed, metered, acct, faults, crashes, baseline>>

(* `gov spend --halt` and `gov spend --resume`.                                *)
Operator ==
  /\ halted' = ~halted
  /\ UNCHANGED <<clock, resv, row, pc, at, owed, metered, acct, queued, faults, crashes, baseline>>

Tick ==
  /\ clock < MaxTime /\ clock' = clock + 1
  /\ UNCHANGED <<halted, resv, row, pc, at, owed, metered, acct, queued, faults, crashes, baseline>>

Step(r) ==
  \/ AccountantReserve(r) \/ AccountantSettle(r)
  \/ Begin(r) \/ CheckBudget(r) \/ ReserveGlobal(r) \/ ReserveInsert(r) \/ Launch(r)
  \/ (\E cost \in Costs : AgentEnds(r, cost))
  \/ UpdateRun(r) \/ ErrorReturn(r) \/ SettleGlobal(r) \/ SettleFails(r) \/ ReleaseGlobal(r)
  \/ MaybeHalt(r) \/ Crash(r) \/ Recover(r)
  \/ (\E kind \in {"settle", "release", "halt"} : Replay(r, kind))

Next == NewAccountant \/ Operator \/ Tick \/ \E r \in Runs : Step(r)

Spec == Init /\ [][Next]_vars

-----------------------------------------------------------------------------
(* The reservation was let go although its agent had run up a cost.        *)
LetGo(r) == resv[r].state \in {"released", "expired"} /\ owed[r] > 0

(* The part of a cost that the estimate of its run covers.                 *)
Foreseen(cost) == [r \in Runs |-> IF cost[r] > Estimate THEN Estimate ELSE cost[r]]

(***************************************************************************)
(* The cap on what was reserved: whatever processes race, expire, settle,  *)
(* crash and are replayed, the pending estimates and settled actuals of a  *)
(* day exceed the cap by no more than what its agents cost beyond their    *)
(* estimates, which nothing bounds (ReserveGlobal).                        *)
(***************************************************************************)
ReservedWithinCap ==
  \A d \in 0..Day(MaxTime) :
    Estimate * Cardinality(Pending(d)) + SumFunctionOnSet(Foreseen(Actual), Settled(d)) <= Cap

(***************************************************************************)
(* The cap on real money: on a day on which no reservation was let go      *)
(* after its agent ran, the true cost of the runs reserved that day,       *)
(* metered or not, exceeds the cap by no more than those excesses          *)
(* (SettleGlobal).                                                         *)
(***************************************************************************)
SpentWithinCap ==
  \A d \in 0..Day(MaxTime) :
    (\A r \in Reserved(d) : ~LetGo(r)) => SumFunctionOnSet(Foreseen(owed), Reserved(d)) <= Cap

(* The cap holds for what is reserved and for what is really spent, up to  *)
(* the excesses.                                                           *)
CapHolds == ReservedWithinCap /\ SpentWithinCap

InFlight == {r \in Batch : pc[r] \notin {"start", "skipped", "closed", "failed"}}

(***************************************************************************)
(* The accountant is exact: what it holds pending are the estimates of the *)
(* jobs in flight, and what it calls spent is the ledger's total at its    *)
(* start and the recorded cost of the jobs that returned without an error  *)
(* (Accountant), in every interleaving of its workers.                     *)
(***************************************************************************)
AccountExact ==
  acct.open /\ (\A r \in Batch : pc[r] # "dead") =>
    /\ acct.pending = Estimate * Cardinality(InFlight)
    /\ acct.spent = baseline + SumFunctionOnSet(Cost, {r \in Batch : pc[r] = "closed"})

(* For the model checker: the jobs of a batch are alike.                   *)
JobSymmetry == Permutations(Batch)

-----------------------------------------------------------------------------
(* What the repository says of the cap, and the code does not keep.        *)

(* reservation.go (SettleGlobal): the cost of a run whose reservation was  *)
(* settled, released or expired concurrently is no longer lost.  So a cost *)
(* that is in the runs table counts in the sum that ReserveGlobal weighs.  *)
CostStaysCounted ==
  \A r \in Runs : row[r].status = "closed" /\ row[r].cost > 0 =>
    \/ r \notin Reserved(row[r].day)
    \/ resv[r].state \in {"pending", "settled"}

=============================================================================
