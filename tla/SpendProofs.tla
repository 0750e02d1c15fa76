---------------------------- MODULE SpendProofs ----------------------------
(* The spend cap for every number of runs, every estimate, cap and clock.  *)
EXTENDS Spend, Sums

-----------------------------------------------------------------------------
(* The invariant                                                           *)

States == {"none", "pending", "settled", "released", "expired"}

Steps == {"start", "check", "reserve", "insert", "created", "working", "audited", "settle",
          "halt", "leaving", "failing", "done", "error", "skipped", "closed", "failed", "dead"}

Kinds == {"settle", "release", "halt"}

(* A row of spend_reservations, and one of runs.                           *)
Resvs == [state : States, day : Nat, expires : Nat, actual : Nat]
Rows == [status : {"none", "RUNNING", "closed"}, day : Nat, cost : Nat]
Accts == [open : BOOLEAN, spent : Nat, pending : Nat]

ResvTypes == resv \in [Runs -> Resvs]
RowTypes == row \in [Runs -> Rows]
PcTypes == pc \in [Runs -> Steps]
AcctTypes == acct \in Accts /\ baseline \in Nat
QueueTypes == queued \in [Runs -> SUBSET Kinds]
AgentTypes == owed \in [Runs -> Nat] /\ metered \in [Runs -> BOOLEAN]
TimeTypes == clock \in Nat /\ at \in [Runs -> Nat]

Types == /\ ResvTypes /\ RowTypes /\ PcTypes /\ AcctTypes /\ QueueTypes
         /\ AgentTypes /\ TimeTypes

(* A day is a natural number.                                              *)
LEMMA DayType == \A t \in Nat : Day(t) \in Nat
BY SpendAssumption DEF Day

Unreserved == {"start", "check", "reserve", "insert"}
Unsettled == Unreserved \cup {"created", "working", "audited"}

(* A charge that covers a cost, up to the estimate.                        *)
Covering(charge, cost) == cost <= charge \/ Estimate <= charge

(***************************************************************************)
(* What the reservation of a run covers: a run that can still settle will  *)
(* settle at no less than it owes, up to its estimate, and one that has    *)
(* settled did.                                                            *)
(***************************************************************************)
Covers(r) ==
  /\ pc[r] \in Unreserved => resv[r].state = "none" /\ owed[r] = 0
  /\ pc[r] \in Unsettled => resv[r].state # "settled" /\ "settle" \notin queued[r]
  /\ pc[r] = "settle" \/ "settle" \in queued[r] => Covering(Charge(r), owed[r])
  /\ resv[r].state = "settled" => Covering(resv[r].actual, owed[r])

Covered == \A r \in Runs : Covers(r)

(* What the reservation of a run weighs on a day, up to its estimate, and  *)
(* in full, which is what ReserveGlobal weighs.                            *)
Weigh(d, actual) ==
  [r \in Runs |-> IF resv[r].day # d THEN 0
                  ELSE IF resv[r].state = "pending" THEN Estimate
                  ELSE IF resv[r].state = "settled" THEN actual[r]
                  ELSE 0]

Weight(d) == Weigh(d, Foreseen(Actual))
FullWeight(d) == Weigh(d, Actual)

Within == \A d \in Nat : SumFunctionOnSet(Weight(d), Runs) <= Cap

(* The books of the accountant, and when its jobs start.                   *)
Books ==
  /\ ~acct.open => \A r \in Batch : pc[r] = "start"
  /\ AccountExact

-----------------------------------------------------------------------------
(* The actions keep the types.                                             *)

(* The sums the ledger is asked for are natural numbers.                   *)
LEMMA LedgerSums ==
  ASSUME Types
  PROVE  /\ Cost \in [Runs -> Nat] /\ Actual \in [Runs -> Nat]
         /\ Foreseen(Actual) \in [Runs -> Nat] /\ Foreseen(owed) \in [Runs -> Nat]
         /\ \A d \in Nat : Weight(d) \in [Runs -> Nat] /\ FullWeight(d) \in [Runs -> Nat]
         /\ \A S \in SUBSET Runs : IsFiniteSet(S) /\ SumFunctionOnSet(Cost, S) \in Nat
         /\ \A d : DaySpend(d) \in Nat
<1>1. Cost \in [Runs -> Nat] /\ Actual \in [Runs -> Nat]
  BY DEF Types, ResvTypes, RowTypes, Resvs, Rows, Cost, Actual
<1>5. Foreseen(Actual) \in [Runs -> Nat] /\ Foreseen(owed) \in [Runs -> Nat]
  BY <1>1, SpendAssumption DEF Types, AgentTypes, Foreseen
<1>2. \A d \in Nat : Weight(d) \in [Runs -> Nat] /\ FullWeight(d) \in [Runs -> Nat]
  BY <1>1, <1>5, SpendAssumption DEF Weight, FullWeight, Weigh
<1>3. \A S \in SUBSET Runs : IsFiniteSet(S) /\ SumFunctionOnSet(Cost, S) \in Nat
  BY <1>1, SpendAssumption, FS_Subset, SumNat
<1>4. \A d : DaySpend(d) \in Nat
  BY <1>3 DEF DaySpend, Closed
<1> QED BY <1>1, <1>2, <1>3, <1>4, <1>5

(* What the statements of an action do, with the records written out.      *)

(* A run goes to another step.                                             *)
LEMMA GotoEffect ==
  ASSUME PcTypes, NEW r \in Runs, NEW step \in Steps, Goto(r, step)
  PROVE  /\ PcTypes' /\ pc'[r] = step
         /\ \A x \in Runs \ {r} : pc'[x] = pc[x]
BY DEF PcTypes, Goto

(* The row of a run is written.                                            *)
LEMMA RowEffect ==
  ASSUME RowTypes, NEW r \in Runs, NEW v \in Rows, row' = [row EXCEPT ![r] = v]
  PROVE  RowTypes' /\ row'[r] = v /\ \A x \in Runs \ {r} : row'[x] = row[x]
BY DEF RowTypes

(* The two columns of a completion row.                                    *)
LEMMA CompletionEffect ==
  ASSUME RowTypes, NEW r \in Runs, NEW c \in Nat,
         row' = [row EXCEPT ![r].status = "closed", ![r].cost = c]
  PROVE  /\ RowTypes' /\ row'[r] = [status |-> "closed", day |-> row[r].day, cost |-> c]
         /\ \A x \in Runs \ {r} : row'[x] = row[x]
<1> DEFINE v == [status |-> "closed", day |-> row[r].day, cost |-> c]
<1>1. row[r] \in Rows
  BY DEF RowTypes
<1>2. v \in Rows
  BY <1>1 DEF Rows
<1>3. row' = [row EXCEPT ![r] = v]
  <2>1. [row[r] EXCEPT !.status = "closed", !.cost = c] = v
    <3> DEFINE u == [status |-> "closed", day |-> row[r].day, cost |-> row[r].cost]
    <3>1. [row[r] EXCEPT !.status = "closed"] = u
      BY <1>1 DEF Rows
    <3>2. [u EXCEPT !.cost = c] = v
      OBVIOUS
    <3>3. [row[r] EXCEPT !.status = "closed", !.cost = c]
            = [[row[r] EXCEPT !.status = "closed"] EXCEPT !.cost = c]
      OBVIOUS
    <3> HIDE DEF u, v
    <3> QED BY <3>1, <3>2, <3>3
  <2>2. row' = [row EXCEPT ![r] = [row[r] EXCEPT !.status = "closed", !.cost = c]]
    BY DEF RowTypes
  <2> QED BY <2>1, <2>2
<1> QED BY <1>2, <1>3, RowEffect

(* The status of a recovered run.                                          *)
LEMMA ClosedEffect ==
  ASSUME RowTypes, NEW r \in Runs, row' = [row EXCEPT ![r].status = "closed"]
  PROVE  /\ RowTypes' /\ row'[r] = [status |-> "closed", day |-> row[r].day, cost |-> row[r].cost]
         /\ \A x \in Runs \ {r} : row'[x] = row[x]
<1> DEFINE v == [status |-> "closed", day |-> row[r].day, cost |-> row[r].cost]
<1>1. row[r] \in Rows
  BY DEF RowTypes
<1>2. v \in Rows
  BY <1>1 DEF Rows
<1>3. row' = [row EXCEPT ![r] = v]
  <2>1. [row[r] EXCEPT !.status = "closed"] = v
    BY <1>1 DEF Rows
  <2>2. row' = [row EXCEPT ![r] = [row[r] EXCEPT !.status = "closed"]]
    BY DEF RowTypes
  <2> QED BY <2>1, <2>2
<1> QED BY <1>2, <1>3, RowEffect

(* A refused run.                                                          *)
LEMMA RefusedEffect ==
  ASSUME RowTypes, PcTypes, TimeTypes, NEW r \in Runs, Refused(r)
  PROVE  /\ RowTypes' /\ row'[r].cost = 0 /\ \A x \in Runs \ {r} : row'[x] = row[x]
         /\ PcTypes' /\ pc'[r] = "done" /\ \A x \in Runs \ {r} : pc'[x] = pc[x]
<1> DEFINE v == [status |-> "closed", day |-> Day(clock), cost |-> 0]
<1>1. v \in Rows
  BY DayType DEF Rows, TimeTypes
<1>2. row' = [row EXCEPT ![r] = v] /\ Goto(r, "done")
  BY DEF Refused
<1>3. RowTypes' /\ row'[r] = v /\ \A x \in Runs \ {r} : row'[x] = row[x]
  BY <1>1, <1>2, RowEffect
<1>4. "done" \in Steps
  BY DEF Steps
<1> QED BY <1>2, <1>3, <1>4, GotoEffect

(* A reservation is written.                                               *)
LEMMA ResvEffect ==
  ASSUME ResvTypes, NEW r \in Runs, NEW v \in Resvs, resv' = [resv EXCEPT ![r] = v]
  PROVE  ResvTypes' /\ resv'[r] = v /\ \A x \in Runs \ {r} : resv'[x] = resv[x]
BY DEF ResvTypes

(* A settlement.                                                           *)
LEMMA SettleEffect ==
  ASSUME ResvTypes, NEW r \in Runs, Charge(r) \in Nat, Settle(r)
  PROVE  /\ ResvTypes' /\ \A x \in Runs \ {r} : resv'[x] = resv[x]
         /\ resv'[r] = IF resv[r].state = "pending"
                       THEN [state |-> "settled", day |-> resv[r].day,
                             expires |-> resv[r].expires, actual |-> Charge(r)]
                       ELSE resv[r]
<1> DEFINE v == [state |-> "settled", day |-> resv[r].day,
                 expires |-> resv[r].expires, actual |-> Charge(r)]
<1>1. resv[r] \in Resvs
  BY DEF ResvTypes
<1>2. v \in Resvs
  BY <1>1 DEF Resvs, States
<1>3. CASE resv[r].state = "pending"
  <2>1. resv' = [resv EXCEPT ![r] = v]
    <3>1. [resv[r] EXCEPT !.state = "settled", !.actual = Charge(r)] = v
      <4> DEFINE u == [state |-> "settled", day |-> resv[r].day,
                       expires |-> resv[r].expires, actual |-> resv[r].actual]
      <4>1. [resv[r] EXCEPT !.state = "settled"] = u
        BY <1>1 DEF Resvs
      <4>2. [u EXCEPT !.actual = Charge(r)] = v
        OBVIOUS
      <4>3. [resv[r] EXCEPT !.state = "settled", !.actual = Charge(r)]
              = [[resv[r] EXCEPT !.state = "settled"] EXCEPT !.actual = Charge(r)]
        OBVIOUS
      <4> HIDE DEF u, v
      <4> QED BY <4>1, <4>2, <4>3
    <3>2. resv' = [resv EXCEPT ![r] = [resv[r] EXCEPT !.state = "settled", !.actual = Charge(r)]]
      BY <1>3 DEF Settle, ResvTypes
    <3> QED BY <3>1, <3>2
  <2> QED BY <1>2, <1>3, <2>1, ResvEffect
<1>4. CASE resv[r].state # "pending"
  BY <1>4 DEF Settle, ResvTypes
<1> QED BY <1>3, <1>4

(* A release.                                                              *)
LEMMA ReleaseEffect ==
  ASSUME ResvTypes, NEW r \in Runs, Release(r)
  PROVE  /\ ResvTypes' /\ \A x \in Runs \ {r} : resv'[x] = resv[x]
         /\ resv'[r] = IF resv[r].state = "pending"
                       THEN [state |-> "released", day |-> resv[r].day,
                             expires |-> resv[r].expires, actual |-> resv[r].actual]
                       ELSE resv[r]
<1> DEFINE v == [state |-> "released", day |-> resv[r].day,
                 expires |-> resv[r].expires, actual |-> resv[r].actual]
<1>1. resv[r] \in Resvs
  BY DEF ResvTypes
<1>2. v \in Resvs
  BY <1>1 DEF Resvs, States
<1>3. CASE resv[r].state = "pending"
  <2>1. resv' = [resv EXCEPT ![r] = v]
    <3>1. [resv[r] EXCEPT !.state = "released"] = v
      BY <1>1 DEF Resvs
    <3>2. resv' = [resv EXCEPT ![r] = [resv[r] EXCEPT !.state = "released"]]
      BY <1>3 DEF Release, ResvTypes
    <3> QED BY <3>1, <3>2
  <2> QED BY <1>2, <1>3, <2>1, ResvEffect
<1>4. CASE resv[r].state # "pending"
  BY <1>4 DEF Release, ResvTypes
<1> QED BY <1>3, <1>4

(* expireStaleReservations.                                                *)
LEMMA ExpireEffect ==
  ASSUME ResvTypes,
         resv' = [x \in Runs |->
           IF x \in Stale(clock) THEN [resv[x] EXCEPT !.state = "expired"] ELSE resv[x]]
  PROVE  /\ ResvTypes'
         /\ \A x \in Runs : resv'[x] = resv[x] \/ (resv'[x].state = "expired" /\ x \in Stale(clock))
<1>1. ASSUME NEW x \in Runs
      PROVE  /\ resv'[x] \in Resvs
             /\ resv'[x] = resv[x] \/ (resv'[x].state = "expired" /\ x \in Stale(clock))
  <2> DEFINE e == [resv[x] EXCEPT !.state = "expired"]
  <2>1. resv[x] \in Resvs
    BY DEF ResvTypes
  <2>2. e = [state |-> "expired", day |-> resv[x].day, expires |-> resv[x].expires,
                  actual |-> resv[x].actual]
    BY <2>1 DEF Resvs
  <2>3. e \in Resvs
    BY <2>1, <2>2 DEF Resvs, States
  <2>4. e.state = "expired"
    BY <2>2
  <2>5. resv'[x] = IF x \in Stale(clock) THEN e ELSE resv[x]
    OBVIOUS
  <2> HIDE DEF e
  <2> QED BY <2>1, <2>3, <2>4, <2>5
<1>2. resv' \in [Runs -> Resvs]
  BY <1>1
<1> QED BY <1>1, <1>2 DEF ResvTypes

(* An operation is queued, or leaves the queue.                            *)
LEMMA QueueEffect ==
  ASSUME QueueTypes, NEW r \in Runs, NEW q \in SUBSET Kinds,
         queued' = [queued EXCEPT ![r] = q]
  PROVE  QueueTypes' /\ queued'[r] = q /\ \A x \in Runs \ {r} : queued'[x] = queued[x]
BY DEF QueueTypes

(* What a run settles at is a natural number.                              *)
LEMMA ChargeType ==
  ASSUME RowTypes
  PROVE  \A r \in Runs : Charge(r) \in Nat
BY SpendAssumption DEF RowTypes, Rows, Charge

(* The totals of the accountant.                                           *)
LEMMA AcctEffect ==
  ASSUME AcctTypes, NEW p \in Nat, NEW q \in Nat, UNCHANGED baseline,
         acct' = [acct EXCEPT !.pending = p, !.spent = q]
  PROVE  /\ AcctTypes'
         /\ acct'.pending = p /\ acct'.spent = q /\ acct'.open = acct.open
<1> DEFINE u == [open |-> acct.open, spent |-> acct.spent, pending |-> p]
           v == [open |-> acct.open, spent |-> q, pending |-> p]
<1>1. [acct EXCEPT !.pending = p] = u
  BY DEF AcctTypes, Accts
<1>2. [u EXCEPT !.spent = q] = v
  OBVIOUS
<1>3. acct' = [[acct EXCEPT !.pending = p] EXCEPT !.spent = q]
  OBVIOUS
<1>4. v \in Accts
  BY DEF AcctTypes, Accts
<1>5. v.pending = p /\ v.spent = q /\ v.open = acct.open
  OBVIOUS
<1> HIDE DEF u, v
<1> QED BY <1>1, <1>2, <1>3, <1>4, <1>5 DEF AcctTypes

(* What Accountant.Settle leaves pending and adds to what is spent.        *)
LEMMA AccountantEffect ==
  ASSUME AcctTypes, RowTypes, NEW r \in Runs, AccountantSettle(r)
  PROVE  /\ AcctTypes' /\ acct'.open = acct.open
         /\ acct'.pending = IF acct.pending < Estimate THEN 0 ELSE acct.pending - Estimate
         /\ acct'.spent = acct.spent + IF pc[r] = "error" THEN 0 ELSE row[r].cost
<1> DEFINE p == IF acct.pending < Estimate THEN 0 ELSE acct.pending - Estimate
           q == acct.spent + IF pc[r] = "error" THEN 0 ELSE row[r].cost
<1>1. row[r].cost \in Nat /\ acct.pending \in Nat /\ acct.spent \in Nat /\ Estimate \in Nat
  BY SpendAssumption DEF RowTypes, Rows, AcctTypes, Accts
<1>2. p \in Nat /\ q \in Nat
  BY <1>1
<1>3. (IF acct.pending - Estimate < 0 THEN 0 ELSE acct.pending - Estimate) = p
  BY <1>1
<1>4. UNCHANGED baseline /\ acct' = [acct EXCEPT !.pending = p, !.spent = q]
  BY <1>3 DEF AccountantSettle
<1> HIDE DEF p, q
<1>5. AcctTypes' /\ acct'.pending = p /\ acct'.spent = q /\ acct'.open = acct.open
  BY <1>2, <1>4, AcctEffect
<1> QED BY <1>5 DEF p, q

(* What does not change keeps its types.                                   *)
LEMMA TypeFrames ==
  /\ ResvTypes /\ UNCHANGED resv => ResvTypes'
  /\ RowTypes /\ UNCHANGED row => RowTypes'
  /\ PcTypes /\ UNCHANGED pc => PcTypes'
  /\ AcctTypes /\ UNCHANGED <<acct, baseline>> => AcctTypes'
  /\ QueueTypes /\ UNCHANGED queued => QueueTypes'
  /\ AgentTypes /\ UNCHANGED <<owed, metered>> => AgentTypes'
  /\ TimeTypes /\ UNCHANGED <<clock, at>> => TimeTypes'
BY DEF ResvTypes, RowTypes, PcTypes, AcctTypes, QueueTypes, AgentTypes, TimeTypes

(* Every step keeps the types.                                             *)
LEMMA StepTypes ==
  ASSUME Types, Next
  PROVE  Types'
<1> USE TypeFrames, SpendAssumption, DayType, GotoEffect, RefusedEffect, SettleEffect,
    ReleaseEffect, ExpireEffect, ChargeType
<1> USE DEF Types, Steps, world
<1>1. CASE NewAccountant
  <2>1. DaySpend(Day(clock)) \in Nat
    BY LedgerSums
  <2>2. AcctTypes'
    BY <1>1, <2>1 DEF NewAccountant, AcctTypes, Accts
  <2> QED BY <1>1, <2>2 DEF NewAccountant
<1>2. CASE Operator
  BY <1>2 DEF Operator
<1>3. CASE Tick
  BY <1>3 DEF Tick, TimeTypes
<1>4. ASSUME NEW r \in Runs, Step(r) PROVE Types'
  <2>1. CASE AccountantReserve(r)
    <3>1. AcctTypes'
      BY <2>1 DEF AccountantReserve, AcctTypes, Accts
    <3> QED BY <1>4, <2>1, <3>1 DEF AccountantReserve
  <2>2. CASE AccountantSettle(r)
    BY <1>4, <2>2, AccountantEffect DEF AccountantSettle
  <2>3. CASE Begin(r)
    BY <1>4, <2>3 DEF Begin
  <2>4. CASE CheckBudget(r)
    BY <1>4, <2>4 DEF CheckBudget
  <2>5. CASE ReserveGlobal(r)
    <3>1. TimeTypes'
      BY <2>5, <1>4 DEF ReserveGlobal, TimeTypes
    <3> QED BY <1>4, <2>5, <3>1 DEF ReserveGlobal
  <2>6. CASE ReserveInsert(r)
    <3> DEFINE v == [state |-> "pending", day |-> Day(at[r]), expires |-> at[r] + TTL,
                     actual |-> 0]
    <3>1. TimeTypes' /\ at[r] \in Nat
      BY <2>6, <1>4 DEF ReserveInsert, TimeTypes
    <3>2. v \in Resvs
      BY <3>1 DEF Resvs, States
    <3>3. resv' = resv \/ resv' = [resv EXCEPT ![r] = v]
      BY <2>6 DEF ReserveInsert
    <3>4. ResvTypes'
      BY <1>4, <3>2, <3>3, ResvEffect
    <3>5. RowTypes' /\ PcTypes'
      BY <1>4, <2>6 DEF ReserveInsert
    <3> QED BY <1>4, <2>6, <3>1, <3>4, <3>5 DEF ReserveInsert
  <2>7. CASE Launch(r)
    <3>1. \A s \in {"RUNNING", "closed"} : [status |-> s, day |-> Day(clock), cost |-> 0] \in Rows
      BY DEF Rows, TimeTypes
    <3>2. RowTypes'
      BY <1>4, <2>7, <3>1, RowEffect DEF Launch
    <3> QED BY <1>4, <2>7, <3>2 DEF Launch
  <2>8. CASE \E cost \in Costs : AgentEnds(r, cost)
    <3>1. AgentTypes'
      BY <1>4, <2>8 DEF AgentEnds, AgentTypes
    <3> QED BY <1>4, <2>8, <3>1 DEF AgentEnds
  <2>9. CASE UpdateRun(r)
    <3>1. (IF metered[r] THEN owed[r] ELSE 0) \in Nat
      BY <1>4 DEF AgentTypes
    <3>2. RowTypes'
      BY <1>4, <2>9, <3>1, CompletionEffect DEF UpdateRun
    <3> QED BY <1>4, <2>9, <3>2 DEF UpdateRun
  <2>10. CASE ErrorReturn(r)
    BY <1>4, <2>10 DEF ErrorReturn
  <2>11. CASE SettleGlobal(r)
    BY <1>4, <2>11 DEF SettleGlobal
  <2>12. CASE SettleFails(r)
    <3>1. QueueTypes'
      <4>1. queued[r] \cup {"settle"} \in SUBSET Kinds
        BY <1>4 DEF QueueTypes, Kinds
      <4> QED BY <1>4, <2>12, <4>1, QueueEffect DEF SettleFails
    <3> QED BY <1>4, <2>12, <3>1 DEF SettleFails
  <2>13. CASE ReleaseGlobal(r)
    <3>1. QueueTypes'
      <4>1. queued[r] \cup {"release"} \in SUBSET Kinds
        BY <1>4 DEF QueueTypes, Kinds
      <4> QED BY <1>4, <2>13, <4>1, QueueEffect DEF ReleaseGlobal
    <3> QED BY <1>4, <2>13, <3>1 DEF ReleaseGlobal
  <2>14. CASE MaybeHalt(r)
    <3>1. QueueTypes'
      <4>1. queued[r] \cup {"halt"} \in SUBSET Kinds
        BY <1>4 DEF QueueTypes, Kinds
      <4> QED BY <1>4, <2>14, <4>1, QueueEffect DEF MaybeHalt
    <3> QED BY <1>4, <2>14, <3>1 DEF MaybeHalt
  <2>15. CASE Crash(r)
    <3>1. PcTypes'
      BY <2>15 DEF Crash, PcTypes
    <3> QED BY <1>4, <2>15, <3>1 DEF Crash
  <2>16. CASE Recover(r)
    <3>1. RowTypes'
      BY <1>4, <2>16, ClosedEffect DEF Recover
    <3> QED BY <1>4, <2>16, <3>1 DEF Recover
  <2>17. CASE \E kind \in {"settle", "release", "halt"} : Replay(r, kind)
    <3> PICK kind \in Kinds : Replay(r, kind)
      BY <2>17 DEF Kinds
    <3>1. QueueTypes'
      <4>1. queued[r] \ {kind} \in SUBSET Kinds
        BY <1>4 DEF QueueTypes
      <4> QED BY <1>4, <4>1, QueueEffect DEF Replay
    <3>2. ResvTypes'
      BY <1>4 DEF Replay, Kinds
    <3> QED BY <1>4, <3>1, <3>2 DEF Replay
  <2> QED BY <1>4, <2>1, <2>2, <2>3, <2>4, <2>5, <2>6, <2>7, <2>8, <2>9,
             <2>10, <2>11, <2>12, <2>13, <2>14, <2>15, <2>16, <2>17 DEF Step
<1> QED BY <1>1, <1>2, <1>3, <1>4 DEF Next

-----------------------------------------------------------------------------
(* The reservations cover what agents cost                                 *)

(* What the steps that touch reservations do to each run, field by field.  *)

(* The completion row.                                                     *)
LEMMA UpdateRunEffect ==
  ASSUME Types, NEW r \in Runs, UpdateRun(r)
  PROVE  /\ row'[r].cost = IF metered[r] THEN owed[r] ELSE 0
         /\ row'[r].status = "closed"
         /\ \A x \in Runs \ {r} : row'[x] = row[x]
         /\ pc'[r] = "settle" /\ \A x \in Runs \ {r} : pc'[x] = pc[x]
<1> DEFINE c == IF metered[r] THEN owed[r] ELSE 0
<1>1. c \in Nat
  BY DEF Types, AgentTypes
<1>2. /\ row' = [row EXCEPT ![r].status = "closed", ![r].cost = c]
      /\ Goto(r, "settle") /\ RowTypes /\ PcTypes /\ "settle" \in Steps
  BY DEF UpdateRun, Types, Steps
<1> HIDE DEF c
<1> DEFINE v == [status |-> "closed", day |-> row[r].day, cost |-> c]
<1>3. v.cost = c /\ v.status = "closed"
  OBVIOUS
<1>4. row'[r] = v /\ \A x \in Runs \ {r} : row'[x] = row[x]
  BY <1>1, <1>2, CompletionEffect
<1> HIDE DEF v
<1>5. pc'[r] = "settle" /\ \A x \in Runs \ {r} : pc'[x] = pc[x]
  BY <1>2, GotoEffect
<1> QED BY <1>3, <1>4, <1>5 DEF c

(* A settlement, by the run or by a replay.                                *)
LEMMA SettleFields ==
  ASSUME Types, NEW r \in Runs, Settle(r)
  PROVE  /\ \A x \in Runs \ {r} : resv'[x] = resv[x]
         /\ \/ resv'[r] = resv[r] /\ resv[r].state # "pending"
            \/ /\ resv[r].state = "pending" /\ resv'[r].state = "settled"
               /\ resv'[r].day = resv[r].day /\ resv'[r].actual = Charge(r)
<1> DEFINE v == [state |-> "settled", day |-> resv[r].day,
                 expires |-> resv[r].expires, actual |-> Charge(r)]
<1>1. v.state = "settled" /\ v.day = resv[r].day /\ v.actual = Charge(r)
  OBVIOUS
<1>2. /\ \A x \in Runs \ {r} : resv'[x] = resv[x]
      /\ resv'[r] = IF resv[r].state = "pending" THEN v ELSE resv[r]
  BY SettleEffect, ChargeType DEF Types
<1> HIDE DEF v
<1> QED BY <1>1, <1>2

(* A release, by the run, by a replay or by recovery.                      *)
LEMMA ReleaseFields ==
  ASSUME Types, NEW r \in Runs, Release(r)
  PROVE  /\ \A x \in Runs \ {r} : resv'[x] = resv[x]
         /\ \/ resv'[r] = resv[r]
            \/ resv[r].state = "pending" /\ resv'[r].state = "released"
<1> DEFINE v == [state |-> "released", day |-> resv[r].day,
                 expires |-> resv[r].expires, actual |-> resv[r].actual]
<1>1. v.state = "released"
  OBVIOUS
<1>2. /\ \A x \in Runs \ {r} : resv'[x] = resv[x]
      /\ resv'[r] = IF resv[r].state = "pending" THEN v ELSE resv[r]
  BY ReleaseEffect DEF Types
<1> HIDE DEF v
<1> QED BY <1>1, <1>2

(* The moves of a run that settles, releases, recovers or reserves.        *)
LEMMA MoveFields ==
  ASSUME Types, NEW r \in Runs
  PROVE  /\ SettleGlobal(r) => pc'[r] = "halt" /\ \A x \in Runs \ {r} : pc'[x] = pc[x]
         /\ ReleaseGlobal(r) => pc'[r] \in {"done", "error"} /\ \A x \in Runs \ {r} : pc'[x] = pc[x]
         /\ ReserveGlobal(r) =>
              pc'[r] \in {"done", "insert"} /\ \A x \in Runs \ {r} : pc'[x] = pc[x]
<1> USE DEF Types, Steps
<1>1. ASSUME SettleGlobal(r) PROVE pc'[r] = "halt" /\ \A x \in Runs \ {r} : pc'[x] = pc[x]
  BY <1>1, GotoEffect DEF SettleGlobal
<1>2. ASSUME ReleaseGlobal(r)
      PROVE  pc'[r] \in {"done", "error"} /\ \A x \in Runs \ {r} : pc'[x] = pc[x]
  BY <1>2, GotoEffect DEF ReleaseGlobal
<1>3. ASSUME ReserveGlobal(r)
      PROVE  pc'[r] \in {"done", "insert"} /\ \A x \in Runs \ {r} : pc'[x] = pc[x]
  BY <1>3, GotoEffect, RefusedEffect DEF ReserveGlobal
<1> QED BY <1>1, <1>2, <1>3

(* What the queue of a run may gain or lose.                               *)
LEMMA QueueFields ==
  ASSUME Types, NEW r \in Runs
  PROVE  /\ ReleaseGlobal(r) => \A x \in Runs : "settle" \in queued'[x] => "settle" \in queued[x]
         /\ \A kind \in Kinds : Replay(r, kind) =>
              /\ kind \in queued[r]
              /\ \A x \in Runs : queued'[x] \subseteq queued[x]
<1> USE DEF Types
<1>1. ASSUME ReleaseGlobal(r), NEW x \in Runs, "settle" \in queued'[x] PROVE "settle" \in queued[x]
  <2>1. queued[r] \cup {"release"} \in SUBSET Kinds
    BY DEF QueueTypes, Kinds
  <2> QED BY <1>1, <2>1, QueueEffect DEF ReleaseGlobal
<1>2. ASSUME NEW kind \in Kinds, Replay(r, kind)
      PROVE  kind \in queued[r] /\ \A x \in Runs : queued'[x] \subseteq queued[x]
  <2>1. queued[r] \ {kind} \in SUBSET Kinds
    BY DEF QueueTypes
  <2> QED BY <1>2, <2>1, QueueEffect DEF Replay
<1> QED BY <1>1, <1>2

(* A run whose reservation at most lapses and which does not come to       *)
(* settle stays covered.                                                   *)
Lapses(x) ==
  /\ owed'[x] = owed[x] /\ metered'[x] = metered[x] /\ row'[x].cost = row[x].cost
  /\ "settle" \in queued'[x] => "settle" \in queued[x]
  /\ pc'[x] = pc[x] \/ pc'[x] \notin Unsettled \cup {"settle"}
  /\ \/ resv'[x] = resv[x]
     \/ resv[x].state = "pending" /\ resv'[x].state \in {"released", "expired"}

LEMMA LapseCovers ==
  ASSUME Covered, NEW x \in Runs, Lapses(x)
  PROVE  Covers(x)'
BY DEF Covered, Covers, Covering, Lapses, Charge, Unsettled, Unreserved

(* The completion row makes the charge what the agent owes.                *)
LEMMA UpdateRunCovers ==
  ASSUME Types, Covered, NEW r \in Runs, UpdateRun(r)
  PROVE  Covered'
<1>1. UNCHANGED <<resv, owed, metered, queued>>
  BY DEF UpdateRun, world
<1>2. ASSUME NEW x \in Runs \ {r} PROVE Covers(x)'
  BY <1>1, <1>2, UpdateRunEffect, LapseCovers DEF Lapses
<1>3. Covers(r)'
  <2>1. owed[r] \in Nat /\ Estimate \in Nat /\ metered[r] \in BOOLEAN
    BY SpendAssumption DEF Types, AgentTypes
  <2>2. Covers(r) /\ pc[r] = "audited"
    BY DEF Covered, UpdateRun
  <2> QED BY <1>1, <2>1, <2>2, UpdateRunEffect DEF Covers, Covering, Charge, Unsettled, Unreserved
<1> QED BY <1>2, <1>3 DEF Covered

(* A settlement that covers what the run owes.                             *)
LEMMA SettleCovers ==
  ASSUME Types, Covered, NEW r \in Runs, Settle(r), UNCHANGED <<owed, metered, row>>,
         pc[r] = "settle" \/ "settle" \in queued[r],
         \A x \in Runs : queued'[x] \subseteq queued[x],
         \A x \in Runs \ {r} : pc'[x] = pc[x],
         pc'[r] = pc[r] \/ (pc[r] = "settle" /\ pc'[r] = "halt")
  PROVE  Covered'
<1>1. ASSUME NEW x \in Runs \ {r} PROVE Covers(x)'
  BY <1>1, SettleFields, LapseCovers DEF Lapses
<1>2. Covers(r)'
  <2>1. owed[r] \in Nat /\ Estimate \in Nat /\ row[r].cost \in Nat
    BY SpendAssumption DEF Types, AgentTypes, RowTypes, Rows
  <2>2. Covers(r)
    BY DEF Covered
  <2>3. Charge(r)' = Charge(r) /\ Covering(Charge(r), owed[r])
    BY <2>1, <2>2 DEF Charge, Covers
  <2>4. pc[r] \notin Unsettled /\ pc'[r] \notin Unsettled /\ pc[r] \notin Unreserved
                              /\ pc'[r] \notin Unreserved
    BY <2>2 DEF Covers, Unsettled, Unreserved
  <2> QED BY <2>1, <2>2, <2>3, <2>4, SettleFields DEF Covers
<1> QED BY <1>1, <1>2 DEF Covered

(* A release that leaves a run where it cannot settle by itself any more.  *)
LEMMA ReleaseCovers ==
  ASSUME Types, Covered, NEW r \in Runs, Release(r) \/ UNCHANGED resv,
         UNCHANGED <<owed, metered>>,
         \A x \in Runs : "settle" \in queued'[x] => "settle" \in queued[x],
         \A x \in Runs : row'[x].cost = row[x].cost,
         \A x \in Runs : pc'[x] = pc[x] \/ pc'[x] \in {"done", "error"}
  PROVE  Covered'
<1>1. ASSUME NEW x \in Runs PROVE Covers(x)'
  <2>1. Lapses(x)
    BY <1>1, ReleaseFields DEF Lapses, Unsettled, Unreserved
  <2> QED BY <2>1, LapseCovers
<1> QED BY <1>1 DEF Covered

(* A run that begins to reserve has no reservation that could expire.      *)
LEMMA ReserveCovers ==
  ASSUME Types, Covered, NEW r \in Runs, ReserveGlobal(r)
  PROVE  Covered'
<1>1. UNCHANGED <<owed, metered, queued>> /\ pc[r] = "reserve" /\ Covers(r)
  BY DEF ReserveGlobal, Covered
<1>2. CASE halted
  <2>1. UNCHANGED resv /\ Refused(r)
    BY <1>2 DEF ReserveGlobal
  <2>2. /\ row'[r].cost = 0 /\ \A x \in Runs \ {r} : row'[x] = row[x]
        /\ pc'[r] = "done" /\ \A x \in Runs \ {r} : pc'[x] = pc[x]
    BY <2>1, RefusedEffect DEF Types
  <2>3. \A x \in Runs \ {r} : Covers(x)'
    BY <1>1, <2>1, <2>2, LapseCovers DEF Lapses
  <2>4. Covers(r)'
    BY <1>1, <2>1, <2>2, SpendAssumption DEF Covers, Unsettled, Unreserved
  <2> QED BY <2>3, <2>4 DEF Covered
<1>3. CASE ~halted
  <2>1. UNCHANGED row /\ Goto(r, "insert") /\ "insert" \in Steps
    BY <1>3 DEF ReserveGlobal, Steps
  <2>2. pc'[r] = "insert" /\ \A x \in Runs \ {r} : pc'[x] = pc[x]
    BY <2>1, GotoEffect DEF Types
  <2>3. \A x \in Runs : \/ resv'[x] = resv[x]
                        \/ resv'[x].state = "expired" /\ resv[x].state = "pending"
    BY <1>3, ExpireEffect DEF ReserveGlobal, Types, Stale
  <2>4. \A x \in Runs \ {r} : Covers(x)'
    BY <1>1, <2>1, <2>2, <2>3, LapseCovers DEF Lapses
  <2>5. Covers(r)'
    BY <1>1, <2>1, <2>2, <2>3 DEF Covers, Charge, Unsettled, Unreserved
  <2> QED BY <2>4, <2>5 DEF Covered
<1> QED BY <1>2, <1>3

(* Every step keeps them covered.                                          *)
LEMMA StepCovered ==
  ASSUME Types, Covered, Next
  PROVE  Covered'
<1> USE DEF Types, Steps, Kinds, world
<1>1. CASE NewAccountant
  BY <1>1, SpendAssumption, GotoEffect, RefusedEffect DEF NewAccountant,
            Covered, Covers, Charge, Unsettled, Unreserved, Covering, AgentTypes, QueueTypes
<1>2. CASE Operator
  BY <1>2, SpendAssumption, GotoEffect, RefusedEffect DEF Operator,
            Covered, Covers, Charge, Unsettled, Unreserved, Covering, AgentTypes, QueueTypes
<1>3. CASE Tick
  BY <1>3, SpendAssumption, GotoEffect, RefusedEffect DEF Tick,
            Covered, Covers, Charge, Unsettled, Unreserved, Covering, AgentTypes, QueueTypes
<1>4. ASSUME NEW r \in Runs, Step(r) PROVE Covered'
  <2>1. CASE AccountantReserve(r)
    BY <1>4, <2>1, SpendAssumption, GotoEffect, RefusedEffect DEF AccountantReserve,
            Covered, Covers, Charge, Unsettled, Unreserved, Covering, AgentTypes, QueueTypes
  <2>2. CASE AccountantSettle(r)
    BY <1>4, <2>2, SpendAssumption, GotoEffect, RefusedEffect DEF AccountantSettle,
            Covered, Covers, Charge, Unsettled, Unreserved, Covering, AgentTypes, QueueTypes
  <2>3. CASE Begin(r)
    BY <1>4, <2>3, SpendAssumption, GotoEffect, RefusedEffect DEF Begin,
            Covered, Covers, Charge, Unsettled, Unreserved, Covering, AgentTypes, QueueTypes
  <2>4. CASE CheckBudget(r)
    BY <1>4, <2>4, SpendAssumption, GotoEffect, RefusedEffect DEF CheckBudget,
            Covered, Covers, Charge, Unsettled, Unreserved, Covering, AgentTypes, QueueTypes
  <2>5. CASE ReserveGlobal(r)
    BY <1>4, <2>5, ReserveCovers
  <2>6. CASE ReserveInsert(r)
    <3> DEFINE v == [state |-> "pending", day |-> Day(at[r]), expires |-> at[r] + TTL,
                     actual |-> 0]
    <3>1. v \in Resvs /\ v.state = "pending"
      BY <1>4, SpendAssumption, DayType DEF TimeTypes, Resvs, States
    <3>2. resv' = resv \/ resv' = [resv EXCEPT ![r] = v]
      BY <2>6 DEF ReserveInsert
    <3> HIDE DEF v
    <3>3. /\ resv'[r] \in {resv[r], v}
          /\ \A x \in Runs \ {r} : resv'[x] = resv[x]
      BY <1>4, <3>1, <3>2, ResvEffect
    <3>4. resv'[r].state # "settled"
      BY <1>4, <2>6, <3>1, <3>3 DEF ReserveInsert, Covered, Covers, Unreserved, Unsettled
    <3> QED BY <1>4, <2>6, <3>3, <3>4, SpendAssumption, GotoEffect, RefusedEffect
            DEF ReserveInsert, Covered, Covers, Charge, Unsettled, Unreserved
  <2>7. CASE Launch(r)
    <3>1. \A s \in {"RUNNING", "closed"} : [status |-> s, day |-> Day(clock), cost |-> 0] \in Rows
      BY DayType DEF Rows, TimeTypes
    <3>2. row'[r].cost = 0 /\ \A x \in Runs \ {r} : row'[x] = row[x]
      BY <1>4, <2>7, <3>1, RowEffect DEF Launch
    <3> QED BY <1>4, <2>7, <3>2, SpendAssumption, GotoEffect
            DEF Launch, Covered, Covers, Charge, Unsettled, Unreserved
  <2>8. CASE \E cost \in Costs : AgentEnds(r, cost)
    BY <1>4, <2>8, SpendAssumption, GotoEffect, RefusedEffect DEF AgentEnds,
            Covered, Covers, Charge, Unsettled, Unreserved, Covering, AgentTypes, QueueTypes
  <2>9. CASE UpdateRun(r)
    BY <1>4, <2>9, UpdateRunCovers
  <2>10. CASE ErrorReturn(r)
    BY <1>4, <2>10, SpendAssumption, GotoEffect, RefusedEffect DEF ErrorReturn,
            Covered, Covers, Charge, Unsettled, Unreserved, Covering, AgentTypes, QueueTypes
  <2>11. CASE SettleGlobal(r)
    <3>1. Settle(r) /\ UNCHANGED <<row, owed, metered, queued>> /\ pc[r] = "settle"
      BY <2>11 DEF SettleGlobal
    <3> QED BY <1>4, <2>11, <3>1, MoveFields, SettleCovers
  <2>12. CASE SettleFails(r)
    BY <1>4, <2>12, SpendAssumption, GotoEffect, RefusedEffect DEF SettleFails,
            Covered, Covers, Charge, Unsettled, Unreserved, Covering, AgentTypes, QueueTypes
  <2>13. CASE ReleaseGlobal(r)
    <3>1. (Release(r) \/ UNCHANGED resv) /\ UNCHANGED <<row, owed, metered>>
      BY <2>13 DEF ReleaseGlobal
    <3> QED BY <1>4, <2>13, <3>1, MoveFields, QueueFields, ReleaseCovers
  <2>14. CASE MaybeHalt(r)
    BY <1>4, <2>14, SpendAssumption, GotoEffect, RefusedEffect DEF MaybeHalt,
            Covered, Covers, Charge, Unsettled, Unreserved, Covering, AgentTypes, QueueTypes
  <2>15. CASE Crash(r)
    <3>1. UNCHANGED <<resv, row, owed, metered, queued>>
      BY <2>15 DEF Crash
    <3>2. \A x \in Runs : pc'[x] \in {pc[x], "dead"}
      BY <2>15 DEF Crash
    <3>3. \A x \in Runs : Lapses(x)
      BY <3>1, <3>2 DEF Lapses, Unsettled, Unreserved
    <3> QED BY <3>3, LapseCovers DEF Covered
  <2>16. CASE Recover(r)
    <3>1. Release(r) /\ UNCHANGED <<pc, owed, metered, queued>>
      BY <2>16 DEF Recover
    <3>2. row' = [row EXCEPT ![r].status = "closed"]
      BY <2>16 DEF Recover
    <3>3. \A x \in Runs : row'[x].cost = row[x].cost
      BY <1>4, <3>2, ClosedEffect
    <3> QED BY <1>4, <3>1, <3>3, ReleaseCovers
  <2>17. CASE \E kind \in {"settle", "release", "halt"} : Replay(r, kind)
    <3> PICK kind \in Kinds : Replay(r, kind)
      BY <2>17 DEF Kinds
    <3>1. /\ UNCHANGED <<row, owed, metered, pc>>
          /\ kind \in queued[r] /\ \A x \in Runs : queued'[x] \subseteq queued[x]
      BY <1>4, QueueFields DEF Replay
    <3>2. CASE kind = "settle"
      BY <1>4, <3>1, <3>2, SettleCovers DEF Replay
    <3>3. CASE kind # "settle"
      <4>1. Release(r) \/ UNCHANGED resv
        BY <3>3 DEF Replay, Kinds
      <4> QED BY <1>4, <3>1, <4>1, ReleaseCovers
    <3> QED BY <3>2, <3>3
  <2> QED BY <1>4, <2>1, <2>2, <2>3, <2>4, <2>5, <2>6, <2>7, <2>8, <2>9,
             <2>10, <2>11, <2>12, <2>13, <2>14, <2>15, <2>16, <2>17 DEF Step
<1> QED BY <1>1, <1>2, <1>3, <1>4 DEF Next

-----------------------------------------------------------------------------
(* The cap                                                                 *)

(* What a step does to reservations, unless it makes one: nothing, or it   *)
(* lets one go, or it settles a pending one.                               *)
Shrinks ==
  \A x \in Runs :
    \/ resv'[x] = resv[x]
    \/ resv'[x].state \in {"released", "expired"}
    \/ /\ resv[x].state = "pending" /\ resv'[x].state = "settled"
       /\ resv'[x].day = resv[x].day

(* The INSERT that finds room.                                             *)
Inserts(r, d) ==
  /\ resv[r].state = "none" /\ Committed(d) + Estimate <= Cap
  /\ resv'[r].state = "pending" /\ resv'[r].day = d
  /\ \A x \in Runs \ {r} : resv'[x] = resv[x]

(* An unchanged table shrinks.                                             *)
LEMMA KeptShrinks == UNCHANGED resv => Shrinks
BY DEF Shrinks

(* A settlement shrinks the table.                                         *)
LEMMA SettleShrinks ==
  ASSUME Types, NEW r \in Runs, Settle(r)
  PROVE  Shrinks
BY SettleFields DEF Shrinks

(* A release shrinks the table.                                            *)
LEMMA ReleaseShrinks ==
  ASSUME Types, NEW r \in Runs, Release(r)
  PROVE  Shrinks
BY ReleaseFields DEF Shrinks

(* The INSERT makes one reservation, and only where there is room.         *)
LEMMA InsertEffect ==
  ASSUME Types, Covered, NEW r \in Runs, ReserveInsert(r)
  PROVE  Shrinks \/ \E d \in Nat : Inserts(r, d)
<1> DEFINE d == Day(at[r])
           v == [state |-> "pending", day |-> d, expires |-> at[r] + TTL, actual |-> 0]
<1>1. at[r] \in Nat
  BY DEF Types, TimeTypes
<1>2. d \in Nat
  BY <1>1, DayType
<1>3. v \in Resvs /\ v.state = "pending" /\ v.day = d
  BY <1>1, <1>2, SpendAssumption DEF Resvs, States
<1>4. CASE Committed(d) + Estimate <= Cap
  <2>1. resv' = [resv EXCEPT ![r] = v] /\ pc[r] = "insert"
    BY <1>4 DEF ReserveInsert
  <2>2. resv[r].state = "none"
    BY <2>1 DEF Covered, Covers, Unreserved
  <2> HIDE DEF d, v
  <2>3. resv'[r] = v /\ \A x \in Runs \ {r} : resv'[x] = resv[x]
    BY <1>3, <2>1, ResvEffect DEF Types
  <2> QED BY <1>2, <1>3, <1>4, <2>2, <2>3 DEF Inserts
<1>5. CASE ~(Committed(d) + Estimate <= Cap)
  BY <1>5, KeptShrinks DEF ReserveInsert
<1> QED BY <1>4, <1>5

(* Every step shrinks the table or makes one reservation.                  *)
LEMMA StepShrinks ==
  ASSUME Types, Covered, Next
  PROVE  Shrinks \/ \E x \in Runs, d \in Nat : Inserts(x, d)
<1>1. CASE NewAccountant
  BY <1>1, KeptShrinks DEF NewAccountant, world
<1>2. CASE Operator
  BY <1>2, KeptShrinks DEF Operator, world
<1>3. CASE Tick
  BY <1>3, KeptShrinks DEF Tick, world
<1>4. ASSUME NEW r \in Runs, Step(r) PROVE Shrinks \/ \E x \in Runs, d \in Nat : Inserts(x, d)
  <2>1. CASE AccountantReserve(r)
    BY <1>4, <2>1, KeptShrinks DEF AccountantReserve, world
  <2>2. CASE AccountantSettle(r)
    BY <1>4, <2>2, KeptShrinks DEF AccountantSettle, world
  <2>3. CASE Begin(r)
    BY <1>4, <2>3, KeptShrinks DEF Begin, world
  <2>4. CASE CheckBudget(r)
    BY <1>4, <2>4, KeptShrinks DEF CheckBudget, world
  <2>5. CASE ReserveGlobal(r)
    <3>1. CASE halted
      BY <2>5, <3>1, KeptShrinks DEF ReserveGlobal
    <3>2. CASE ~halted
      BY <2>5, <3>2, ExpireEffect DEF ReserveGlobal, Types, Shrinks
    <3> QED BY <3>1, <3>2
  <2>6. CASE ReserveInsert(r)
    BY <1>4, <2>6, InsertEffect
  <2>7. CASE Launch(r)
    BY <1>4, <2>7, KeptShrinks DEF Launch, world
  <2>8. CASE \E cost \in Costs : AgentEnds(r, cost)
    BY <1>4, <2>8, KeptShrinks DEF AgentEnds, world
  <2>9. CASE UpdateRun(r)
    BY <1>4, <2>9, KeptShrinks DEF UpdateRun, world
  <2>10. CASE ErrorReturn(r)
    BY <1>4, <2>10, KeptShrinks DEF ErrorReturn, world
  <2>11. CASE SettleGlobal(r)
    BY <1>4, <2>11, SettleShrinks DEF SettleGlobal
  <2>12. CASE SettleFails(r)
    BY <1>4, <2>12, KeptShrinks DEF SettleFails, world
  <2>13. CASE ReleaseGlobal(r)
    BY <1>4, <2>13, ReleaseShrinks, KeptShrinks DEF ReleaseGlobal
  <2>14. CASE MaybeHalt(r)
    BY <1>4, <2>14, KeptShrinks DEF MaybeHalt, world
  <2>15. CASE Crash(r)
    BY <1>4, <2>15, KeptShrinks DEF Crash, world
  <2>16. CASE Recover(r)
    BY <1>4, <2>16, ReleaseShrinks DEF Recover
  <2>17. CASE \E kind \in {"settle", "release", "halt"} : Replay(r, kind)
    BY <1>4, <2>17, SettleShrinks, ReleaseShrinks, KeptShrinks DEF Replay
  <2> QED BY <1>4, <2>1, <2>2, <2>3, <2>4, <2>5, <2>6, <2>7, <2>8, <2>9,
             <2>10, <2>11, <2>12, <2>13, <2>14, <2>15, <2>16, <2>17 DEF Step
<1> QED BY <1>1, <1>2, <1>3, <1>4 DEF Next

(* What a day weighs, as the sums the code and CapHolds speak of.          *)
LEMMA WeighIs ==
  ASSUME Types, NEW d \in Nat, NEW f \in [Runs -> Nat]
  PROVE  SumFunctionOnSet(Weigh(d, f), Runs)
           = Estimate * Cardinality(Pending(d)) + SumFunctionOnSet(f, Settled(d))
<1> DEFINE P == Pending(d)  T == Settled(d)  w == Weigh(d, f)
<1>1. /\ P \in SUBSET Runs /\ T \in SUBSET Runs /\ P \cap T = {}
  BY DEF Pending, Settled
<1>2. w \in [Runs -> Nat] /\ Estimate \in Nat /\ IsFiniteSet(Runs)
  BY SpendAssumption DEF Weigh
<1>3. \A x \in Runs : w[x] = IF x \in P THEN Estimate ELSE IF x \in T THEN f[x] ELSE 0
  BY DEF Weigh, Pending, Settled
<1> HIDE DEF P, T, w
<1>4. SumFunctionOnSet(w, Runs) = Estimate * Cardinality(P) + SumFunctionOnSet(f, T)
  BY <1>1, <1>2, <1>3, SumOfShares
<1> QED BY <1>4 DEF P, T, w

LEMMA WeightIs ==
  ASSUME Types, NEW d \in Nat
  PROVE  /\ SumFunctionOnSet(Weight(d), Runs)
              = Estimate * Cardinality(Pending(d)) + SumFunctionOnSet(Foreseen(Actual), Settled(d))
         /\ SumFunctionOnSet(FullWeight(d), Runs)
              = Estimate * Cardinality(Pending(d)) + SumFunctionOnSet(Actual, Settled(d))
BY WeighIs, LedgerSums DEF Weight, FullWeight

(* What a reservation weighs, and at most in full.                         *)
LEMMA WeightOf ==
  ASSUME Types, NEW d \in Nat, NEW x \in Runs
  PROVE  /\ Weight(d)[x] = IF resv[x].day # d THEN 0
                            ELSE IF resv[x].state = "pending" THEN Estimate
                            ELSE IF resv[x].state # "settled" THEN 0
                            ELSE IF resv[x].actual > Estimate THEN Estimate ELSE resv[x].actual
         /\ Weight(d)[x] <= FullWeight(d)[x]
<1>1. resv[x].actual \in Nat /\ Estimate \in Nat
  BY SpendAssumption DEF Types, ResvTypes, Resvs
<1> QED BY <1>1 DEF Weight, FullWeight, Weigh, Foreseen, Actual

(* The weights of the next state are natural numbers too.                  *)
LEMMA NextWeights ==
  ASSUME Types', NEW d \in Nat
  PROVE  Weight(d)' \in [Runs -> Nat]
BY SpendAssumption DEF Types, ResvTypes, Resvs, Weight, Weigh, Foreseen, Actual

(* A table that shrinks stays within the cap.                              *)
LEMMA ShrinksWithin ==
  ASSUME Types, Types', Shrinks, Within
  PROVE  Within'
<1>1. ASSUME NEW d \in Nat PROVE SumFunctionOnSet(Weight(d)', Runs) <= Cap
  <2> DEFINE w == Weight(d)  u == Weight(d)'
  <2>1. w \in [Runs -> Nat] /\ u \in [Runs -> Nat] /\ IsFiniteSet(Runs)
    BY LedgerSums, NextWeights, SpendAssumption
  <2>2. ASSUME NEW x \in Runs PROVE u[x] <= w[x]
    <3>1. /\ Estimate \in Nat /\ resv[x].actual \in Nat /\ resv'[x].actual \in Nat
          /\ resv[x].day \in Nat /\ resv'[x].day \in Nat
      BY SpendAssumption DEF Types, ResvTypes, Resvs
    <3>2. u[x] = IF resv'[x].day # d THEN 0
                 ELSE IF resv'[x].state = "pending" THEN Estimate
                 ELSE IF resv'[x].state # "settled" THEN 0
                 ELSE IF resv'[x].actual > Estimate THEN Estimate ELSE resv'[x].actual
      BY DEF Weight, Weigh, Foreseen, Actual
    <3>3. w[x] = IF resv[x].day # d THEN 0
                 ELSE IF resv[x].state = "pending" THEN Estimate
                 ELSE IF resv[x].state # "settled" THEN 0
                 ELSE IF resv[x].actual > Estimate THEN Estimate ELSE resv[x].actual
      BY <1>1, WeightOf
    <3> HIDE DEF w, u
    <3> QED BY <3>1, <3>2, <3>3 DEF Shrinks
  <2>3. SumFunctionOnSet(w, Runs) <= Cap
    BY <1>1 DEF Within
  <2> HIDE DEF w, u
  <2>4. SumFunctionOnSet(u, Runs) <= SumFunctionOnSet(w, Runs)
    BY <2>1, <2>2, SumMonotonic
  <2>5. SumFunctionOnSet(u, Runs) \in Nat /\ SumFunctionOnSet(w, Runs) \in Nat /\ Cap \in Nat
    BY <2>1, SumNat, SpendAssumption
  <2>6. SumFunctionOnSet(u, Runs) <= Cap
    BY <2>3, <2>4, <2>5
  <2> QED BY <2>6 DEF u
<1> QED BY <1>1 DEF Within

(* The INSERT that finds room keeps the day within the cap.                *)
LEMMA InsertWithin ==
  ASSUME Types, Types', Within, NEW r \in Runs, NEW d \in Nat, Inserts(r, d)
  PROVE  Within'
<1>1. ASSUME NEW e \in Nat PROVE SumFunctionOnSet(Weight(e)', Runs) <= Cap
  <2> DEFINE w == Weight(e)  u == Weight(e)'
  <2>1. w \in [Runs -> Nat] /\ u \in [Runs -> Nat] /\ IsFiniteSet(Runs)
    BY <1>1, LedgerSums, NextWeights, SpendAssumption
  <2>2. \A x \in Runs \ {r} : u[x] = w[x]
    BY DEF Weight, Weigh, Foreseen, Actual, Inserts
  <2>3. w[r] = 0 /\ u[r] = IF d = e THEN Estimate ELSE 0
    BY DEF Weight, Weigh, Inserts
  <2>4. SumFunctionOnSet(w, Runs) <= Cap
    BY <1>1 DEF Within
  <2>5. d = e => SumFunctionOnSet(w, Runs) + Estimate <= Cap
    <3>1. SUFFICES ASSUME d = e PROVE SumFunctionOnSet(w, Runs) + Estimate <= Cap
      OBVIOUS
    <3> DEFINE full == FullWeight(d)
    <3>2. SumFunctionOnSet(full, Runs)
            = Estimate * Cardinality(Pending(d)) + SumFunctionOnSet(Actual, Settled(d))
      BY <3>1, WeightIs
    <3>8. SumFunctionOnSet(w, Runs) <= SumFunctionOnSet(full, Runs)
      <4>1. full \in [Runs -> Nat] /\ \A x \in Runs : w[x] <= full[x]
        BY <3>1, LedgerSums, WeightOf
      <4> HIDE DEF full, w
      <4> QED BY <2>1, <4>1, SumMonotonic
    <3>9. SumFunctionOnSet(w, Runs) \in Nat
      <4> HIDE DEF w
      <4> QED BY <2>1, SumNat
    <3> DEFINE c == SumFunctionOnSet(Cost, Closed(d) \ Reserved(d))
               p == Estimate * Cardinality(Pending(d))
               s == SumFunctionOnSet(Actual, Settled(d))
    <3>3. c + p + s + Estimate <= Cap
      BY DEF Inserts, Committed
    <3>4. c \in Nat
      BY LedgerSums DEF Closed
    <3>5. p \in Nat
      <4>1. Pending(d) \in SUBSET Runs
        BY DEF Pending
      <4>2. IsFiniteSet(Pending(d))
        BY <4>1, LedgerSums
      <4> QED BY <4>2, FS_CardinalityType, SpendAssumption
    <3>6. s \in Nat
      <4>1. Settled(d) \in SUBSET Runs
        BY DEF Settled
      <4>2. IsFiniteSet(Settled(d)) /\ Actual \in [Runs -> Nat]
        BY <4>1, LedgerSums
      <4> QED BY <4>1, <4>2, SumNat
    <3>7. SumFunctionOnSet(full, Runs) = p + s
      BY <3>2
    <3> HIDE DEF c, p, s, w, full
    <3> QED BY <3>3, <3>4, <3>5, <3>6, <3>7, <3>8, <3>9, SpendAssumption
  <2> HIDE DEF w, u
  <2>6. SumFunctionOnSet(u, Runs) + w[r] = SumFunctionOnSet(w, Runs) + u[r]
    BY <2>1, <2>2, SumUpdate
  <2>7. SumFunctionOnSet(u, Runs) \in Nat /\ SumFunctionOnSet(w, Runs) \in Nat
    BY <2>1, SumNat
  <2>8. SumFunctionOnSet(u, Runs) <= Cap
    BY <2>3, <2>4, <2>5, <2>6, <2>7, SpendAssumption
  <2> QED BY <2>8 DEF u
<1> QED BY <1>1 DEF Within

(* Every step keeps every day within the cap.                              *)
LEMMA StepWithin ==
  ASSUME Types, Covered, Within, Next
  PROVE  Within'
<1>1. Types'
  BY StepTypes
<1>2. Shrinks \/ \E x \in Runs, d \in Nat : Inserts(x, d)
  BY StepShrinks
<1> QED BY <1>1, <1>2, ShrinksWithin, InsertWithin

(* What is within the cap by weight is what CapHolds speaks of.            *)
LEMMA WithinIsCap ==
  ASSUME Types, Covered, Within
  PROVE  CapHolds
<1>1. Day(MaxTime) \in Nat
  BY DayType, SpendAssumption
<1>2. ReservedWithinCap
  BY <1>1, WeightIs DEF Within, ReservedWithinCap
<1>3. ASSUME NEW d \in Nat, \A r \in Reserved(d) : ~LetGo(r)
      PROVE  SumFunctionOnSet(Foreseen(owed), Reserved(d)) <= Cap
  <2> DEFINE w == Weight(d)
             T == Reserved(d)
             f == Foreseen(owed)
             o == [x \in Runs |-> IF x \in T THEN f[x] ELSE 0]
  <2>1. owed \in [Runs -> Nat] /\ f \in [Runs -> Nat]
    BY LedgerSums DEF Types, AgentTypes
  <2>2. T \in SUBSET Runs /\ {} \in SUBSET Runs /\ {} \cap T = {}
    BY DEF Reserved
  <2>3. o \in [Runs -> Nat] /\ w \in [Runs -> Nat] /\ IsFiniteSet(Runs)
    BY <1>3, <2>1, LedgerSums, SpendAssumption
  <2>4. ASSUME NEW x \in Runs PROVE o[x] <= w[x]
    <3>1. /\ Estimate \in Nat /\ resv[x].actual \in Nat /\ owed[x] \in Nat
          /\ resv[x].state \in States
      BY <2>1, SpendAssumption DEF Types, ResvTypes, Resvs
    <3>2. o[x] = IF x \notin T THEN 0 ELSE IF owed[x] > Estimate THEN Estimate ELSE owed[x]
      BY DEF Foreseen
    <3>3. w[x] = IF resv[x].day # d THEN 0
                 ELSE IF resv[x].state = "pending" THEN Estimate
                 ELSE IF resv[x].state # "settled" THEN 0
                 ELSE IF resv[x].actual > Estimate THEN Estimate ELSE resv[x].actual
      BY <1>3, WeightOf
    <3>4. x \in T => resv[x].state # "none" /\ resv[x].day = d /\ ~LetGo(x)
      BY <1>3 DEF Reserved
    <3>5. Covers(x)
      BY DEF Covered
    <3> HIDE DEF w, T, o, f
    <3> QED BY <3>1, <3>2, <3>3, <3>4, <3>5 DEF Covers, Covering, LetGo, States
  <2>5. SumFunctionOnSet(w, Runs) <= Cap
    BY <1>3 DEF Within
  <2>6. \A x \in Runs : o[x] = IF x \in {} THEN 0 ELSE IF x \in T THEN f[x] ELSE 0
    OBVIOUS
  <2> HIDE DEF w, T, o, f
  <2>7. SumFunctionOnSet(o, Runs) <= SumFunctionOnSet(w, Runs)
    BY <2>3, <2>4, SumMonotonic
  <2>8. SumFunctionOnSet(o, Runs) = 0 * Cardinality({}) + SumFunctionOnSet(f, T)
    BY <2>1, <2>2, <2>3, <2>6, SumOfShares
  <2>9. /\ SumFunctionOnSet(o, Runs) \in Nat /\ SumFunctionOnSet(w, Runs) \in Nat
        /\ SumFunctionOnSet(f, T) \in Nat /\ Cardinality({}) = 0 /\ Cap \in Nat
    BY <2>1, <2>2, <2>3, SumNat, FS_EmptySet, FS_Subset, SpendAssumption
  <2>10. SumFunctionOnSet(f, T) <= Cap
    BY <2>5, <2>7, <2>8, <2>9
  <2> QED BY <2>10 DEF T, f
<1>4. SpentWithinCap
  BY <1>1, <1>3 DEF SpentWithinCap
<1> QED BY <1>2, <1>4 DEF CapHolds

(* At the start nothing is reserved or owed.                               *)
LEMMA InitTypes == Init => Types
BY SpendAssumption DEF Init, Types, ResvTypes, RowTypes, PcTypes, AcctTypes, QueueTypes,
   AgentTypes, TimeTypes, Resvs, Rows, Accts, States, Steps, NoReservation, NoRow

(* So the agents are covered and every day is within the cap.              *)
LEMMA InitWithin == Init => Covered /\ Within
<1> SUFFICES ASSUME Init PROVE Covered /\ Within
  OBVIOUS
<1>1. Covered
  BY SpendAssumption DEF Init, Covered, Covers, NoReservation, NoRow, Unreserved, Unsettled
<1>2. ASSUME NEW d \in Nat PROVE SumFunctionOnSet(Weight(d), Runs) <= Cap
  <2>1. Pending(d) = {} /\ Settled(d) = {}
    BY DEF Init, Pending, Settled, NoReservation
  <2>2. SumFunctionOnSet(Foreseen(Actual), {}) = 0 /\ Cardinality({}) = 0
    BY SumEmpty, FS_EmptySet
  <2>3. SumFunctionOnSet(Weight(d), Runs) = Estimate * 0 + 0
    BY <1>2, <2>1, <2>2, WeightIs, InitTypes
  <2> QED BY <2>3, SpendAssumption
<1> QED BY <1>1, <1>2 DEF Within

-----------------------------------------------------------------------------
(* The accountant                                                          *)

Busy == Steps \ {"start", "skipped", "closed", "failed", "dead"}

Returned == {r \in Batch : pc[r] = "closed"}

(* A job stays where it is, or moves on within its run.                    *)
Quiet(x) ==
  \/ pc'[x] = pc[x] /\ (pc[x] = "closed" => row'[x].cost = row[x].cost)
  \/ pc[x] \in Busy /\ pc'[x] \in Busy

AllQuiet == UNCHANGED <<acct, baseline>> /\ \A x \in Batch : Quiet(x)

(* The sets the books speak of.                                            *)
LEMMA JobSets ==
  /\ InFlight \in SUBSET Runs /\ IsFiniteSet(InFlight) /\ Cardinality(InFlight) \in Nat
  /\ Returned \in SUBSET Runs /\ IsFiniteSet(Returned)
<1>1. InFlight \in SUBSET Runs /\ Returned \in SUBSET Runs
  BY SpendAssumption DEF InFlight, Returned
<1>2. IsFiniteSet(InFlight) /\ IsFiniteSet(Returned)
  BY <1>1, SpendAssumption, FS_Subset
<1> QED BY <1>1, <1>2, FS_CardinalityType

(* The books, with their sets named.                                       *)
LEMMA BooksAre ==
  Books <=> /\ ~acct.open => \A r \in Batch : pc[r] = "start"
            /\ acct.open /\ (\A r \in Batch : pc[r] # "dead") =>
                 /\ acct.pending = Estimate * Cardinality(InFlight)
                 /\ acct.spent = baseline + SumFunctionOnSet(Cost, Returned)
BY DEF Books, AccountExact, Returned

(* The same of the next state.                                             *)
LEMMA NextBooksAre ==
  Books' <=> /\ ~acct'.open => \A r \in Batch : pc'[r] = "start"
             /\ acct'.open /\ (\A r \in Batch : pc'[r] # "dead") =>
                  /\ acct'.pending = Estimate * Cardinality(InFlight')
                  /\ acct'.spent = baseline' + SumFunctionOnSet(Cost', Returned')
BY DEF Books, AccountExact, Returned

(* Quiet jobs leave the books alone.                                       *)
LEMMA QuietBooks ==
  ASSUME Types, Books, AllQuiet
  PROVE  Books'
<1>1. UNCHANGED <<acct, baseline>> /\ \A x \in Batch : Quiet(x)
  BY DEF AllQuiet
<1>2. InFlight' = InFlight
  BY <1>1 DEF InFlight, Quiet, Busy, Steps
<1>3. Returned' = Returned
  BY <1>1 DEF Returned, Quiet, Busy
<1>4. \A x \in Returned : Cost[x] = Cost'[x]
  BY <1>1, JobSets DEF Returned, Quiet, Busy, Cost
<1>5. SumFunctionOnSet(Cost, Returned) = SumFunctionOnSet(Cost', Returned)
  BY <1>4, JobSets, SumAgree
<1>6. \A x \in Batch : pc[x] = "dead" => pc'[x] = "dead"
  BY <1>1 DEF Quiet, Busy
<1>7. \A x \in Batch : pc[x] = "start" => pc'[x] = "start"
  BY <1>1 DEF Quiet, Busy
<1> QED BY <1>1, <1>2, <1>3, <1>5, <1>6, <1>7, BooksAre, NextBooksAre

(* The accountant opens before any job has started.                        *)
LEMMA NewBooks ==
  ASSUME Types, Books, NewAccountant
  PROVE  Books'
<1>1. DaySpend(Day(clock)) \in Nat
  BY LedgerSums
<1>2. /\ acct'.open /\ acct'.pending = 0 /\ acct'.spent = DaySpend(Day(clock))
      /\ baseline' = acct'.spent /\ UNCHANGED <<pc, row>> /\ ~acct.open
  BY DEF NewAccountant
<1>3. \A r \in Batch : pc[r] = "start"
  BY <1>2, BooksAre
<1>4. InFlight' = {} /\ Returned' = {}
  BY <1>2, <1>3 DEF InFlight, Returned
<1>5. SumFunctionOnSet(Cost', {}) = 0 /\ Cardinality({}) = 0
  BY SumEmpty, FS_EmptySet
<1> QED BY <1>1, <1>2, <1>4, <1>5, SpendAssumption, NextBooksAre

(* A job that is admitted adds its estimate, a skipped one nothing.        *)
LEMMA ReserveBooks ==
  ASSUME Types, Books, NEW r \in Runs, AccountantReserve(r)
  PROVE  Books'
<1>1. /\ r \in Batch /\ pc[r] = "start" /\ acct.open /\ UNCHANGED <<row, baseline>>
      /\ pc \in [Runs -> Steps]
  BY DEF AccountantReserve, Types, PcTypes
<1>2. acct.pending \in Nat /\ Estimate \in Nat
  BY SpendAssumption DEF Types, AcctTypes, Accts
<1>3. UNCHANGED Cost
  BY <1>1 DEF Cost
<1>4. CASE pc' = [pc EXCEPT ![r] = "skipped"] /\ UNCHANGED acct
  <2>1. InFlight' = InFlight /\ Returned' = Returned
    BY <1>1, <1>4 DEF InFlight, Returned
  <2>2. \A x \in Batch : pc[x] = "dead" => pc'[x] = "dead"
    BY <1>1, <1>4, SpendAssumption
  <2> QED BY <1>1, <1>3, <1>4, <2>1, <2>2, BooksAre, NextBooksAre
<1>5. CASE /\ pc' = [pc EXCEPT ![r] = "check"]
           /\ acct' = [acct EXCEPT !.pending = acct.pending + Estimate]
  <2>1. InFlight' = InFlight \cup {r} /\ r \notin InFlight /\ Returned' = Returned
    BY <1>1, <1>5, SpendAssumption DEF InFlight, Returned
  <2>2. \A x \in Batch : pc[x] = "dead" => pc'[x] = "dead"
    BY <1>1, <1>5, SpendAssumption
  <2>3. /\ acct'.pending = acct.pending + Estimate /\ acct'.spent = acct.spent
        /\ acct'.open = acct.open
    BY <1>5 DEF Types, AcctTypes, Accts
  <2>4. Cardinality(InFlight') = Cardinality(InFlight) + 1
    BY <2>1, JobSets, FS_AddElement
  <2>5. Estimate * Cardinality(InFlight') = Estimate * Cardinality(InFlight) + Estimate
    BY <1>2, <2>4, JobSets
  <2> QED BY <1>1, <1>3, <2>1, <2>2, <2>3, <2>5, BooksAre, NextBooksAre
<1> QED BY <1>4, <1>5 DEF AccountantReserve, Goto

(* A job that returns gives its estimate back and leaves its cost.         *)
LEMMA SettleBooks ==
  ASSUME Types, Books, NEW r \in Runs, AccountantSettle(r)
  PROVE  Books'
<1> DEFINE n == Cardinality(InFlight)
<1>1. /\ r \in Batch /\ pc[r] \in {"done", "error"} /\ UNCHANGED <<row, baseline>>
      /\ pc' = [pc EXCEPT ![r] = IF pc[r] = "error" THEN "failed" ELSE "closed"]
      /\ pc \in [Runs -> Steps]
  BY DEF AccountantSettle, Goto, Types, PcTypes
<1>2. /\ acct'.open = acct.open
      /\ acct'.pending = IF acct.pending < Estimate THEN 0 ELSE acct.pending - Estimate
      /\ acct'.spent = acct.spent + IF pc[r] = "error" THEN 0 ELSE row[r].cost
  BY AccountantEffect DEF Types
<1>3. acct.open
  BY <1>1, BooksAre
<1>4. UNCHANGED Cost
  BY <1>1 DEF Cost
<1>5. InFlight' = InFlight \ {r} /\ r \in InFlight
  BY <1>1, SpendAssumption DEF InFlight
<1>6. Cardinality(InFlight') = n - 1 /\ n \in Nat /\ n # 0
  <2>1. InFlight # {}
    BY <1>5
  <2> QED BY <1>5, <2>1, JobSets, FS_RemoveElement, FS_EmptySet
<1> HIDE DEF n
<1>7. ASSUME \A x \in Batch : pc'[x] # "dead"
      PROVE  /\ acct'.pending = Estimate * Cardinality(InFlight')
             /\ acct'.spent = baseline' + SumFunctionOnSet(Cost', Returned')
  <2>1. \A x \in Batch : pc[x] # "dead"
    BY <1>1, <1>7, SpendAssumption
  <2>2. /\ acct.pending = Estimate * n
        /\ acct.spent = baseline + SumFunctionOnSet(Cost, Returned)
    BY <1>3, <2>1, BooksAre DEF n
  <2>3. /\ Estimate \in Nat /\ Estimate * (n - 1) \in Nat
        /\ Estimate * n = Estimate * (n - 1) + Estimate
    BY <1>6, SpendAssumption
  <2>4. acct'.pending = Estimate * (n - 1)
    BY <1>2, <2>2, <2>3
  <2>5. Cost \in [Runs -> Nat] /\ Cost[r] = row[r].cost /\ row[r].cost \in Nat /\ baseline \in Nat
    BY LedgerSums DEF Cost, Types, RowTypes, Rows, AcctTypes
  <2>6. CASE pc[r] = "error"
    <3>1. Returned' = Returned
      BY <1>1, <2>6, SpendAssumption DEF Returned
    <3>2. acct'.spent = acct.spent + 0
      BY <1>2, <2>6
    <3>3. acct.spent \in Nat
      BY DEF Types, AcctTypes, Accts
    <3> QED BY <1>1, <1>4, <1>6, <2>2, <2>4, <3>1, <3>2, <3>3
  <2>7. CASE pc[r] # "error"
    <3>1. Returned' = Returned \cup {r} /\ r \notin Returned
      BY <1>1, <2>7, SpendAssumption DEF Returned
    <3>2. SumFunctionOnSet(Cost, Returned \cup {r}) = Cost[r] + SumFunctionOnSet(Cost, Returned)
      BY <2>5, <3>1, JobSets, SumAdd
    <3>3. SumFunctionOnSet(Cost, Returned) \in Nat
      BY <2>5, JobSets, SumNat
    <3>4. acct'.spent = acct.spent + row[r].cost
      BY <1>2, <2>7
    <3>5. acct'.spent = baseline + (Cost[r] + SumFunctionOnSet(Cost, Returned))
      BY <2>2, <2>5, <3>3, <3>4
    <3> QED BY <1>1, <1>4, <1>6, <2>4, <3>1, <3>2, <3>5
  <2> QED BY <2>6, <2>7
<1> QED BY <1>2, <1>3, <1>7, NextBooksAre

(* A batch that dies takes its accountant with it.                         *)
LEMMA CrashBooks ==
  ASSUME Types, Books, NEW r \in Runs, Crash(r)
  PROVE  Books'
<1>1. UNCHANGED <<acct, baseline, row>> /\ pc[r] # "start"
  BY DEF Crash
<1>2. CASE r \in Batch
  <2>1. pc'[r] = "dead"
    BY <1>2 DEF Crash
  <2>2. acct'.open
    BY <1>1, <1>2, BooksAre
  <2> QED BY <1>2, <2>1, <2>2, NextBooksAre
<1>3. CASE r \notin Batch
  <2>1. \A x \in Batch : pc'[x] = pc[x]
    BY <1>3, SpendAssumption DEF Crash
  <2> QED BY <1>1, <2>1, QuietBooks DEF AllQuiet, Quiet
<1> QED BY <1>2, <1>3

(* Every step keeps the books.                                            *)
LEMMA StepBooks ==
  ASSUME Types, Books, Next
  PROVE  Books'
<1>1. CASE NewAccountant
  BY <1>1, NewBooks
<1>2. CASE Operator
  BY <1>2, QuietBooks DEF Operator, AllQuiet, Quiet
<1>3. CASE Tick
  BY <1>3, QuietBooks DEF Tick, AllQuiet, Quiet
<1>4. ASSUME NEW r \in Runs, Step(r) PROVE Books'
  <2>1. CASE AccountantReserve(r)
    BY <1>4, <2>1, ReserveBooks
  <2>2. CASE AccountantSettle(r)
    BY <1>4, <2>2, SettleBooks
  <2>3. CASE Begin(r)
    <3>1. UNCHANGED <<acct, baseline, row>> /\ r \notin Batch
      BY <2>3 DEF Begin, world
    <3>2. \A x \in Runs \ {r} : pc'[x] = pc[x]
      BY <1>4, <2>3, GotoEffect DEF Begin, Types, Steps
    <3> QED BY <1>4, <3>1, <3>2, SpendAssumption, QuietBooks DEF AllQuiet, Quiet
  <2>4. CASE CheckBudget(r)
    <3>1. UNCHANGED <<acct, baseline>> /\ pc[r] \in Busy
      BY <2>4 DEF CheckBudget, world, Busy, Steps
    <3>2. pc'[r] \in Busy /\ \A x \in Runs \ {r} : pc'[x] = pc[x]
      BY <1>4, <2>4, GotoEffect, RefusedEffect DEF CheckBudget, Types, Steps, Busy
    <3>3. \A x \in Runs \ {r} : row'[x] = row[x]
      BY <1>4, <2>4, RefusedEffect DEF CheckBudget, Types
    <3> QED BY <1>4, <3>1, <3>2, <3>3, SpendAssumption, QuietBooks DEF AllQuiet, Quiet
  <2>5. CASE ReserveGlobal(r)
    <3>1. UNCHANGED <<acct, baseline>> /\ pc[r] \in Busy
      BY <2>5 DEF ReserveGlobal, world, Busy, Steps
    <3>2. pc'[r] \in Busy /\ \A x \in Runs \ {r} : pc'[x] = pc[x]
      BY <1>4, <2>5, MoveFields DEF ReserveGlobal, Types, Steps, Busy
    <3>3. \A x \in Runs \ {r} : row'[x] = row[x]
      BY <1>4, <2>5, RefusedEffect DEF ReserveGlobal, Types
    <3> QED BY <1>4, <3>1, <3>2, <3>3, SpendAssumption, QuietBooks DEF AllQuiet, Quiet
  <2>6. CASE ReserveInsert(r)
    <3>1. UNCHANGED <<acct, baseline>> /\ pc[r] \in Busy
      BY <2>6 DEF ReserveInsert, world, Busy, Steps
    <3>2. pc'[r] \in Busy /\ \A x \in Runs \ {r} : pc'[x] = pc[x]
      BY <1>4, <2>6, GotoEffect, RefusedEffect DEF ReserveInsert, Types, Steps, Busy
    <3>3. \A x \in Runs \ {r} : row'[x] = row[x]
      BY <1>4, <2>6, RefusedEffect DEF ReserveInsert, Types
    <3> QED BY <1>4, <3>1, <3>2, <3>3, SpendAssumption, QuietBooks DEF AllQuiet, Quiet
  <2>7. CASE Launch(r)
    <3>1. UNCHANGED <<acct, baseline>> /\ pc[r] \in Busy
      BY <2>7 DEF Launch, world, Busy, Steps
    <3>2. pc'[r] \in Busy /\ \A x \in Runs \ {r} : pc'[x] = pc[x]
      BY <1>4, <2>7, GotoEffect DEF Launch, Types, Steps, Busy
    <3>3. \A x \in Runs \ {r} : row'[x] = row[x]
      BY <1>4, <2>7 DEF Launch, Types, RowTypes
    <3> QED BY <1>4, <3>1, <3>2, <3>3, SpendAssumption, QuietBooks DEF AllQuiet, Quiet
  <2>8. CASE \E cost \in Costs : AgentEnds(r, cost)
    <3> PICK cost \in Costs : AgentEnds(r, cost)
      BY <2>8
    <3>1. UNCHANGED <<acct, baseline, row>> /\ pc[r] \in Busy
      BY DEF AgentEnds, world, Busy, Steps
    <3>2. pc'[r] \in Busy /\ \A x \in Runs \ {r} : pc'[x] = pc[x]
      BY <1>4, GotoEffect DEF AgentEnds, Types, Steps, Busy
    <3> QED BY <1>4, <3>1, <3>2, SpendAssumption, QuietBooks DEF AllQuiet, Quiet
  <2>9. CASE UpdateRun(r)
    <3>1. UNCHANGED <<acct, baseline>> /\ pc[r] \in Busy
      BY <2>9 DEF UpdateRun, world, Busy, Steps
    <3>2. pc'[r] \in Busy /\ \A x \in Runs \ {r} : pc'[x] = pc[x]
      BY <1>4, <2>9, UpdateRunEffect DEF UpdateRun, Types, Steps, Busy
    <3>3. \A x \in Runs \ {r} : row'[x] = row[x]
      BY <1>4, <2>9, UpdateRunEffect
    <3> QED BY <1>4, <3>1, <3>2, <3>3, SpendAssumption, QuietBooks DEF AllQuiet, Quiet
  <2>10. CASE ErrorReturn(r)
    <3>1. UNCHANGED <<acct, baseline, row>> /\ pc[r] \in Busy
      BY <2>10 DEF ErrorReturn, world, Busy, Steps
    <3>2. pc'[r] \in Busy /\ \A x \in Runs \ {r} : pc'[x] = pc[x]
      BY <1>4, <2>10, GotoEffect DEF ErrorReturn, Types, Steps, Busy
    <3> QED BY <1>4, <3>1, <3>2, SpendAssumption, QuietBooks DEF AllQuiet, Quiet
  <2>11. CASE SettleGlobal(r)
    <3>1. UNCHANGED <<acct, baseline, row>> /\ pc[r] \in Busy
      BY <2>11 DEF SettleGlobal, world, Busy, Steps
    <3>2. pc'[r] \in Busy /\ \A x \in Runs \ {r} : pc'[x] = pc[x]
      BY <1>4, <2>11, MoveFields DEF SettleGlobal, Types, Steps, Busy
    <3> QED BY <1>4, <3>1, <3>2, SpendAssumption, QuietBooks DEF AllQuiet, Quiet
  <2>12. CASE SettleFails(r)
    <3>1. UNCHANGED <<acct, baseline, row>> /\ pc[r] \in Busy
      BY <2>12 DEF SettleFails, world, Busy, Steps
    <3>2. pc'[r] \in Busy /\ \A x \in Runs \ {r} : pc'[x] = pc[x]
      BY <1>4, <2>12, GotoEffect DEF SettleFails, Types, Steps, Busy
    <3> QED BY <1>4, <3>1, <3>2, SpendAssumption, QuietBooks DEF AllQuiet, Quiet
  <2>13. CASE ReleaseGlobal(r)
    <3>1. UNCHANGED <<acct, baseline, row>> /\ pc[r] \in Busy
      BY <2>13 DEF ReleaseGlobal, world, Busy, Steps
    <3>2. pc'[r] \in Busy /\ \A x \in Runs \ {r} : pc'[x] = pc[x]
      BY <1>4, <2>13, MoveFields DEF ReleaseGlobal, Types, Steps, Busy
    <3> QED BY <1>4, <3>1, <3>2, SpendAssumption, QuietBooks DEF AllQuiet, Quiet
  <2>14. CASE MaybeHalt(r)
    <3>1. UNCHANGED <<acct, baseline, row>> /\ pc[r] \in Busy
      BY <2>14 DEF MaybeHalt, world, Busy, Steps
    <3>2. pc'[r] \in Busy /\ \A x \in Runs \ {r} : pc'[x] = pc[x]
      BY <1>4, <2>14, GotoEffect DEF MaybeHalt, Types, Steps, Busy
    <3> QED BY <1>4, <3>1, <3>2, SpendAssumption, QuietBooks DEF AllQuiet, Quiet
  <2>15. CASE Crash(r)
    BY <1>4, <2>15, CrashBooks
  <2>16. CASE Recover(r)
    <3>1. UNCHANGED <<acct, baseline, pc>> /\ row' = [row EXCEPT ![r].status = "closed"]
      BY <2>16 DEF Recover, world
    <3>2. \A x \in Runs : row'[x].cost = row[x].cost
      BY <1>4, <3>1, ClosedEffect DEF Types
    <3> QED BY <3>1, <3>2, SpendAssumption, QuietBooks DEF AllQuiet, Quiet
  <2>17. CASE \E kind \in {"settle", "release", "halt"} : Replay(r, kind)
    <3>1. UNCHANGED <<acct, baseline, pc, row>>
      BY <2>17 DEF Replay
    <3> QED BY <3>1, QuietBooks DEF AllQuiet, Quiet
  <2> QED BY <1>4, <2>1, <2>2, <2>3, <2>4, <2>5, <2>6, <2>7, <2>8, <2>9,
             <2>10, <2>11, <2>12, <2>13, <2>14, <2>15, <2>16, <2>17 DEF Step
<1> QED BY <1>1, <1>2, <1>3, <1>4 DEF Next

(* At the start there is no accountant.                                    *)
LEMMA InitBooks == Init => Books
BY SpendAssumption, BooksAre DEF Init

-----------------------------------------------------------------------------
(* The theorems                                                            *)

SpendInv == Types /\ Books

(* Types and books are kept, whatever the agents cost.                     *)
THEOREM SpendInvariance == Spec => []SpendInv
<1>1. Init => SpendInv
  BY InitTypes, InitBooks DEF SpendInv
<1>2. SpendInv /\ [Next]_vars => SpendInv'
  <2> SUFFICES ASSUME SpendInv, [Next]_vars PROVE SpendInv'
    OBVIOUS
  <2>1. CASE Next
    BY <2>1, StepTypes, StepBooks DEF SpendInv
  <2>2. CASE UNCHANGED vars
    <3>1. Types'
      BY <2>2, TypeFrames DEF SpendInv, Types, vars
    <3>2. Books'
      BY <2>2, QuietBooks DEF SpendInv, vars, AllQuiet, Quiet
    <3> QED BY <3>1, <3>2 DEF SpendInv
  <2> QED BY <2>1, <2>2
<1> QED BY <1>1, <1>2, PTL DEF Spec

(***************************************************************************)
(* The accountant of a batch is exact for every number of jobs and every   *)
(* interleaving of its workers: pending is the estimates of the jobs in    *)
(* flight, spent is the total it started from and what the jobs that       *)
(* returned have recorded (Accountant.Reserve and Accountant.Settle).      *)
(***************************************************************************)
THEOREM AccountIsExact == Spec => []AccountExact
<1>1. SpendInv => AccountExact
  BY DEF SpendInv, Books
<1> QED BY <1>1, SpendInvariance, PTL

(***************************************************************************)
(* The cap is kept for every number of processes, every cap, estimate,     *)
(* time to live and clock, up to what agents cost beyond their estimates   *)
(* (ReserveGlobal, SettleGlobal).                                          *)
(***************************************************************************)
THEOREM CapIsKept == Spec => []CapHolds
<1> DEFINE Inv == Covered /\ Within
<1>1. Init => Inv
  BY InitWithin
<1>2. SpendInv /\ Inv /\ [Next]_vars => Inv'
  <2> SUFFICES ASSUME SpendInv, Inv, [Next]_vars PROVE Inv'
    OBVIOUS
  <2>1. CASE Next
    BY <2>1, StepCovered, StepWithin DEF SpendInv
  <2>2. CASE UNCHANGED vars
    <3>1. Covered'
      BY <2>2 DEF vars, Covered, Covers, Charge
    <3>2. Within'
      BY <2>2 DEF vars, Within, Weight, Weigh, Foreseen, Actual
    <3> QED BY <3>1, <3>2
  <2> QED BY <2>1, <2>2
<1>3. SpendInv /\ Inv => CapHolds
  BY WithinIsCap DEF SpendInv
<1> QED BY <1>1, <1>2, <1>3, SpendInvariance, PTL DEF Spec

=============================================================================
