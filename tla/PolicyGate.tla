----------------------------- MODULE PolicyGate -----------------------------
(***************************************************************************)
(* Operator approvals of one policy scope: policy_checkpoints and          *)
(* policy_overrides (observability/policy_checkpoints.go), the gate that   *)
(* reserves them (runtime/policy_gate.go), the launch that consumes them   *)
(* (runOnce) and `gov ask` (runtime/ask.go).  The scope pins the contract, *)
(* the configuration, the rules and the facts, so every evaluation of it   *)
(* asks about the same rules.  One SQL statement or transaction is a step. *)
(***************************************************************************)
EXTENDS Integers, FiniteSets

CONSTANTS
  Rules,         \* the rules of the scope whose verdict is ASK
  Evals,         \* evaluations of the gate, each of one run
  MaxOverrides,  \* bound: overrides that are created
  Scopes,        \* the kinds of scope that are looked at, see scope
  TTL,           \* oneShotReservationTTL
  Lifetimes,     \* lifetimes an operator may give to a rule
  MaxTime,       \* bound: the clock
  MaxFaults,     \* bound: failed statements
  MaxCrashes     \* bound: processes that die

Never == -1

ASSUME PolicyAssumption ==
  /\ MaxOverrides \in Nat /\ Scopes \subseteq {"run", "fallback"}
  /\ TTL \in Nat /\ Lifetimes \subseteq Nat \cup {Never}
  /\ MaxTime \in Nat /\ MaxFaults \in Nat /\ MaxCrashes \in Nat

Overrides == 1..MaxOverrides

VARIABLES
  scope,     \* of a run's gate, or of the gate of fallbackEligible
  clock,
  cp,        \* policy_checkpoints, by evaluation and rule
  ovr,       \* policy_overrides
  pc,        \* the step each evaluation is at
  decision,  \* what an evaluation's gate decided
  claimed,   \* the one-shots ClaimActivePolicyOverrides gave it
  surplus,   \* those it applied to nothing and has not yet released
  applied,   \* those it applied and has not yet dealt with
  pend,      \* pendingOneShotIDs
  asks,      \* the unresolved rules it has not yet recorded
  held,      \* those of pend it has not yet released on its way out
  queued,    \* one_shot_override_release operations in the outbox
  faults, crashes

evaluation == <<decision, claimed, surplus, applied, pend, asks, held>>
vars == <<scope, clock, cp, ovr, pc, evaluation, queued, faults, crashes>>

NoOverride == [kind |-> "none", rule |-> "none", verdict |-> "ALLOW", until |-> Never,
               reserved |-> Never, consumed |-> "no", expired |-> "no"]

Kinds == {"none", "oneshot", "rule"}
Verdicts == {"ALLOW", "DENY"}
Steps == {"idle", "gate", "record", "admitted", "releasing", "crossed",
          "launched", "spent", "retried", "refused", "aborted", "failed", "dead"}

Override == [kind : Kinds, rule : Rules \cup {"none"}, verdict : Verdicts, until : Int,
             reserved : Int, consumed : {"yes", "no"}, expired : {"yes", "no"}]

TypeOK ==
  /\ clock \in Nat
  /\ cp \in [Evals \X Rules -> {"none", "pending", "resolved"}]
  /\ ovr \in [Overrides -> Override]
  /\ pc \in [Evals -> Steps]
  /\ decision \in [Evals -> {"ALLOW", "ASK", "DENY"}]
  /\ claimed \in [Evals -> SUBSET Overrides]
  /\ surplus \in [Evals -> SUBSET Overrides]
  /\ applied \in [Evals -> SUBSET Overrides]
  /\ pend \in [Evals -> SUBSET Overrides]
  /\ asks \in [Evals -> SUBSET Rules]
  /\ held \in [Evals -> SUBSET Overrides]
  /\ queued \subseteq Overrides
  /\ faults \in Nat /\ crashes \in Nat

Init ==
  /\ scope \in Scopes
  /\ clock = 0
  /\ cp = [c \in Evals \X Rules |-> "none"]
  /\ ovr = [o \in Overrides |-> NoOverride]
  /\ pc = [e \in Evals |-> "idle"]
  /\ decision = [e \in Evals |-> "ASK"]
  /\ claimed = [e \in Evals |-> {}] /\ surplus = [e \in Evals |-> {}]
  /\ applied = [e \in Evals |-> {}] /\ pend = [e \in Evals |-> {}]
  /\ asks = [e \in Evals |-> {}] /\ held = [e \in Evals |-> {}]
  /\ queued = {} /\ faults = 0 /\ crashes = 0

Goto(e, step) == pc' = [pc EXCEPT ![e] = step]

Fault == faults < MaxFaults /\ faults' = faults + 1

-----------------------------------------------------------------------------
(* The statements on policy_overrides                                      *)

OneShot(o) == ovr[o].kind = "oneshot"

Stale(o) ==
  /\ OneShot(o) /\ ovr[o].consumed = "no" /\ ovr[o].expired = "no"
  /\ ovr[o].reserved # Never /\ ovr[o].reserved < clock - TTL

Available(o) ==
  /\ ovr[o].kind # "none" /\ (ovr[o].until = Never \/ ovr[o].until > clock)
  /\ ovr[o].consumed = "no" /\ ovr[o].expired = "no" /\ ovr[o].reserved = Never

(* The WHERE clause of both Consume statements; expired_at is not in it.   *)
Consumable(o) == OneShot(o) /\ ovr[o].reserved # Never /\ ovr[o].consumed = "no"

(* Mutant: the statement clears the reservation and sets nothing.          *)
Consume_Clears(S) == ovr' = [o \in Overrides |->
  IF o \in S /\ Consumable(o) THEN [ovr[o] EXCEPT !.reserved = Never] ELSE ovr[o]]

Consume(S) == ovr' = [o \in Overrides |->
  IF o \in S /\ Consumable(o) THEN [ovr[o] EXCEPT !.consumed = "yes"] ELSE ovr[o]]

(* Mutant: the release matches nothing.                                    *)
Release_Nothing(o) == UNCHANGED ovr

Release(o) ==
  ovr' = IF Consumable(o) /\ ovr[o].expired = "no"
         THEN [ovr EXCEPT ![o].reserved = Never] ELSE ovr

-----------------------------------------------------------------------------
(* evaluatePolicyGate                                                      *)

(* ResolveOverrides: the newest active override of each rule.              *)
Newest(x) == {o \in Overrides : /\ Available(o) /\ ovr[o].rule = x
                                /\ \A p \in Overrides : Available(p) /\ ovr[p].rule = x => p <= o}

Applied == {o \in Overrides : \E x \in Rules : o \in Newest(x)}

(* EvaluateLayers: the most restrictive verdict, where nothing is denied   *)
(* by a rule itself.                                                       *)
Verdict ==
  IF \E o \in Applied : ovr[o].verdict = "DENY" THEN "DENY"
  ELSE IF \E x \in Rules : Newest(x) = {} THEN "ASK"
  ELSE "ALLOW"

(* ClaimActivePolicyOverrides: one transaction that expires the stale      *)
(* reservations and reserves every available one-shot.                     *)
Claim(e) ==
  /\ pc[e] = "idle"
  /\ LET mine == {o \in Overrides : Available(o) /\ OneShot(o)}
     IN /\ ovr' = [o \in Overrides |->
             CASE Stale(o) -> [ovr[o] EXCEPT !.expired = "yes"]
               [] o \in mine -> [ovr[o] EXCEPT !.reserved = clock]
               [] OTHER -> ovr[o]]
        /\ claimed' = [claimed EXCEPT ![e] = mine]
        /\ surplus' = [surplus EXCEPT ![e] = mine \ Applied]
        /\ applied' = [applied EXCEPT ![e] = mine \cap Applied]
  /\ decision' = [decision EXCEPT ![e] = Verdict]
  /\ asks' = [asks EXCEPT ![e] = {x \in Rules : Newest(x) = {}}]
  /\ Goto(e, "gate")
  /\ UNCHANGED <<clock, cp, pend, held, queued, faults, crashes, scope>>

ReleaseSurplus(e, o) ==
  /\ pc[e] = "gate" /\ o \in surplus[e]
  /\ Release(o)
  /\ surplus' = [surplus EXCEPT ![e] = @ \ {o}]
  /\ UNCHANGED <<clock, cp, pc, decision, claimed, applied, pend, asks, held, queued, faults, crashes, scope>>

(* A denial is spent at once; an approval goes back if the gate blocks,    *)
(* and stays reserved if it does not.                                      *)
ApplyOneShot(e, o) ==
  /\ pc[e] = "gate" /\ surplus[e] = {} /\ o \in applied[e]
  /\ applied' = [applied EXCEPT ![e] = @ \ {o}]
  /\ \/ /\ ovr[o].verdict = "DENY"
        /\ Consume({o}) /\ UNCHANGED <<pend, held>>
     \/ /\ ovr[o].verdict = "ALLOW" /\ decision[e] # "ALLOW"
        /\ Release(o) /\ UNCHANGED <<pend, held>>
     \/ /\ ovr[o].verdict = "ALLOW" /\ decision[e] = "ALLOW"
        /\ pend' = [pend EXCEPT ![e] = @ \cup {o}]
        /\ held' = [held EXCEPT ![e] = @ \cup {o}]
        /\ UNCHANGED ovr
  /\ UNCHANGED <<clock, cp, pc, decision, claimed, surplus, asks, queued, faults, crashes, scope>>

(* The gate returns; a blocked run is quarantined.                         *)
GateReturns(e) ==
  /\ pc[e] = "gate" /\ surplus[e] = {} /\ applied[e] = {}
  /\ Goto(e, CASE decision[e] = "ASK" -> "record"
               [] decision[e] = "DENY" -> "refused"
               [] decision[e] = "ALLOW" -> IF scope = "fallback" THEN "releasing" ELSE "admitted")
  /\ UNCHANGED <<clock, cp, ovr, evaluation, queued, faults, crashes, scope>>

(* Each rule still unresolved gets a pending checkpoint.                   *)
RecordCheckpoint(e, x) ==
  /\ pc[e] = "record" /\ x \in asks[e]
  /\ cp' = [cp EXCEPT ![<<e, x>>] = "pending"]
  /\ asks' = [asks EXCEPT ![e] = @ \ {x}]
  /\ UNCHANGED <<clock, ovr, pc, decision, claimed, surplus, applied, pend, held, queued, faults, crashes, scope>>

Quarantine(e) ==
  /\ pc[e] = "record" /\ asks[e] = {}
  /\ Goto(e, "refused")
  /\ UNCHANGED <<clock, cp, ovr, evaluation, queued, faults, crashes, scope>>

(* A statement of the gate fails: the gate returns the error at once, and  *)
(* the deferred release of its caller is not set up yet.                   *)
GateFails(e) ==
  /\ \/ pc[e] = "gate" /\ surplus[e] # {}
     \/ pc[e] = "gate" /\ \E o \in applied[e] : decision[e] # "ALLOW" \/ ovr[o].verdict = "DENY"
     \/ pc[e] = "record" /\ asks[e] # {}
  /\ Fault /\ Goto(e, "failed")
  /\ UNCHANGED <<clock, cp, ovr, evaluation, queued, crashes, scope>>

-----------------------------------------------------------------------------
(* The run after the gate                                                  *)

(* Some refusal, error or deadline comes before the launch.                *)
Abort(e) ==
  /\ pc[e] = "admitted" /\ Goto(e, "releasing")
  /\ UNCHANGED <<clock, cp, ovr, evaluation, queued, faults, crashes, scope>>

(* ConsumePolicyOverrideReservations: all of them in one transaction, or   *)
(* the launch is given up.                                                 *)
ConsumeAll(e) ==
  /\ pc[e] = "admitted"
  /\ IF \A o \in pend[e] : Consumable(o)
     THEN Consume(pend[e]) /\ held' = [held EXCEPT ![e] = {}] /\ Goto(e, "crossed")
     ELSE UNCHANGED <<ovr, held>> /\ Goto(e, "releasing")
  /\ UNCHANGED <<clock, cp, decision, claimed, surplus, applied, pend, asks, queued, faults, crashes, scope>>

(* The consumed artifacts are verified, and the agent starts.              *)
Launch(e) ==
  /\ pc[e] = "crossed" /\ (Goto(e, "launched") \/ Goto(e, "spent"))
  /\ UNCHANGED <<clock, cp, ovr, evaluation, queued, faults, crashes, scope>>

(* The deferred release, and the one of fallbackEligible.                  *)
ReleasePending(e, o) ==
  /\ pc[e] = "releasing" /\ o \in held[e]
  /\ Release(o)
  /\ held' = [held EXCEPT ![e] = @ \ {o}]
  /\ UNCHANGED <<clock, cp, pc, decision, claimed, surplus, applied, pend, asks, queued, faults, crashes, scope>>

(* A failed release is queued; fallbackEligible returns the error.         *)
ReleaseFails(e, o) ==
  /\ pc[e] = "releasing" /\ o \in held[e] /\ Fault
  /\ IF scope = "fallback"
     THEN Goto(e, "failed") /\ UNCHANGED <<held, queued>>
     ELSE /\ queued' = queued \cup {o}
          /\ held' = [held EXCEPT ![e] = @ \ {o}]
          /\ UNCHANGED pc
  /\ UNCHANGED <<clock, cp, ovr, decision, claimed, surplus, applied, pend, asks, crashes, scope>>

(* A run that did not launch is over; a fallback attempt goes ahead.       *)
Leave(e) ==
  /\ pc[e] = "releasing" /\ held[e] = {}
  /\ Goto(e, IF scope = "fallback" THEN "retried" ELSE "aborted")
  /\ UNCHANGED <<clock, cp, ovr, evaluation, queued, faults, crashes, scope>>

Crash(e) ==
  /\ pc[e] \in {"gate", "record", "admitted", "releasing", "crossed"}
  /\ crashes < MaxCrashes /\ crashes' = crashes + 1
  /\ Goto(e, IF pc[e] = "crossed" THEN "spent" ELSE "dead")
  /\ UNCHANGED <<clock, cp, ovr, evaluation, queued, faults, scope>>

-----------------------------------------------------------------------------
(* The operator, `gov reconcile` and time                                  *)

(* AskResolve: the checkpoint and the override, in one transaction.        *)
AskResolve(c, v, kind, life) ==
  /\ cp[c] = "pending"
  /\ cp' = [cp EXCEPT ![c] = "resolved"]
  /\ \E o \in Overrides :
       /\ ovr[o].kind = "none" /\ \A p \in Overrides : p < o => ovr[p].kind # "none"
       /\ ovr' = [ovr EXCEPT ![o] = [NoOverride EXCEPT !.kind = kind, !.rule = c[2], !.verdict = v,
            !.until = IF kind = "oneshot" \/ life = Never THEN Never ELSE clock + life]]
  /\ UNCHANGED <<clock, pc, evaluation, queued, faults, crashes, scope>>

(* A queued release is replayed, and once more if reconcile dies before    *)
(* it marks the operation done.                                            *)
Replay(o) ==
  /\ o \in queued /\ Release(o)
  /\ queued' \in {queued, queued \ {o}}
  /\ UNCHANGED <<clock, cp, pc, evaluation, faults, crashes, scope>>

Tick ==
  /\ clock < MaxTime /\ clock' = clock + 1
  /\ UNCHANGED <<cp, ovr, pc, evaluation, queued, faults, crashes, scope>>

Eval(e) ==
  \/ Claim(e) \/ GateReturns(e) \/ Quarantine(e) \/ GateFails(e)
  \/ Abort(e) \/ ConsumeAll(e) \/ Launch(e) \/ Leave(e) \/ Crash(e)
  \/ (\E x \in Rules : RecordCheckpoint(e, x))
  \/ \E o \in Overrides : \/ ReleaseSurplus(e, o) \/ ApplyOneShot(e, o)
                          \/ ReleasePending(e, o) \/ ReleaseFails(e, o)

Next ==
  \/ Tick
  \/ \E e \in Evals : Eval(e)
  \/ \E o \in Overrides : Replay(o)
  \/ \E c \in Evals \X Rules, v \in Verdicts, kind \in {"oneshot", "rule"}, life \in Lifetimes :
       AskResolve(c, v, kind, life)

Spec == Init /\ [][Next]_vars

-----------------------------------------------------------------------------
Crossed(e) == pc[e] \in {"crossed", "launched", "spent"}

(***************************************************************************)
(* `gov ask approve` without --rule authorises one launch: two runs never  *)
(* both cross the execution boundary on one approval, whatever claims,     *)
(* expiries, late and repeated releases and crashes come between           *)
(* (ConsumePolicyOverrideReservations).                                    *)
(***************************************************************************)
OneLaunchPerApproval ==
  \A e, f \in Evals : Crossed(e) /\ Crossed(f) /\ e # f => pend[e] \cap pend[f] = {}

(***************************************************************************)
(* An approval is spent only on a run that crosses the boundary: not on an *)
(* evaluation another rule blocked, and not on a launch given up because   *)
(* one of several approvals was lost.                                      *)
(***************************************************************************)
SpentOnlyToCross ==
  \A o \in Overrides : ovr[o].verdict = "ALLOW" /\ ovr[o].consumed = "yes" =>
    \E e \in Evals : Crossed(e) /\ o \in pend[e]

AtRest(e) == pc[e] \notin {"gate", "record", "admitted", "releasing"}

(***************************************************************************)
(* Without failures, an approval outlives every evaluation that did not    *)
(* use it: once all evaluations have returned, it is available again       *)
(* unless it was spent or outlived its reservation.                        *)
(***************************************************************************)
ApprovalSurvives ==
  faults = 0 /\ crashes = 0 /\ (\A e \in Evals : AtRest(e)) =>
    \A o \in Overrides : OneShot(o) =>
      ovr[o].consumed = "yes" \/ ovr[o].expired = "yes" \/ ovr[o].reserved = Never

-----------------------------------------------------------------------------
(* The inductive invariant behind them (PolicyGateProofs)                  *)

BlankIsFree == \A o \in Overrides :
  ovr[o].kind = "none" => ovr[o].consumed = "no" /\ ovr[o].reserved = Never

CrossedIsSpent == \A e \in Evals : Crossed(e) => \A o \in pend[e] : ovr[o].consumed = "yes"

HeldIsPending == \A e \in Evals :
  /\ held[e] \subseteq pend[e]
  /\ held[e] # {} => decision[e] = "ALLOW"
  /\ pc[e] = "idle" => held[e] = {} /\ pend[e] = {}
  /\ pc[e] = "record" => decision[e] = "ASK"

Owns(e, o) ==
  \/ pc[e] = "gate" /\ o \in surplus[e] \cup applied[e] \cup held[e]
  \/ pc[e] \in {"admitted", "releasing"} /\ o \in held[e]

Reserved(o) ==
  /\ OneShot(o) /\ ovr[o].consumed = "no" /\ ovr[o].expired = "no" /\ ovr[o].reserved # Never

ReservedIsOwned ==
  faults = 0 /\ crashes = 0 =>
    \A o \in Overrides : Reserved(o) => \E e \in Evals : Owns(e, o)

GateInv ==
  /\ TypeOK /\ BlankIsFree /\ CrossedIsSpent /\ HeldIsPending
  /\ OneLaunchPerApproval /\ SpentOnlyToCross /\ ReservedIsOwned

-----------------------------------------------------------------------------
(* What the repository says of approvals, and the code does not keep.      *)

(* policy_checkpoints.go (Consume): a reservation that self-healed into    *)
(* expired is not consumed; the launch is aborted.                         *)
ExpiredIsNotConsumed ==
  \A o \in Overrides : ~(ovr[o].expired = "yes" /\ ovr[o].consumed = "yes")

(* policy_checkpoints.go (PolicyOverride): a reservation goes back when    *)
(* the evaluation errored.  So an evaluation that returned an error leaves *)
(* nothing reserved that nobody else has claimed or will release.          *)
ErrorReturnsClaims ==
  \A e \in Evals, o \in Overrides :
    pc[e] = "failed" /\ o \in claimed[e] /\ ovr[o].consumed = "no" /\ ovr[o].reserved # Never =>
      o \in queued \/ \E f \in Evals \ {e} : o \in claimed[f]

(* ask.go (AskResolve): a one-shot authorises exactly one evaluation whose *)
(* gate unblocks.                                                          *)
OneShotOnce ==
  \A e, f \in Evals : pc[e] = "retried" /\ pc[f] = "retried" /\ e # f => pend[e] \cap pend[f] = {}

=============================================================================
