------------------------------ MODULE Breaker ------------------------------
(***************************************************************************)
(* The circuit breaker of one backend (internal/breaker): the row every    *)
(* `gov` process reads when it routes and rewrites when a run settles.     *)
(* load and save are two statements, so runs interleave between them, and  *)
(* a feedback that fails is queued and replayed by `gov reconcile`.        *)
(*                                                                         *)
(* Times are relative, so behaviours need no bound on the clock: cool is   *)
(* what is left until cooldown_until (Never for the zero time), age what   *)
(* has passed since updated_at, up to just beyond the transient window.    *)
(***************************************************************************)
EXTENDS Integers

CONSTANTS
  Runs,              \* runs of this backend in flight at once
  Choosers,          \* who may choose the backend, see chooser
  DoctorKinds,       \* kinds without a cooldown (AUTH_EXPIRED, ...)
  MaxShift,          \* the largest shift that is computed
  Doubling,          \* Doubling[n] is 1 << n, for n up to MaxShift
  BaseCooldown, MaxCooldown, QuotaCooldown, TransientCooldown,
  Resets,            \* what quota.NextReset may still have ahead
  Threshold, Window, \* of TRANSIENT_UPSTREAM
  MaxCount,          \* bound: consecutive failures are alike from here on
  MaxFaults          \* bound: failed statements

TRANSIENT == "TRANSIENT_UPSTREAM"
RATE_LIMIT == "RATE_LIMIT"
QUOTA == "QUOTA_EXHAUSTED"

InfraKinds == {TRANSIENT, RATE_LIMIT, QUOTA} \cup DoctorKinds

ASSUME BreakerAssumption ==
  /\ Choosers \subseteq {"broker", "contract"}
  /\ DoctorKinds \subseteq {"AUTH_EXPIRED", "BINARY_MISSING", "FLAG_DRIFT"}
  /\ BaseCooldown \in Nat \ {0} /\ MaxCooldown \in Nat \ {0}
  /\ QuotaCooldown \in Nat \ {0} /\ TransientCooldown \in Nat \ {0}
  /\ Resets \subseteq Nat \ {0}
  /\ Threshold \in Nat \ {0} /\ Window \in Nat
  /\ MaxCount \in Nat /\ MaxCount >= Threshold /\ MaxFaults \in Nat

(* Beyond MaxShift the cap is reached anyway, and counts are told apart    *)
(* until then.                                                             *)
ASSUME DoublingAssumption ==
  /\ MaxShift \in Nat
  /\ Doubling \in [0..MaxShift -> Nat \ {0}]
  /\ Doubling[0] = 1
  /\ \A n \in 1..MaxShift : Doubling[n] = 2 * Doubling[n - 1]
  /\ BaseCooldown * Doubling[MaxShift] >= MaxCooldown
  /\ MaxCount > MaxShift + 1

VARIABLES
  chooser,     \* "contract": contracts may name the backend themselves
  row,         \* breaker_state of the backend
  pc,          \* the step each run's feedback is at
  outcome,     \* what each run is to tell the breaker: a kind, or "reached"
  next,        \* the row a run has computed from the one it loaded
  faults,
  transients   \* history: runs that met a transient failure, up to Threshold

vars == <<chooser, row, pc, outcome, next, faults, transients>>

Never == -1

(* No row yet: CLOSED without history, and updated_at is zero.             *)
Healthy == [state |-> "CLOSED", kind |-> "", opened |-> "zero", cool |-> Never,
            count |-> 0, age |-> Window + 1]

Counts == 0..MaxCount
Cools == Nat \cup {Never}
Ages == 0..(Window + 1)
Kinds == InfraKinds \cup {""}
States == {"CLOSED", "DEGRADED", "OPEN"}
OpenedAt == {"zero", "set"}

Records == [state : States, kind : Kinds, opened : OpenedAt, cool : Cools,
            count : Counts, age : Ages]

TypeOK ==
  /\ row \in Records
  /\ pc \in [Runs -> {"idle", "working", "ended", "saving", "queued", "replaying"}]
  /\ outcome \in [Runs -> InfraKinds \cup {"reached"}]
  /\ next \in [Runs -> Records]
  /\ faults \in 0..MaxFaults
  /\ transients \in 0..Threshold

Init ==
  /\ chooser \in Choosers
  /\ row = Healthy
  /\ pc = [r \in Runs |-> "idle"]
  /\ outcome = [r \in Runs |-> "reached"]
  /\ next = [r \in Runs |-> Healthy]
  /\ faults = 0
  /\ transients = 0

-----------------------------------------------------------------------------
(* The policy: what a feedback makes of the row it loaded                  *)

AtMost(n, limit) == IF n <= limit THEN n ELSE limit

(* A row's times once one more unit has passed.                            *)
Later(rec) ==
  [state |-> rec.state, kind |-> rec.kind, opened |-> rec.opened, count |-> rec.count,
   cool |-> IF rec.cool > 0 THEN rec.cool - 1 ELSE rec.cool,
   age |-> AtMost(rec.age + 1, Window + 1)]

effectiveState(rec) ==
  IF rec.state = "OPEN" /\ rec.cool = 0 THEN "HALF_OPEN" ELSE rec.state

kindChanged(rec, kind) == rec.kind # "" /\ rec.kind # kind

Opens(kind, cool, count) ==
  [state |-> "OPEN", kind |-> kind, opened |-> "set", cool |-> cool, count |-> count, age |-> 0]

(* opened_at is kept, even when an OPEN breaker of another kind steps back.*)
Degrades(rec, count) ==
  [state |-> "DEGRADED", kind |-> TRANSIENT, opened |-> rec.opened, cool |-> Never,
   count |-> count, age |-> 0]

(* Degraded first, open from the threshold on; a predecessor of another    *)
(* kind or older than the window does not count.                           *)
Transient(rec) ==
  LET stale == kindChanged(rec, TRANSIENT) \/ rec.age > Window
      count == AtMost(IF stale THEN 1 ELSE rec.count + 1, MaxCount)
  IN IF count >= Threshold
     THEN Opens(TRANSIENT, TransientCooldown, count)
     ELSE Degrades(rec, count)

(* Mutant: the shift is not clamped, and the product wraps.                *)
Backoff_Unclamped(count) == AtMost((BaseCooldown * 2 ^ (count - 1)) % 4, MaxCooldown)

(* base << (count - 1), capped; a larger shift is the cap.                 *)
Backoff(count) ==
  IF count - 1 <= MaxShift
  THEN AtMost(BaseCooldown * Doubling[count - 1], MaxCooldown)
  ELSE MaxCooldown

RateLimit(rec) ==
  LET count == AtMost(IF kindChanged(rec, RATE_LIMIT) THEN 1 ELSE rec.count + 1, MaxCount)
  IN Opens(RATE_LIMIT, Backoff(count), count)

(* Mutant: a cooldown that is still running is kept.                       *)
DoctorGated_KeepsCooldown(kind) == Opens(kind, IF row.cool > 0 THEN row.cool ELSE Never, 0)

(* The zero cooldown: only a doctor pass or a reset recovers it.           *)
DoctorGated(kind) == Opens(kind, Never, 0)

(* applyPolicy: the rows it may leave (the quota reset is another table's).*)
applyPolicy(rec, kind) ==
  IF kind = TRANSIENT THEN {Transient(rec)}
  ELSE IF kind = RATE_LIMIT THEN {RateLimit(rec)}
  ELSE IF kind = QUOTA THEN {Opens(QUOTA, c, 0) : c \in Resets \cup {QuotaCooldown}}
  ELSE {DoctorGated(kind)}

(* What RecordSuccess and Reset write.                                     *)
Closes == [state |-> "CLOSED", kind |-> "", opened |-> "zero", cool |-> Never, count |-> 0, age |-> 0]

-----------------------------------------------------------------------------
(* One run                                                                 *)

(* Mutant: the broker routes to an OPEN backend.                           *)
Route_IgnoresOpen(r, named) ==
  /\ pc[r] = "idle"
  /\ named => chooser = "contract"
  /\ pc' = [pc EXCEPT ![r] = "working"]
  /\ UNCHANGED <<chooser, row, outcome, next, faults, transients>>

(* Routing reads the row: the broker excludes an OPEN backend, a contract  *)
(* that names it is only warned.                                           *)
Route(r, named) ==
  /\ pc[r] = "idle"
  /\ named => chooser = "contract"
  /\ named \/ effectiveState(row) # "OPEN"
  /\ pc' = [pc EXCEPT ![r] = "working"]
  /\ UNCHANGED <<chooser, row, outcome, next, faults, transients>>

(* The backend is reached or fails in one of the kinds (a refused quota    *)
(* reservation is QUOTA_EXHAUSTED before the agent starts).                *)
Ends(r, o) ==
  /\ pc[r] = "working"
  /\ pc' = [pc EXCEPT ![r] = "ended"]
  /\ outcome' = [outcome EXCEPT ![r] = o]
  /\ transients' = IF o = TRANSIENT THEN AtMost(transients + 1, Threshold) ELSE transients
  /\ UNCHANGED <<chooser, row, next, faults>>

(* The feedback of a run is over.                                          *)
Over(r) ==
  /\ pc' = [pc EXCEPT ![r] = "idle"]
  /\ outcome' = [outcome EXCEPT ![r] = "reached"]

(* The rows a feedback may leave.                                          *)
Writes(r) == IF outcome[r] = "reached" THEN {Closes} ELSE applyPolicy(row, outcome[r])

(* RecordSuccess and RecordFailure up to save, in the run or in a replay.  *)
Load(r) ==
  /\ pc[r] \in {"ended", "queued"}
  /\ outcome[r] = "reached" => row.state # "CLOSED"
  /\ \E rec \in Writes(r) : next' = [next EXCEPT ![r] = rec]
  /\ pc' = [pc EXCEPT ![r] = IF @ = "ended" THEN "saving" ELSE "replaying"]
  /\ UNCHANGED <<chooser, row, outcome, faults, transients>>

(* A success on a CLOSED backend has nothing to write.                     *)
NothingToClose(r) ==
  /\ pc[r] \in {"ended", "queued"}
  /\ outcome[r] = "reached" /\ row.state = "CLOSED"
  /\ Over(r)
  /\ UNCHANGED <<chooser, row, next, faults, transients>>

(* save and appendEvent succeed.                                           *)
Save(r) ==
  /\ pc[r] \in {"saving", "replaying"}
  /\ row' = next[r] /\ next' = [next EXCEPT ![r] = Healthy]
  /\ Over(r)
  /\ UNCHANGED <<chooser, faults, transients>>

(* The feedback failed: it is queued, or goes back to the queue.           *)
Queued(r) ==
  /\ faults < MaxFaults /\ faults' = faults + 1
  /\ pc' = [pc EXCEPT ![r] = "queued"]
  /\ next' = [next EXCEPT ![r] = Healthy]

(* save failed: nothing is written.                                        *)
SaveFails(r) ==
  /\ pc[r] \in {"saving", "replaying"}
  /\ Queued(r)
  /\ UNCHANGED <<chooser, row, outcome, transients>>

(* save wrote the row, then appendEvent failed: the caller sees an error   *)
(* and the whole feedback is queued.                                       *)
EventFails(r) ==
  /\ pc[r] \in {"saving", "replaying"}
  /\ row' = next[r]
  /\ Queued(r)
  /\ UNCHANGED <<chooser, outcome, transients>>

(* The process dies before it writes: a run's feedback is lost, and so is  *)
(* a replayed one, whose applied marker is already set.                    *)
Crash(r) ==
  /\ pc[r] \in {"working", "ended", "saving", "replaying"}
  /\ next' = [next EXCEPT ![r] = Healthy]
  /\ Over(r)
  /\ UNCHANGED <<chooser, row, faults, transients>>

(* `gov cleanup --stale` gives the queued feedback up.                     *)
GiveUp(r) ==
  /\ pc[r] = "queued"
  /\ Over(r)
  /\ UNCHANGED <<chooser, row, next, faults, transients>>

-----------------------------------------------------------------------------
(* The operator and the clock                                              *)

(* `gov health reset`, and `gov health` when the doctor check of a         *)
(* doctor-gated backend passes.                                            *)
Reset ==
  /\ row.state # "CLOSED"
  /\ row' = Closes
  /\ UNCHANGED <<chooser, pc, outcome, next, faults, transients>>

Tick ==
  /\ row' = Later(row)
  /\ next' = [r \in Runs |-> Later(next[r])]
  /\ UNCHANGED <<chooser, pc, outcome, faults, transients>>

Next ==
  \/ \E r \in Runs :
       \/ \E named \in BOOLEAN : Route(r, named)
       \/ \E o \in InfraKinds \cup {"reached"} : Ends(r, o)
       \/ Load(r) \/ NothingToClose(r) \/ Save(r) \/ SaveFails(r) \/ EventFails(r)
       \/ Crash(r) \/ GiveUp(r)
  \/ Reset
  \/ Tick

Spec == Init /\ [][Next]_vars

(* Only time is bound to pass: no agent, operator or `gov reconcile` need  *)
(* ever act.                                                               *)
FairSpec == Spec /\ WF_vars(Tick)

-----------------------------------------------------------------------------
(* Properties                                                              *)

(* An OPEN breaker has a way out that fits its kind: a cooldown exactly if *)
(* `gov health` does not examine it, and never a cooldown on a doctor-     *)
(* gated kind, which would become HALF_OPEN and be probed while the        *)
(* credential or binary is still missing.  DEGRADED and CLOSED rows keep   *)
(* no cooldown and too few failures to be open.                            *)
WayOut(rec) ==
  /\ rec.state = "OPEN" => (rec.cool = Never <=> rec.kind \in DoctorKinds)
  /\ rec.state = "OPEN" => rec.kind # "" /\ rec.opened = "set"
  /\ rec.state = "DEGRADED" => rec.kind = TRANSIENT /\ rec.count < Threshold /\ rec.cool = Never
  /\ rec.state = "CLOSED" => rec.kind = "" /\ rec.cool = Never /\ rec.count = 0

OpenHasAWayOut == WayOut(row)

(* A rate-limited backend that fails again before anything else happened   *)
(* waits at least as long again, up to the cap: the doubling never wraps   *)
(* to a short or elapsed cooldown, and no failure opens a breaker that is  *)
(* admissible at once.                                                     *)
BackoffGrows ==
  [][\A r \in Runs :
       Load(r) /\ outcome[r] = RATE_LIMIT =>
         /\ next'[r].cool >= BaseCooldown \/ next'[r].cool = MaxCooldown
         /\ row.kind = RATE_LIMIT => next'[r].cool >= row.cool]_vars

(* Without contracts that insist on the backend, a timed OPEN breaker is   *)
(* admissible again in the end (or a straggler has found it doctor-gated). *)
TimedOpenCools ==
  chooser = "broker" /\ row.state = "OPEN" /\ row.cool # Never
    ~> (effectiveState(row) # "OPEN" \/ row.kind \in DoctorKinds)

(* "recovers only via a doctor pass (or a manual reset)": a doctor-gated   *)
(* OPEN breaker is left through Reset alone.                               *)
DoctorGatedStays ==
  [][row.state = "OPEN" /\ row.kind \in DoctorKinds /\ row'.state # "OPEN" => Reset]_vars

(* "opens only after a threshold": a breaker that is OPEN for transient    *)
(* failures has seen Threshold runs fail.                                  *)
ThresholdMet ==
  row.state = "OPEN" /\ row.kind = TRANSIENT => transients >= Threshold

=============================================================================
