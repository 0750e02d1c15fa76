------------------------------- MODULE Quota -------------------------------
(***************************************************************************)
(* The quota ledger (internal/quota/quota.go): quota_windows and           *)
(* quota_reservations of one backend and account, shared by every process  *)
(* that runs a job.  A window is named by the length of its period.  Each  *)
(* SQL statement or transaction is one step; Reserve takes the time once   *)
(* and then runs several of them, so that the clock, other processes and   *)
(* a crash come in between.                                                *)
(***************************************************************************)
EXTENDS Integers, FiniteSets, Functions

CONSTANTS
  Runs,        \* runs, each with its process
  Configured,  \* periods of the windows of the `quotas:` block
  Periods,     \* all window types
  Limit,       \* estimated_limit of every configured window
  Usage,       \* EstimateUsage of every run
  Measures,    \* what a backend may report at the end (0: nothing)
  TTL,         \* of a reservation
  LastStart,   \* bound: the last time at which a reservation is made
  MaxTime,     \* bound: the clock
  MaxFaults    \* bound: failed settlements and releases

ASSUME QuotaAssumption ==
  /\ IsFiniteSet(Runs) /\ Configured \subseteq Periods /\ Periods \subseteq Nat \ {0}
  /\ Limit \in Nat \ {0} /\ Usage \in Nat \ {0} /\ Measures \subseteq Nat
  /\ TTL \in Nat /\ LastStart + TTL < MaxTime /\ MaxTime \in Nat /\ MaxFaults \in Nat

VARIABLES
  clock,
  win,     \* quota_windows
  resv,    \* quota_reservations, by run
  pc,      \* the step each run is at
  at,      \* the time a run's Reserve works with
  ids,     \* the stale reservations a run has selected
  keys,    \* the expired windows a run has selected
  queued,  \* quota operations of a run in the maintenance outbox
  faults,
  rolled   \* history: windows that were rolled over

vars == <<clock, win, resv, pc, at, ids, keys, queued, faults, rolled>>

NoWindow == [limit |-> 0, reset |-> 0, measured |-> 0, reserved |-> 0]

NoReservation == [state |-> "none", made |-> 0, expires |-> 0, closed |-> 0, measured |-> 0]

Open(r) == resv[r].state = "open"

Present(p) == win[p] # NoWindow

TypeOK ==
  /\ clock \in 0..MaxTime
  /\ \A p \in Periods : win[p].reset \in Nat /\ win[p].measured \in Nat /\ win[p].reserved \in Nat
  /\ \A r \in Runs : resv[r].state \in {"none", "open", "released", "settled"}
  /\ \A r \in Runs : ids[r] \subseteq Runs /\ keys[r] \subseteq Periods
  /\ pc \in [Runs -> {"start", "route", "reserve", "expire", "rollover", "working",
                      "refused", "unsettled", "hint", "done", "dead"}]

Init ==
  /\ clock = 0
  /\ win = [p \in Periods |-> NoWindow]
  /\ resv = [r \in Runs |-> NoReservation]
  /\ pc = [r \in Runs |-> "start"]
  /\ at = [r \in Runs |-> 0]
  /\ ids = [r \in Runs |-> {}] /\ keys = [r \in Runs |-> {}]
  /\ queued = [r \in Runs |-> {}]
  /\ faults = 0 /\ rolled = {}

-----------------------------------------------------------------------------
WindowStart(p, now) == now - (now % p)

NextReset(p, now) == WindowStart(p, now) + p

(* A window that exists gets the next reset of now, whether or not its     *)
(* period is over; what it has measured stays.                             *)
Seeded(p, now) ==
  IF Present(p) THEN [win[p] EXCEPT !.limit = Limit, !.reset = NextReset(p, now)]
                ELSE [NoWindow EXCEPT !.limit = Limit, !.reset = NextReset(p, now)]

(* runOnce: SeedFromConfig, an upsert per configured window.               *)
SeedFromConfig(r) ==
  /\ pc[r] = "start" /\ clock <= LastStart
  /\ win' = [p \in Periods |-> IF p \in Configured THEN Seeded(p, clock) ELSE win[p]]
  /\ pc' = [pc EXCEPT ![r] = "route"]
  /\ UNCHANGED <<clock, resv, at, ids, keys, queued, faults, rolled>>

(* claimReservation, of a reservation that is open.                        *)
Claim(r, state, now) ==
  resv' = [resv EXCEPT ![r].state = state, ![r].closed = now]

(* MAX(reserved_usage - usage, 0)                                          *)
Lower(n) == IF n > Usage THEN n - Usage ELSE 0

(* Mutant: the reservation is closed and its usage stays reserved.         *)
Release_KeepsReserved(r, now) ==
  IF Open(r) THEN Claim(r, "released", now) /\ UNCHANGED win
             ELSE UNCHANGED <<resv, win>>

(* Mutant: the claim does not look at settled_at.                          *)
Release_Unclaimed(r, now) ==
  IF resv[r].state # "none"
  THEN /\ Claim(r, "released", now)
       /\ win' = [p \in Periods |->
            IF Present(p) THEN [win[p] EXCEPT !.reserved = Lower(@)] ELSE win[p]]
  ELSE UNCHANGED <<resv, win>>

(* Release and expireOne: every window of the account, unless the          *)
(* reservation was closed before.                                          *)
Release(r, now) ==
  IF Open(r)
  THEN /\ Claim(r, "released", now)
       /\ win' = [p \in Periods |->
            IF Present(p) THEN [win[p] EXCEPT !.reserved = Lower(@)] ELSE win[p]]
  ELSE UNCHANGED <<resv, win>>

(* Settle: a run that reports nothing is charged its estimate.             *)
Settle(r, m, now) ==
  LET charge == IF m = 0 THEN Usage ELSE m
  IN IF Open(r)
     THEN /\ resv' = [resv EXCEPT ![r].state = "settled", ![r].closed = now,
                                  ![r].measured = charge]
          /\ win' = [p \in Periods |->
               IF Present(p) THEN [win[p] EXCEPT !.reserved = Lower(@), !.measured = @ + charge]
                             ELSE win[p]]
     ELSE UNCHANGED <<resv, win>>

-----------------------------------------------------------------------------
(* Reserve                                                                 *)

(* Mutant: the TTL is added twice.                                         *)
Stale_Late(now) == {x \in Runs : Open(x) /\ resv[x].expires + TTL < now}

(* The SELECT of ExpireStale.                                              *)
Stale(now) == {x \in Runs : Open(x) /\ resv[x].expires < now}

(* The SELECT of rolloverExpired.                                          *)
Expired(now) == {p \in Periods : Present(p) /\ win[p].reset <= now}

(* The router's Headroom rolls the windows over, like Reserve, or nothing  *)
(* asks for it (a contract that names its agent).                          *)
Route(r) ==
  /\ pc[r] = "route"
  /\ \/ /\ at' = [at EXCEPT ![r] = clock]
        /\ keys' = [keys EXCEPT ![r] = Expired(clock)]
     \/ UNCHANGED <<at, keys>>
  /\ pc' = [pc EXCEPT ![r] = "reserve"]
  /\ UNCHANGED <<clock, win, resv, ids, queued, faults, rolled>>

(* Reserve begins: the time, and ExpireStale's SELECT.                     *)
ReserveBegin(r) ==
  /\ pc[r] = "reserve" /\ keys[r] = {} /\ clock <= LastStart
  /\ at' = [at EXCEPT ![r] = clock]
  /\ ids' = [ids EXCEPT ![r] = Stale(clock)]
  /\ pc' = [pc EXCEPT ![r] = "expire"]
  /\ UNCHANGED <<clock, win, resv, keys, queued, faults, rolled>>

ExpireOne(r, x) ==
  /\ x \in ids[r]
  /\ Release(x, at[r])
  /\ ids' = [ids EXCEPT ![r] = @ \ {x}]
  /\ UNCHANGED <<clock, pc, at, keys, queued, faults, rolled>>

(* rolloverExpired: SELECT ...                                             *)
SelectExpired(r) ==
  /\ pc[r] = "expire" /\ ids[r] = {}
  /\ keys' = [keys EXCEPT ![r] = Expired(at[r])]
  /\ pc' = [pc EXCEPT ![r] = "rollover"]
  /\ UNCHANGED <<clock, win, resv, at, ids, queued, faults, rolled>>

(* ... and an unconditional UPDATE per key.                                *)
RolloverOne(r, p) ==
  /\ p \in keys[r]
  /\ win' = [win EXCEPT ![p].reset = NextReset(p, at[r]), ![p].measured = 0, ![p].reserved = 0]
  /\ keys' = [keys EXCEPT ![r] = @ \ {p}]
  /\ rolled' = rolled \cup {p}
  /\ UNCHANGED <<clock, resv, pc, at, ids, queued, faults>>

HasHeadroom(p) ==
  win[p].limit = 0 \/ win[p].measured + win[p].reserved + Usage <= win[p].limit

(* The transaction: every window has headroom, or nothing is booked.       *)
Admit(r) ==
  /\ pc[r] = "rollover" /\ keys[r] = {}
  /\ \/ /\ \E p \in Periods : Present(p) /\ ~HasHeadroom(p)
        /\ pc' = [pc EXCEPT ![r] = "refused"]
        /\ UNCHANGED <<win, resv>>
     \/ /\ \A p \in Periods : Present(p) => HasHeadroom(p)
        /\ win' = [p \in Periods |->
             IF Present(p) THEN [win[p] EXCEPT !.reserved = @ + Usage] ELSE win[p]]
        /\ resv' = [resv EXCEPT ![r] = [NoReservation EXCEPT !.state = "open",
                      !.made = at[r], !.expires = at[r] + TTL]]
        /\ pc' = [pc EXCEPT ![r] = "working"]
  /\ at' = [at EXCEPT ![r] = 0]
  /\ UNCHANGED <<clock, ids, keys, queued, faults, rolled>>

-----------------------------------------------------------------------------
(* The end of a run                                                        *)

SettleRun(r, m) ==
  /\ pc[r] = "working"
  /\ Settle(r, m, clock)
  /\ pc' = [pc EXCEPT ![r] = "hint"]
  /\ UNCHANGED <<clock, at, ids, keys, queued, faults, rolled>>

(* The settlement fails, or an error return comes before it; after a       *)
(* commit of the root it is queued.                                        *)
SettleFails(r) ==
  /\ pc[r] = "working" /\ faults < MaxFaults /\ faults' = faults + 1
  /\ queued' \in {queued, [queued EXCEPT ![r] = @ \cup {"settle"}]}
  /\ pc' = [pc EXCEPT ![r] = "unsettled"]
  /\ UNCHANGED <<clock, win, resv, at, ids, keys, rolled>>

(* The deferred release; if it fails it is queued.                         *)
ReleaseRun(r) ==
  /\ pc[r] = "unsettled"
  /\ \/ Release(r, clock) /\ UNCHANGED <<queued, faults>>
     \/ /\ faults < MaxFaults /\ faults' = faults + 1
        /\ queued' = [queued EXCEPT ![r] = @ \cup {"release"}]
        /\ UNCHANGED <<resv, win>>
  /\ pc' = [pc EXCEPT ![r] = "done"]
  /\ UNCHANGED <<clock, at, ids, keys, rolled>>

(* ApplyResetHint: a provider's reset time moves the reset of the window   *)
(* of that length, or creates one without a limit.                         *)
ApplyResetHint(r) ==
  /\ pc[r] = "hint"
  /\ \/ UNCHANGED win
     \/ \E p \in Periods, t \in 1..MaxTime :
          /\ clock < t /\ t <= clock + p
          /\ win' = [win EXCEPT ![p].reset = t]
  /\ pc' = [pc EXCEPT ![r] = "done"]
  /\ UNCHANGED <<clock, resv, at, ids, keys, queued, faults, rolled>>

(* `gov reconcile` replays a queued operation.                             *)
Replay(r, kind) ==
  /\ kind \in queued[r]
  /\ queued' = [queued EXCEPT ![r] = @ \ {kind}]
  /\ IF kind = "settle" THEN \E m \in Measures : Settle(r, m, clock) ELSE Release(r, clock)
  /\ UNCHANGED <<clock, pc, at, ids, keys, faults, rolled>>

Crash(r) ==
  /\ pc[r] \notin {"start", "refused", "done", "dead"}
  /\ pc' = [pc EXCEPT ![r] = "dead"]
  /\ at' = [at EXCEPT ![r] = 0]
  /\ ids' = [ids EXCEPT ![r] = {}] /\ keys' = [keys EXCEPT ![r] = {}]
  /\ UNCHANGED <<clock, win, resv, queued, faults, rolled>>

(* ReleaseForRun, called by the recovery of the run.                       *)
ReleaseForRun(r) ==
  /\ pc[r] = "dead" /\ Release(r, clock)
  /\ pc' = [pc EXCEPT ![r] = "done"]
  /\ UNCHANGED <<clock, at, ids, keys, queued, faults, rolled>>

(* `gov quota`, or anybody's Reserve: a stale reservation is expired.      *)
ExpireStale(x) ==
  /\ x \in Stale(clock)
  /\ Release(x, clock)
  /\ UNCHANGED <<clock, pc, at, ids, keys, queued, faults, rolled>>

(* `gov route --explain`: Headroom without a seed or a reservation.        *)
GovRoute(p) ==
  /\ p \in Expired(clock)
  /\ win' = [win EXCEPT ![p].reset = NextReset(p, clock), ![p].measured = 0, ![p].reserved = 0]
  /\ rolled' = rolled \cup {p}
  /\ UNCHANGED <<clock, resv, pc, at, ids, keys, queued, faults>>

Tick ==
  /\ clock < MaxTime /\ clock' = clock + 1
  /\ UNCHANGED <<win, resv, pc, at, ids, keys, queued, faults, rolled>>

-----------------------------------------------------------------------------
Step(r) ==
  \/ SeedFromConfig(r) \/ Route(r) \/ ReserveBegin(r)
  \/ (\E x \in Runs : ExpireOne(r, x))
  \/ SelectExpired(r) \/ (\E p \in Periods : RolloverOne(r, p)) \/ Admit(r)
  \/ (\E m \in Measures : SettleRun(r, m)) \/ SettleFails(r) \/ ReleaseRun(r)
  \/ ApplyResetHint(r) \/ (\E kind \in {"settle", "release"} : Replay(r, kind))
  \/ Crash(r) \/ ReleaseForRun(r)

Next ==
  \/ Tick
  \/ \E r \in Runs : Step(r) \/ ExpireStale(r)
  \/ \E p \in Periods : GovRoute(p)

Spec == Init /\ [][Next]_vars

(* Time passes and `gov quota`, or another run, comes by.                  *)
FairSpec == Spec /\ WF_vars(Tick) /\ \A r \in Runs : WF_vars(ExpireStale(r))

-----------------------------------------------------------------------------
OpenUsage == Usage * Cardinality({r \in Runs : Open(r)})

Charged == [r \in Runs |-> resv[r].measured]

(***************************************************************************)
(* reserved_usage never exceeds what the open reservations account for:    *)
(* no order of settlements, releases, expiries, recoveries, replays and    *)
(* rollovers leaves headroom reserved for a run that is gone.              *)
(***************************************************************************)
ReservedHasOwner == \A p \in Periods : win[p].reserved <= OpenUsage

(***************************************************************************)
(* Until its first rollover a configured window balances: reserved_usage   *)
(* is the sum of the open reservations and measured_usage the sum of the   *)
(* settled ones, each counted once, and together they respect the limit    *)
(* at the moment of every admission.                                       *)
(***************************************************************************)
BooksBalance ==
  \A p \in Configured : Present(p) /\ p \notin rolled =>
    /\ win[p].reserved = OpenUsage
    /\ win[p].measured = SumFunctionOnSet(Charged, Runs)

(* The books of the quota ledger: no headroom without an owner, ever, and  *)
(* exact until a window's first rollover.                                  *)
BooksSound == ReservedHasOwner /\ BooksBalance

(* A reservation does not stay open for ever, whatever its run does.       *)
ReservationEnds == \A r \in Runs : Open(r) ~> ~Open(r)

-----------------------------------------------------------------------------
(* What the repository says of the quota ledger, and it does not keep.     *)

(* quota.go (Reserve) and docs/security.md: concurrent reservations of one *)
(* period cannot together exceed the limit.                                *)
NoOvershoot ==
  \A p \in Configured :
    Usage * Cardinality({r \in Runs : Open(r) /\ resv[r].made >= WindowStart(p, clock)}) <= Limit

(* quota.go: a window answers how much headroom remains in this period.    *)
(* So a reservation is weighed against usage of its own period only.       *)
WeighedInPeriod ==
  [][\A r \in Runs : Admit(r) =>
       \A p \in Configured : Present(p) =>
         LET current == {x \in Runs : resv[x].closed >= WindowStart(p, at[r])}
         IN win[p].measured <= SumFunctionOnSet(Charged, current)]_vars

=============================================================================
