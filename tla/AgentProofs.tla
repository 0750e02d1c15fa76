---------------------------- MODULE AgentProofs ----------------------------
(***************************************************************************)
(* Proofs about the parts that decide which backend a run gets next, and   *)
(* about its launch: Breaker, for any number of runs and any cooldowns;    *)
(* Retry, for any registry, allowlists and bounds; StageLaunch, for any    *)
(* set of processes the payload may fork and any output limit: what        *)
(* Executor.Run may report of the processes it started; DockerLaunch: what *)
(* a docker launch may report of its container; and Batch, for any plans,  *)
(* panels and number of workers: what a batch does with its jobs.          *)
(***************************************************************************)
EXTENDS Breaker, Retry, StageLaunch, DockerLaunch, Batch, Sums, TLAPS

-----------------------------------------------------------------------------
(* The circuit breaker                                                     *)

(* The backoff of the row's count is an upper bound of what is left of it. *)
Backing(rw) ==
  rw.kind = RATE_LIMIT => rw.count >= 1 /\ rw.cool <= Backoff(rw.count)

(* What every row is, stored or about to be.                               *)
Sound(rw) == rw \in Records /\ WayOut(rw) /\ Backing(rw)

(* The inductive invariant: a row is computed from a sound one, so it is   *)
(* sound whatever was saved between its load and its save.                 *)
IInv ==
  /\ TypeOK
  /\ Sound(row)
  /\ \A r \in Runs : Sound(next[r])

-----------------------------------------------------------------------------

(* Backoff(count) is a cooldown between the base (or the cap) and the cap. *)
LEMMA BackoffRange ==
  ASSUME NEW n \in 1..MaxCount
  PROVE  /\ Backoff(n) \in Nat \ {0}
         /\ Backoff(n) <= MaxCooldown
         /\ Backoff(n) >= BaseCooldown \/ Backoff(n) = MaxCooldown
<1>1. CASE n - 1 <= MaxShift
  <2>1. Doubling[n - 1] \in Nat \ {0}
    BY <1>1, DoublingAssumption, BreakerAssumption
  <2> DEFINE d == Doubling[n - 1]
  <2>2. BaseCooldown * d \in Nat /\ BaseCooldown * d >= BaseCooldown
    <3> HIDE DEF d
    <3>1. d \in Nat /\ d >= 1
      BY <2>1 DEF d
    <3> QED
      BY <3>1, BreakerAssumption
  <2>3. Backoff(n) = AtMost(BaseCooldown * d, MaxCooldown)
    BY <1>1 DEF Backoff
  <2> HIDE DEF d
  <2> QED
    BY <2>2, <2>3, BreakerAssumption DEF AtMost
<1>2. CASE ~(n - 1 <= MaxShift)
  BY <1>2, BreakerAssumption DEF Backoff
<1> QED
  BY <1>1, <1>2

(* One failure more, and the backoff is no shorter.                        *)
LEMMA BackoffMonotone ==
  ASSUME NEW n \in 1..MaxCount
  PROVE  Backoff(n) <= Backoff(AtMost(n + 1, MaxCount))
<1> DEFINE m == AtMost(n + 1, MaxCount)
<1>1. m \in 1..MaxCount /\ (m = n \/ m = n + 1)
  BY BreakerAssumption DEF AtMost
<1>2. Backoff(n) \in Nat /\ Backoff(n) <= MaxCooldown
  BY BackoffRange
<1>3. CASE m = n
  BY <1>2, <1>3
<1>4. CASE m = n + 1 /\ n <= MaxShift
  <2>1. Doubling[n] = 2 * Doubling[n - 1] /\ Doubling[n - 1] \in Nat /\ Doubling[n] \in Nat
    BY <1>4, DoublingAssumption, BreakerAssumption
  <2> DEFINE d == Doubling[n - 1]
             e == Doubling[n]
  <2>2. Backoff(n) = AtMost(BaseCooldown * d, MaxCooldown)
    BY <1>4, DoublingAssumption DEF Backoff
  <2>3. Backoff(m) = AtMost(BaseCooldown * e, MaxCooldown)
    <3>1. m - 1 = n
      BY <1>4
    <3> QED
      BY <1>4, <3>1 DEF Backoff
  <2>4. BaseCooldown * d <= BaseCooldown * e /\ BaseCooldown * d \in Nat /\ BaseCooldown * e \in Nat
    <3>1. d \in Nat /\ e = d + d
      BY <2>1
    <3> HIDE DEF d, e
    <3>2. BaseCooldown * d \in Nat
      BY <3>1, BreakerAssumption
    <3>3. BaseCooldown * e = BaseCooldown * d + BaseCooldown * d
      BY <3>1, BreakerAssumption
    <3> QED
      BY <3>2, <3>3
  <2>5. Backoff(n) <= Backoff(m)
    <3> HIDE DEF d, e, m
    <3> QED
      BY <2>2, <2>3, <2>4, BreakerAssumption DEF AtMost
  <2> QED
    BY <2>5
<1>5. CASE m = n + 1 /\ ~(n <= MaxShift)
  <2>1. Backoff(m) = MaxCooldown
    BY <1>5, DoublingAssumption DEF Backoff
  <2> QED
    BY <1>2, <2>1
<1> QED
  BY <1>1, <1>3, <1>4, <1>5

-----------------------------------------------------------------------------
(* Every row the policy writes is sound                                    *)

(* What the sets of field values hold.                                     *)
LEMMA FieldValues ==
  /\ 0 \in Counts /\ 1..MaxCount \subseteq Counts
  /\ Never \in Cools /\ Nat \subseteq Cools
  /\ 0 \in Ages /\ Window + 1 \in Ages
  /\ "" \in Kinds /\ InfraKinds \subseteq Kinds
  /\ "CLOSED" \in States /\ "DEGRADED" \in States /\ "OPEN" \in States
  /\ "zero" \in OpenedAt /\ "set" \in OpenedAt
<1>1. 0 \in Counts /\ 1..MaxCount \subseteq Counts /\ 0 \in Ages /\ Window + 1 \in Ages
  BY BreakerAssumption DEF Counts, Ages
<1>2. Never \in Cools /\ Nat \subseteq Cools
  BY DEF Cools
<1>3. "" \in Kinds /\ InfraKinds \subseteq Kinds
  BY DEF Kinds
<1> QED
  BY <1>1, <1>2, <1>3 DEF States, OpenedAt

(* A row with all its fields replaced.                                     *)
LEMMA RecordTyped ==
  ASSUME NEW st \in States, NEW k \in Kinds, NEW o \in OpenedAt, NEW c \in Cools,
         NEW n \in Counts, NEW a \in Ages
  PROVE  [state |-> st, kind |-> k, opened |-> o, cool |-> c, count |-> n, age |-> a] \in Records
  BY DEF Records

(* A row is its fields.                                                    *)
LEMMA RecordFields ==
  ASSUME NEW rw \in Records
  PROVE  /\ rw.state \in States /\ rw.kind \in Kinds /\ rw.opened \in OpenedAt
         /\ rw.cool \in Cools /\ rw.count \in Counts /\ rw.age \in Ages
         /\ rw = [state |-> rw.state, kind |-> rw.kind, opened |-> rw.opened,
                  cool |-> rw.cool, count |-> rw.count, age |-> rw.age]
  BY DEF Records

(* The row of a backend without history, and the one a success leaves.     *)
LEMMA HealthySound == Sound(Healthy) /\ Sound(Closes)
<1> SUFFICES ASSUME NEW w \in {Healthy, Closes} PROVE Sound(w)
  OBVIOUS
<1>1. /\ w \in Records /\ w.state = "CLOSED" /\ w.kind = "" /\ w.cool = Never
      /\ w.count = 0
  <2>1. PICK a \in Ages : w = [state |-> "CLOSED", kind |-> "", opened |-> "zero",
                               cool |-> Never, count |-> 0, age |-> a]
    BY FieldValues DEF Healthy, Closes
  <2>2. w \in Records
    BY <2>1, FieldValues, RecordTyped
  <2> QED
    BY <2>1, <2>2
<1>2. WayOut(w)
  BY <1>1 DEF WayOut
<1>3. Backing(w)
  BY <1>1 DEF Backing, RATE_LIMIT
<1> QED
  BY <1>1, <1>2, <1>3 DEF Sound

(* What Opens returns, field by field.                                     *)
LEMMA OpensRecord ==
  ASSUME NEW kind \in InfraKinds, NEW cool \in Cools, NEW count \in Counts
  PROVE  /\ Opens(kind, cool, count) \in Records
         /\ Opens(kind, cool, count).state = "OPEN"
         /\ Opens(kind, cool, count).kind = kind
         /\ Opens(kind, cool, count).cool = cool
         /\ Opens(kind, cool, count).count = count
         /\ Opens(kind, cool, count).opened = "set"
<1>1. Opens(kind, cool, count)
        = [state |-> "OPEN", kind |-> kind, opened |-> "set", cool |-> cool,
           count |-> count, age |-> 0]
  BY DEF Opens
<1>2. [state |-> "OPEN", kind |-> kind, opened |-> "set", cool |-> cool,
       count |-> count, age |-> 0] \in Records
  BY FieldValues, RecordTyped
<1> QED
  BY <1>1, <1>2

(* Opening with a cooldown exactly for the kinds that have one.            *)
LEMMA OpensSound ==
  ASSUME NEW kind \in InfraKinds, NEW cool \in Cools,
         NEW count \in Counts,
         cool = Never <=> kind \in DoctorKinds,
         kind = RATE_LIMIT => count >= 1 /\ cool <= Backoff(count)
  PROVE  Sound(Opens(kind, cool, count))
<1> DEFINE w == Opens(kind, cool, count)
<1>1. /\ w \in Records /\ w.state = "OPEN" /\ w.kind = kind /\ w.cool = cool
      /\ w.count = count /\ w.opened = "set"
  BY OpensRecord
<1>2. kind # ""
  BY BreakerAssumption DEF InfraKinds, TRANSIENT, RATE_LIMIT, QUOTA
<1> HIDE DEF w
<1>3. WayOut(w)
  BY <1>1, <1>2 DEF WayOut
<1>4. Backing(w)
  BY <1>1 DEF Backing
<1> QED
  BY <1>1, <1>3, <1>4 DEF Sound, w

LEMMA TransientSound ==
  ASSUME NEW rw, Sound(rw)
  PROVE  Sound(Transient(rw))
<1> DEFINE stale == kindChanged(rw, TRANSIENT) \/ rw.age > Window
           count == AtMost(IF stale THEN 1 ELSE rw.count + 1, MaxCount)
           w == Degrades(rw, count)
<1>1. rw \in Records /\ rw.count \in 0..MaxCount
  BY RecordFields DEF Sound, Counts
<1>2. count \in 1..MaxCount
  BY <1>1, BreakerAssumption DEF AtMost
<1>3. TRANSIENT \in InfraKinds /\ TRANSIENT \notin DoctorKinds /\ TRANSIENT # RATE_LIMIT
  BY BreakerAssumption DEF InfraKinds, TRANSIENT, RATE_LIMIT
<1>4. Transient(rw) = IF count >= Threshold
                       THEN Opens(TRANSIENT, TransientCooldown, count) ELSE w
  BY DEF Transient
<1> HIDE DEF stale, count
<1>5. CASE count >= Threshold
  <2>1. TransientCooldown \in Nat /\ TransientCooldown # Never
    BY BreakerAssumption DEF Never
  <2>2. Sound(Opens(TRANSIENT, TransientCooldown, count))
    BY <1>1, <1>2, <1>3, <2>1, FieldValues, OpensSound
  <2> QED
    BY <1>4, <1>5, <2>2
<1>6. CASE ~(count >= Threshold)
  <2>0. w = [state |-> "DEGRADED", kind |-> TRANSIENT, opened |-> rw.opened,
             cool |-> Never, count |-> count, age |-> 0]
    BY DEF Degrades
  <2>1. w \in Records
    <3>1. TRANSIENT \in Kinds /\ rw.opened \in OpenedAt /\ count \in Counts
      BY <1>1, <1>2, <1>3, FieldValues, RecordFields
    <3> QED
      BY <2>0, <3>1, FieldValues, RecordTyped
  <2>2. w.state = "DEGRADED" /\ w.kind = TRANSIENT /\ w.cool = Never /\ w.count = count
    BY <2>0
  <2> HIDE DEF w
  <2>3. WayOut(w)
    BY <2>2, <1>2, <1>6, BreakerAssumption DEF WayOut
  <2>4. Backing(w)
    BY <2>2, <1>3 DEF Backing
  <2>5. Sound(w)
    BY <2>1, <2>3, <2>4 DEF Sound
  <2> QED
    BY <1>4, <1>6, <2>5
<1> QED
  BY <1>5, <1>6

LEMMA RateLimitSound ==
  ASSUME NEW rw, Sound(rw)
  PROVE  Sound(RateLimit(rw))
<1> DEFINE count == AtMost(IF kindChanged(rw, RATE_LIMIT) THEN 1 ELSE rw.count + 1, MaxCount)
<1>1. rw \in Records /\ rw.count \in 0..MaxCount
  BY RecordFields DEF Sound, Counts
<1>2. count \in 1..MaxCount
  BY <1>1, BreakerAssumption DEF AtMost
<1>3. RateLimit(rw) = Opens(RATE_LIMIT, Backoff(count), count)
  BY DEF RateLimit
<1> HIDE DEF count
<1>4. Backoff(count) \in Nat /\ Backoff(count) # Never
  BY <1>2, BackoffRange DEF Never
<1>5. RATE_LIMIT \in InfraKinds /\ RATE_LIMIT \notin DoctorKinds
  BY BreakerAssumption DEF InfraKinds, RATE_LIMIT
<1> DEFINE b == Backoff(count)
<1>7. Sound(Opens(RATE_LIMIT, b, count))
  <2>1. b \in Nat /\ b # Never /\ b = Backoff(count)
    BY <1>4
  <2> HIDE DEF b
  <2>2. b <= Backoff(count) /\ count >= 1
    BY <1>2, <2>1
  <2>3. b \in Cools
    BY <2>1 DEF Cools
  <2>4. count \in Counts
    BY <1>2 DEF Counts
  <2> QED
    BY <1>5, <2>1, <2>2, <2>3, <2>4, OpensSound
<1> QED
  BY <1>3, <1>7

LEMMA PolicySound ==
  ASSUME NEW rw, Sound(rw), NEW kind \in InfraKinds, NEW w \in applyPolicy(rw, kind)
  PROVE  Sound(w)
<1>1. rw \in Records
  BY DEF Sound
<1>2. CASE kind = TRANSIENT
  BY <1>2, TransientSound DEF applyPolicy
<1>3. CASE kind = RATE_LIMIT
  BY <1>3, RateLimitSound DEF applyPolicy, RATE_LIMIT, TRANSIENT
<1>4. CASE kind = QUOTA
  <2>1. PICK c \in Resets \cup {QuotaCooldown} : w = Opens(QUOTA, c, 0)
    BY <1>4 DEF applyPolicy, RATE_LIMIT, TRANSIENT, QUOTA
  <2>2. c \in Nat /\ c # Never
    BY BreakerAssumption DEF Never
  <2>3. QUOTA \in InfraKinds /\ QUOTA \notin DoctorKinds /\ QUOTA # RATE_LIMIT
    BY BreakerAssumption DEF InfraKinds, QUOTA, RATE_LIMIT
  <2> QED
    BY <1>1, <2>1, <2>2, <2>3, FieldValues, OpensSound
<1>5. CASE kind \in DoctorKinds
  <2>1. w = Opens(kind, Never, 0)
    BY <1>5, BreakerAssumption DEF applyPolicy, DoctorGated, RATE_LIMIT, TRANSIENT, QUOTA
  <2>2. kind # RATE_LIMIT
    BY <1>5, BreakerAssumption DEF RATE_LIMIT
  <2> QED
    BY <1>1, <1>5, <2>1, <2>2, FieldValues, OpensSound
<1> QED
  BY <1>2, <1>3, <1>4, <1>5 DEF InfraKinds

(* Time passing leaves a sound row sound.                                  *)
LEMMA LaterSound ==
  ASSUME NEW rw, Sound(rw)
  PROVE  Sound(Later(rw))
<1> DEFINE w == Later(rw)
<1>1. rw \in Records
  BY DEF Sound
<1>4. rw.cool \in Nat \cup {Never} /\ rw.count \in 0..MaxCount /\ rw.age \in 0..(Window + 1)
  BY <1>1, RecordFields DEF Cools, Counts, Ages
<1> DEFINE a == AtMost(rw.age + 1, Window + 1)
           c == IF rw.cool > 0 THEN rw.cool - 1 ELSE rw.cool
<1>0. w = [state |-> rw.state, kind |-> rw.kind, opened |-> rw.opened,
           cool |-> c, count |-> rw.count, age |-> a]
  BY DEF Later
<1>2. w \in Records
  <2>1. a \in Ages
    BY <1>4, BreakerAssumption DEF AtMost, Ages
  <2>2. c \in Cools
    BY <1>4 DEF Never, Cools
  <2> HIDE DEF a, c
  <2> QED
    BY <1>0, <1>1, <2>1, <2>2, RecordFields, RecordTyped
<1>3. /\ w.state = rw.state /\ w.kind = rw.kind /\ w.opened = rw.opened
      /\ w.count = rw.count /\ w.cool = (IF rw.cool > 0 THEN rw.cool - 1 ELSE rw.cool)
  BY <1>0
<1>5. w.cool = Never <=> rw.cool = Never
  BY <1>3, <1>4 DEF Never
<1> HIDE DEF w
<1>6. WayOut(w)
  BY <1>3, <1>5 DEF Sound, WayOut
<1>7. Backing(w)
  <2>1. SUFFICES ASSUME w.kind = RATE_LIMIT PROVE w.count >= 1 /\ w.cool <= Backoff(w.count)
    BY DEF Backing
  <2>2. rw.count >= 1 /\ rw.cool <= Backoff(rw.count)
    BY <2>1, <1>3 DEF Sound, Backing
  <2>3. Backoff(rw.count) \in Nat
    BY <1>4, <2>2, BackoffRange
  <2> QED
    BY <1>3, <1>4, <2>2, <2>3 DEF Never
<1> QED
  BY <1>2, <1>6, <1>7 DEF Sound, w

-----------------------------------------------------------------------------

LEMMA InitInvariant == Init => IInv
<1> SUFFICES ASSUME Init PROVE IInv
  OBVIOUS
<1>1. TypeOK
  BY HealthySound, BreakerAssumption DEF Init, TypeOK, Sound
<1> QED
  BY <1>1, HealthySound DEF Init, IInv

LEMMA NextInvariant == IInv /\ [Next]_vars => IInv'
<1> SUFFICES ASSUME IInv, [Next]_vars PROVE IInv'
  OBVIOUS
<1> USE DEF IInv
<1>0. Sound(Healthy) /\ Sound(Closes)
  BY HealthySound
<1>a. \A x : Sound(x) => x \in Records
  BY DEF Sound
<1>1. ASSUME NEW r \in Runs, NEW named \in BOOLEAN, Route(r, named) PROVE IInv'
  BY <1>1 DEF Route, TypeOK
<1>2. ASSUME NEW r \in Runs, NEW o \in InfraKinds \cup {"reached"}, Ends(r, o) PROVE IInv'
  <2>1. transients' \in 0..Threshold
    BY <1>2, BreakerAssumption DEF Ends, TypeOK, AtMost
  <2> QED
    BY <1>2, <2>1 DEF Ends, TypeOK
<1>3. ASSUME NEW r \in Runs, Load(r) PROVE IInv'
  <2>1. PICK rw \in Writes(r) : next' = [next EXCEPT ![r] = rw]
    BY <1>3 DEF Load
  <2>2. Sound(rw)
    <3>1. CASE outcome[r] = "reached"
      BY <2>1, <3>1, <1>0 DEF Writes
    <3>2. CASE outcome[r] # "reached"
      <4>1. outcome[r] \in InfraKinds
        BY <3>2 DEF TypeOK
      <4> QED
        BY <2>1, <3>2, <4>1, PolicySound DEF Writes
    <3> QED
      BY <3>1, <3>2
  <2>3. pc' \in [Runs -> {"idle", "working", "ended", "saving", "queued", "replaying"}]
    BY <1>3 DEF Load, TypeOK
  <2> QED
    BY <1>3, <1>a, <2>1, <2>2, <2>3 DEF Load, TypeOK
<1>4. ASSUME NEW r \in Runs, NothingToClose(r) PROVE IInv'
  BY <1>4, BreakerAssumption DEF NothingToClose, Over, TypeOK
<1>5. ASSUME NEW r \in Runs, Save(r) PROVE IInv'
  BY <1>5, <1>0, <1>a, BreakerAssumption DEF Save, Over, TypeOK
<1>7. ASSUME NEW r \in Runs, SaveFails(r) PROVE IInv'
  BY <1>7, <1>0, <1>a, BreakerAssumption DEF SaveFails, Queued, TypeOK
<1>8. ASSUME NEW r \in Runs, EventFails(r) PROVE IInv'
  BY <1>8, <1>0, <1>a, BreakerAssumption DEF EventFails, Queued, TypeOK
<1>9. ASSUME NEW r \in Runs, Crash(r) PROVE IInv'
  BY <1>9, <1>0, <1>a DEF Crash, Over, TypeOK
<1>6. ASSUME NEW r \in Runs, GiveUp(r) PROVE IInv'
  BY <1>6 DEF GiveUp, Over, TypeOK
<1>10. CASE Reset
  BY <1>10, <1>0, <1>a DEF Reset, TypeOK
<1>11. CASE Tick
  <2>1. Sound(row')
    BY <1>11, LaterSound DEF Tick
  <2>2. \A r \in Runs : Sound(next'[r])
    BY <1>11, LaterSound DEF Tick
  <2>3. next' \in [Runs -> Records]
    BY <1>11, <1>a, LaterSound DEF Tick
  <2> QED
    BY <1>11, <1>a, <2>1, <2>2, <2>3 DEF Tick, TypeOK
<1>12. CASE UNCHANGED vars
  BY <1>12 DEF vars, TypeOK
<1> QED
  BY <1>1, <1>2, <1>3, <1>4, <1>5, <1>6, <1>7, <1>8, <1>9, <1>10, <1>11, <1>12 DEF Next

(* Every behaviour of the breaker keeps the inductive invariant.           *)
THEOREM BreakerInvariance == Spec => []IInv
  BY InitInvariant, NextInvariant, PTL DEF Spec

(* The breaker's variables keep their types, and HALF_OPEN is never saved. *)
THEOREM TypeCorrectness == Spec => []TypeOK
<1>1. IInv => TypeOK
  BY DEF IInv
<1> QED
  BY <1>1, BreakerInvariance, PTL

(* No interleaving of feedbacks, failures, replays and resets leaves an    *)
(* OPEN breaker without the way out its kind has.                          *)
THEOREM EveryOpenHasAWayOut == Spec => []OpenHasAWayOut
<1>1. IInv => OpenHasAWayOut
  BY DEF IInv, Sound, OpenHasAWayOut
<1> QED
  BY <1>1, BreakerInvariance, PTL

(* The backoff of a rate-limited backend never shrinks within an episode.  *)
THEOREM BackoffAlwaysGrows == Spec => BackoffGrows
<1> DEFINE Grows == \A r \in Runs :
             Load(r) /\ outcome[r] = RATE_LIMIT =>
               /\ next'[r].cool >= BaseCooldown \/ next'[r].cool = MaxCooldown
               /\ row.kind = RATE_LIMIT => next'[r].cool >= row.cool
<1>1. ASSUME IInv PROVE Grows
  <2> SUFFICES ASSUME NEW r \in Runs, Load(r), outcome[r] = RATE_LIMIT
               PROVE  /\ next'[r].cool >= BaseCooldown \/ next'[r].cool = MaxCooldown
                      /\ row.kind = RATE_LIMIT => next'[r].cool >= row.cool
    OBVIOUS
  <2> DEFINE count == AtMost(IF kindChanged(row, RATE_LIMIT) THEN 1 ELSE row.count + 1, MaxCount)
  <2>1. next' = [next EXCEPT ![r] = RateLimit(row)]
    BY DEF Load, Writes, applyPolicy, RATE_LIMIT, TRANSIENT
  <2>2. next'[r] = RateLimit(row)
    BY <1>1, <2>1 DEF IInv, TypeOK
  <2>3. row \in Records /\ row.count \in 0..MaxCount /\ row.cool \in Nat \cup {Never}
    BY <1>1, RecordFields DEF IInv, Sound, Counts, Cools
  <2>4. count \in 1..MaxCount
    BY <2>3, BreakerAssumption DEF AtMost
  <2>5. RateLimit(row) = Opens(RATE_LIMIT, Backoff(count), count)
    BY DEF RateLimit
  <2>6. RateLimit(row).cool = Backoff(count)
    <3> HIDE DEF count
    <3> QED
      BY <2>5 DEF Opens
  <2>7. Backoff(count) >= BaseCooldown \/ Backoff(count) = MaxCooldown
    BY <2>4, BackoffRange
  <2>8. ASSUME row.kind = RATE_LIMIT PROVE Backoff(count) >= row.cool
    <3>1. row.count >= 1 /\ row.cool <= Backoff(row.count)
      BY <1>1, <2>8 DEF IInv, Sound, Backing
    <3>2. count = AtMost(row.count + 1, MaxCount)
      BY <2>8 DEF kindChanged
    <3>3. row.count \in 1..MaxCount
      BY <2>3, <3>1
    <3>4. Backoff(row.count) <= Backoff(count)
      BY <3>2, <3>3, BackoffMonotone
    <3> HIDE DEF count
    <3>5. Backoff(row.count) \in Nat /\ Backoff(count) \in Nat
      BY <2>4, <3>3, BackoffRange
    <3> QED
      BY <2>3, <3>1, <3>4, <3>5 DEF Never
  <2> QED
    BY <2>2, <2>6, <2>7, <2>8
<1>2. IInv => [Grows]_vars
  BY <1>1
<1> HIDE DEF Grows
<1>3. Spec => [][Grows]_vars
  BY <1>2, BreakerInvariance, PTL
<1> QED
  BY <1>3 DEF BackoffGrows, Grows

-----------------------------------------------------------------------------
(* One job's fallbacks and repairs                                         *)

RetrySpec == RetryInit /\ [][RetryNext]_rtVars

JobType ==
  /\ job.auto \in BOOLEAN /\ job.allow \in SUBSET Nat
  /\ job.max \in Nat \ {0} /\ job.fixMax \in {1, 2} /\ job.backend \in Nat
Attempts == [n : Nat \ {0}, failed : SUBSET Nat, launched : Seq(Nat)]
Contracts == [auto : BOOLEAN, allow : SUBSET Nat, repair : BOOLEAN]
Ledgers == [repairs : Nat, fallback : Nat]
Statuses == {"none", "APPROVED", "QUARANTINED", "RUNNING"}
Taxonomies == {"", "SPEND_CAP", "VALIDATION", "RATE_LIMIT", "FLAG_DRIFT"}
RunRecords == [id : BOOLEAN, st : Statuses, tax : Taxonomies, agent : Nat, clean : BOOLEAN,
            err : BOOLEAN]

RetryTypes == JobType /\ att \in Attempts /\ cur \in Contracts /\ led \in Ledgers /\ rec \in RunRecords

(* No backend twice, and what failed is out of the candidates.             *)
Distinct(s) == \A i, j \in DOMAIN s : s[i] = s[j] => i = j
Tried == {att.launched[i] : i \in DOMAIN att.launched}
Candidates ==
  /\ cur.auto => candidatePool(cur.allow) = candidatePool(job.allow) \ att.failed
  /\ cur.auto => Tried \subseteq candidatePool(job.allow)
  /\ rtPc = "run" => Tried \subseteq att.failed /\ (~cur.auto => att.launched = <<>>)
  /\ rtPc = "eligible" => cur.auto /\ Tried \subseteq att.failed \cup {rec.agent}

(* How many runs a job has had.                                            *)
Begun == IF rtPc = "run" THEN att.n - 1 ELSE att.n
Counted ==
  /\ att.n <= job.max /\ Len(att.launched) <= Begun
  /\ led.repairs <= job.fixMax - 1 + Begun

RetryInv == RetryTypes /\ Distinct(att.launched) /\ Candidates /\ Counted

(* The pool of candidates is part of the registry.                         *)
LEMMA PoolIsRegistered ==
  ASSUME NEW allow
  PROVE  /\ candidatePool(allow) \in SUBSET Nat
         /\ candidatePool(candidatePool(allow)) = IF candidatePool(allow) = {} THEN Registered
                                                  ELSE candidatePool(allow)
BY RouterAssumption DEF candidatePool

(* What a run may return names a backend it was allowed to choose.         *)
LEMMA RecordOfRun ==
  ASSUME RetryTypes, RunOnceReturns
  PROVE  rec' \in RunRecords /\ rec'.agent \in RouteChoices \cup {NoAgent}
<1>1. RouteChoices \in SUBSET Nat /\ NoAgent \in Nat
  BY PoolIsRegistered DEF RouteChoices, FixedAgent, NoAgent, RetryTypes, JobType
<1>2. CASE rec' \in RunOnceRefused
  <2>1. NoRec \in RunRecords /\ NoRec.agent = NoAgent
    BY <1>1 DEF NoRec, RunRecords, Statuses, Taxonomies
  <2>2. [NoRec EXCEPT !.err = TRUE] \in RunRecords /\ [NoRec EXCEPT !.err = TRUE].agent = NoAgent
    BY <2>1 DEF RunRecords
  <2>3. LET r == Rec(TRUE, "QUARANTINED", "SPEND_CAP", NoAgent, FALSE, FALSE)
        IN  r \in RunRecords /\ r.agent = NoAgent
    BY <1>1 DEF Rec, RunRecords, Statuses, Taxonomies
  <2> QED BY <1>2, <2>2, <2>3 DEF RunOnceRefused
<1>3. ASSUME NEW n \in RouteChoices, NEW c \in BOOLEAN, rec' \in RunOnceRecords(n, c)
      PROVE  rec' \in RunRecords /\ rec'.agent = n
  <2>1. ASSUME NEW st \in Statuses, NEW tax \in Taxonomies, NEW d \in BOOLEAN, NEW e \in BOOLEAN
        PROVE  Rec(TRUE, st, tax, n, d, e) \in RunRecords /\ Rec(TRUE, st, tax, n, d, e).agent = n
    BY <1>1 DEF Rec, RunRecords
  <2> QED BY <1>3, <2>1 DEF RunOnceRecords, Statuses, Taxonomies
<1> QED BY <1>2, <1>3 DEF RunOnceReturns

(* A backend that was not tried is appended.                               *)
LEMMA AppendDistinct ==
  ASSUME NEW s \in Seq(Nat), NEW a \in Nat, Distinct(s), \A i \in DOMAIN s : s[i] # a
  PROVE  /\ Append(s, a) \in Seq(Nat) /\ Len(Append(s, a)) = Len(s) + 1 /\ Distinct(Append(s, a))
         /\ {Append(s, a)[i] : i \in DOMAIN Append(s, a)} = {s[i] : i \in DOMAIN s} \cup {a}
<1>1. /\ Append(s, a) \in Seq(Nat) /\ Len(Append(s, a)) = Len(s) + 1
      /\ DOMAIN Append(s, a) = 1..Len(s) + 1 /\ DOMAIN s = 1..Len(s) /\ Len(s) \in Nat
      /\ Append(s, a)[Len(s) + 1] = a
      /\ \A i \in 1..Len(s) : Append(s, a)[i] = s[i]
  OBVIOUS
<1>2. Distinct(Append(s, a))
  BY <1>1 DEF Distinct
<1>3. \A i \in 1..Len(s) + 1 : i \in 1..Len(s) \/ i = Len(s) + 1
  BY <1>1
<1>4. 1..Len(s) \subseteq 1..Len(s) + 1 /\ Len(s) + 1 \in 1..Len(s) + 1
  BY <1>1
<1> QED BY <1>1, <1>2, <1>3, <1>4

(* runOnce launches a backend that was not tried in this Run.              *)
LEMMA RunOnceKeeps ==
  ASSUME RetryInv, RunOnceReturns
  PROVE  RetryInv'
<1> DEFINE r == rec'
<1>1. /\ att' = [att EXCEPT !.launched = IF r.agent = NoAgent THEN @ ELSE Append(@, r.agent)]
      /\ led' = [led EXCEPT !.repairs = IF r.id /\ cur.repair THEN @ + 1 ELSE @]
  BY DEF RunOnceReturns
<1>2. /\ rtPc = "run" /\ rtPc' \in {"eligible", "returned"} /\ UNCHANGED <<job, cur, keep>>
      /\ rtPc' = "eligible" => cur.auto
  BY DEF RunOnceReturns, routingFallbackEnabled
<1>3. r \in RunRecords /\ r.agent \in RouteChoices \cup {NoAgent} /\ r.agent \in Nat
  BY RecordOfRun DEF RetryInv, RunRecords
<1> DEFINE s == IF r.agent = NoAgent THEN att.launched ELSE Append(att.launched, r.agent)
<1>4. ASSUME r.agent # NoAgent
      PROVE  /\ \A i \in DOMAIN att.launched : att.launched[i] # r.agent
             /\ cur.auto => r.agent \in candidatePool(job.allow)
  <2>1. CASE cur.auto
    BY <1>2, <1>3, <1>4, <2>1 DEF RetryInv, Candidates, RouteChoices, Tried
  <2>2. CASE ~cur.auto
    BY <1>2, <2>2 DEF RetryInv, Candidates
  <2> QED BY <2>1, <2>2
<1>5. /\ s \in Seq(Nat) /\ Distinct(s) /\ Len(s) <= Len(att.launched) + 1 /\ Len(s) \in Nat
      /\ {s[i] : i \in DOMAIN s} \subseteq Tried \cup {r.agent}
      /\ cur.auto => {s[i] : i \in DOMAIN s} \subseteq candidatePool(job.allow)
  <2>1. att.launched \in Seq(Nat) /\ Len(att.launched) \in Nat
    BY DEF RetryInv, RetryTypes, Attempts
  <2>2. CASE r.agent = NoAgent
    BY <2>1, <2>2 DEF RetryInv, Candidates, Tried
  <2>3. CASE r.agent # NoAgent
    <3>1. /\ s \in Seq(Nat) /\ Len(s) = Len(att.launched) + 1 /\ Distinct(s)
          /\ {s[i] : i \in DOMAIN s} = Tried \cup {r.agent}
      <4>1. s = Append(att.launched, r.agent) /\ Distinct(att.launched)
        BY <2>3 DEF RetryInv
      <4>2. \A i \in DOMAIN att.launched : att.launched[i] # r.agent
        BY <1>4, <2>3
      <4> DEFINE t == Append(att.launched, r.agent)
      <4>3. /\ t \in Seq(Nat) /\ Len(t) = Len(att.launched) + 1 /\ Distinct(t)
            /\ {t[i] : i \in DOMAIN t} = {att.launched[i] : i \in DOMAIN att.launched} \cup {r.agent}
        BY <1>3, <2>1, <4>1, <4>2, AppendDistinct
      <4> HIDE DEF s, t
      <4>4. s = t
        BY <4>1 DEF t
      <4> QED BY <4>3, <4>4 DEF Tried
    <3> DEFINE T == {s[i] : i \in DOMAIN s}
    <3>2. T = Tried \cup {r.agent}
      BY <3>1
    <3>3. cur.auto => T \subseteq candidatePool(job.allow)
      <4> HIDE DEF T
      <4> QED BY <1>4, <2>3, <3>2 DEF RetryInv, Candidates
    <3> HIDE DEF s
    <3> QED BY <2>1, <3>1, <3>3
  <2> QED BY <2>2, <2>3
<1>6. att' = [att EXCEPT !.launched = s]
  BY <1>1
<1> HIDE DEF s
<1>7. att' \in Attempts /\ att'.n = att.n /\ att'.failed = att.failed /\ att'.launched = s
  BY <1>5, <1>6 DEF RetryInv, RetryTypes, Attempts
<1>8. led' \in Ledgers /\ led'.repairs <= led.repairs + 1 /\ led.repairs \in Nat /\ led'.repairs \in Nat
  BY <1>1 DEF RetryInv, RetryTypes, Ledgers
<1>9. RetryTypes'
  BY <1>1, <1>2, <1>3, <1>7, <1>8 DEF RetryInv, RetryTypes, JobType
<1>10. Candidates'
  BY <1>1, <1>2, <1>5, <1>7 DEF RetryInv, Candidates, Tried
<1>11. Counted'
  <2>1. att.n \in Nat /\ job.max \in Nat /\ job.fixMax \in Nat /\ Len(att.launched) \in Nat
    BY DEF RetryInv, RetryTypes, JobType, Attempts
  <2>2. Begun = att.n - 1 /\ Begun' = att.n
    BY <1>2, <1>7 DEF Begun
  <2>3. att.n <= job.max /\ Len(att.launched) <= att.n - 1 /\ led.repairs <= job.fixMax - 1 + (att.n - 1)
    BY <2>2 DEF RetryInv, Counted
  <2>4. Len(s) <= att.n /\ led'.repairs <= job.fixMax - 1 + att.n
    <3>1. Len(s) <= Len(att.launched) + 1 /\ Len(s) \in Nat
      BY <1>5
    <3>2. led'.repairs <= led.repairs + 1 /\ led.repairs \in Nat /\ led'.repairs \in Nat
      BY <1>8
    <3>3. Len(s) <= att.n
      BY <2>1, <2>3, <3>1
    <3>4. led'.repairs <= job.fixMax - 1 + att.n
      BY <2>1, <2>3, <3>2
    <3> QED BY <3>3, <3>4
  <2> QED BY <1>2, <1>7, <2>2, <2>3, <2>4 DEF Counted
<1> QED BY <1>5, <1>7, <1>9, <1>10, <1>11 DEF RetryInv

(* A step of the loops that launches nothing.                              *)
LEMMA BetweenKeeps ==
  ASSUME RetryInv, UNCHANGED <<job, cur, att>>, led' \in Ledgers, led'.repairs = led.repairs,
         rec' \in RunRecords, rtPc # "run", rtPc' \in {"returned", "count", "done"}
  PROVE  RetryInv'
<1>1. RetryTypes'
  BY DEF RetryInv, RetryTypes, JobType
<1>2. Candidates' /\ Counted'
  BY DEF RetryInv, Candidates, Tried, Counted, Begun
<1> QED BY <1>1, <1>2 DEF RetryInv

(* The next attempt goes to a candidate that did not fail.                 *)
LEMMA FallbackKeeps ==
  ASSUME RetryInv, Fallback
  PROVE  RetryInv'
<1> DEFINE F == att.failed \cup {rec.agent}
<1>1. /\ rtPc = "eligible" /\ UNCHANGED <<job, rec, keep>>
      /\ att \in Attempts /\ cur \in Contracts /\ led \in Ledgers /\ rec \in RunRecords /\ cur.auto
  BY DEF Fallback, RetryInv, RetryTypes, Candidates
<1>2. led' \in Ledgers /\ led'.repairs = led.repairs
  <2>1. PICK b \in {att.n, led.fallback} : led' = [led EXCEPT !.fallback = b]
    BY DEF Fallback
  <2>2. b \in Nat
    BY <1>1, <2>1 DEF Attempts, Ledgers
  <2> QED BY <1>1, <2>1, <2>2 DEF Ledgers
<1>3. CASE rtPc' = "returned" /\ UNCHANGED <<cur, att>>
  BY <1>1, <1>2, <1>3, BetweenKeeps
<1>4. CASE /\ att.n < job.max /\ hasRemainingRoutingCandidate(job.allow, F)
           /\ rtPc' = "run" /\ att' = [att EXCEPT !.n = @ + 1, !.failed = F]
           /\ cur' = [cur EXCEPT !.allow = withExcludedRoutingCandidates(@, F)]
  <2> DEFINE A == withExcludedRoutingCandidates(cur.allow, F)
             P == candidatePool(job.allow) \ F
             u == [n |-> att.n + 1, failed |-> att.failed, launched |-> att.launched]
             v == [n |-> att.n + 1, failed |-> F, launched |-> att.launched]
  <2>1. candidatePool(cur.allow) = candidatePool(job.allow) \ att.failed
    BY <1>1 DEF RetryInv, Candidates
  <2>2. A = P /\ P # {}
    BY <1>4, <2>1 DEF withExcludedRoutingCandidates, hasRemainingRoutingCandidate
  <2>3. P \in SUBSET Nat /\ candidatePool(P) = P
    BY <2>2, RouterAssumption DEF candidatePool
  <2>4. [att EXCEPT !.n = att.n + 1] = u
    BY <1>1 DEF Attempts
  <2>5. [u EXCEPT !.failed = F] = v
    OBVIOUS
  <2>6. att' = [[att EXCEPT !.n = att.n + 1] EXCEPT !.failed = F]
    BY <1>4
  <2>7. F \in SUBSET Nat
    BY <1>1 DEF Attempts, RunRecords
  <2> HIDE DEF F
  <2>8. v \in Attempts /\ v.n = att.n + 1 /\ v.failed = F /\ v.launched = att.launched
    BY <1>1, <2>7 DEF Attempts
  <2> HIDE DEF u, v
  <2>9. att' \in Attempts /\ att'.n = att.n + 1 /\ att'.failed = F /\ att'.launched = att.launched
    BY <2>4, <2>5, <2>6, <2>8
  <2> HIDE DEF P
  <2>10. cur' \in Contracts /\ cur'.allow = P /\ cur'.auto = cur.auto
    <3>1. cur' = [cur EXCEPT !.allow = P]
      BY <1>4, <2>2
    <3> QED BY <1>1, <2>3, <3>1 DEF Contracts
  <2>11. RetryTypes'
    BY <1>1, <1>2, <2>9, <2>10 DEF RetryInv, RetryTypes, JobType
  <2>12. Tried \subseteq F /\ Tried \subseteq candidatePool(job.allow)
    BY <1>1 DEF RetryInv, Candidates, F
  <2>13. Candidates'
    <3>1. Tried' = Tried
      BY <2>9 DEF Tried
    <3>2. rtPc' = "run" /\ cur'.auto /\ job' = job
      BY <1>1, <1>4, <2>10
    <3>3. candidatePool(cur'.allow) = candidatePool(job.allow) \ F
      BY <2>3, <2>10 DEF P
    <3> QED BY <2>9, <2>12, <3>1, <3>2, <3>3 DEF Candidates
  <2>14. Counted'
    <3>1. att.n \in Nat /\ job.max \in Nat /\ job.fixMax \in Nat /\ Len(att.launched) \in Nat
          /\ led.repairs \in Nat
      BY DEF RetryInv, RetryTypes, JobType, Attempts, Ledgers
    <3> QED BY <1>1, <1>2, <1>4, <2>9, <3>1 DEF RetryInv, Counted, Begun
  <2> QED BY <2>9, <2>11, <2>13, <2>14 DEF RetryInv
<1>5. att.n \in Nat /\ job.max \in Nat
  BY DEF RetryInv, RetryTypes, JobType, Attempts
<1> QED BY <1>3, <1>4, <1>5 DEF Fallback

(* A repair begins with no attempts of its own.                            *)
LEMMA RepairKeeps ==
  ASSUME RetryInv, CountAttempts
  PROVE  RetryInv'
<1>1. rtPc = "count" /\ UNCHANGED <<job, rec, led, keep>>
  BY DEF CountAttempts
<1>2. CASE rtPc' = "done" /\ UNCHANGED <<cur, att>>
  BY <1>1, <1>2, BetweenKeeps DEF RetryInv, RetryTypes
<1>3. CASE /\ led.repairs < job.fixMax /\ rtPc' = "run" /\ att' = FirstAttempt
           /\ cur' = [allow |-> job.allow, auto |-> job.auto /\ job.backend = NoAgent,
                      repair |-> TRUE]
  <2>1. /\ FirstAttempt \in Attempts /\ FirstAttempt.n = 1 /\ FirstAttempt.failed = {}
        /\ FirstAttempt.launched = <<>>
    BY DEF FirstAttempt, Attempts
  <2>2. RetryTypes' /\ cur'.allow = job.allow
    BY <1>1, <1>3, <2>1 DEF RetryInv, RetryTypes, JobType, Contracts
  <2>3. Candidates' /\ Distinct(att'.launched)
    BY <1>1, <1>3, <2>1, <2>2 DEF Candidates, Tried, Distinct
  <2>4. Counted'
    <3>1. job.fixMax \in Nat /\ led.repairs \in Nat /\ job.max \in Nat \ {0}
      BY DEF RetryInv, RetryTypes, JobType, Ledgers
    <3> QED BY <1>1, <1>3, <2>1, <3>1 DEF Counted, Begun
  <2> QED BY <2>2, <2>3, <2>4 DEF RetryInv
<1> QED BY <1>2, <1>3 DEF CountAttempts

(* A job begins.                                                           *)
LEMMA RetryBegins == RetryInit => RetryInv
<1> SUFFICES ASSUME RetryInit PROVE RetryInv
  OBVIOUS
<1>1. PICK auto, fix, ro \in BOOLEAN, a \in Allowlists, m \in FallbackSet, k \in RepairSet,
           b \in Registered \cup {NoAgent} :
        job = [auto |-> auto, allow |-> a, max |-> RoutingMaxAttempts(m),
               fix |-> fix, fixMax |-> RepairMaxAttempts(k), backend |-> b, readonly |-> ro]
  BY DEF RetryInit
<1>2. JobType
  <2>1. RoutingMaxAttempts(m) \in Nat \ {0} /\ RepairMaxAttempts(k) \in {1, 2}
    BY RetryAssumption DEF RoutingMaxAttempts, RepairMaxAttempts
  <2> QED BY <1>1, <2>1, RetryAssumption, RouterAssumption DEF JobType, NoAgent
<1>3. /\ att = FirstAttempt /\ FirstAttempt \in Attempts /\ FirstAttempt.n = 1
      /\ FirstAttempt.failed = {} /\ FirstAttempt.launched = <<>>
  BY DEF RetryInit, FirstAttempt, Attempts
<1>4. RetryTypes
  <2>1. cur \in Contracts /\ led \in Ledgers
    BY <1>2 DEF RetryInit, JobType, Contracts, Ledgers
  <2>2. rec \in RunRecords
    BY DEF RetryInit, RunRecords, Statuses, Taxonomies, NoRec, NoAgent
  <2> QED BY <1>2, <1>3, <2>1, <2>2 DEF RetryTypes
<1>5. Candidates /\ Distinct(att.launched)
  BY <1>3 DEF RetryInit, Candidates, Tried, Distinct
<1>6. Counted
  BY <1>2, <1>3 DEF RetryInit, JobType, Counted, Begun
<1> QED BY <1>4, <1>5, <1>6 DEF RetryInv

(* What a job has tried, and how often it may still try.                   *)
THEOREM RetryInvariance == RetrySpec => []RetryInv
<1>1. RetryInv /\ [RetryNext]_rtVars => RetryInv'
  <2> SUFFICES ASSUME RetryInv, [RetryNext]_rtVars PROVE RetryInv'
    OBVIOUS
  <2>1. CASE EligibilityFails
    <3>1. rec \in RunRecords /\ led \in Ledgers
      BY DEF RetryInv, RetryTypes
    <3>2. rec' \in RunRecords
      BY <2>1, <3>1 DEF EligibilityFails, RunRecords
    <3> QED BY <2>1, <3>1, <3>2, BetweenKeeps DEF EligibilityFails
  <2>2. CASE RunReturns
    BY <2>2, BetweenKeeps DEF RunReturns, RetryInv, RetryTypes
  <2>3. CASE UNCHANGED rtVars
    BY <2>3 DEF rtVars, RetryInv, RetryTypes, JobType, Candidates, Tried, Counted, Begun
  <2> QED BY <2>1, <2>2, <2>3, RunOnceKeeps, FallbackKeeps, RepairKeeps DEF RetryNext
<1> QED BY <1>1, RetryBegins, PTL DEF RetrySpec

(* Within one Run no backend is launched twice, none outside the contract's*)
(* candidates, and neither Run's fallback loop nor the repair loop exceeds *)
(* its bound, for any registry, allowlist and bounds.                      *)
THEOREM BackendsAreTriedOnce == RetrySpec => []NoBackendTwice
<1>1. ASSUME RetryInv PROVE NoBackendTwice
  <2>1. /\ att.n \in Nat \ {0} /\ job.max \in Nat /\ job.fixMax \in Nat /\ led.repairs \in Nat
        /\ Len(att.launched) \in Nat
    BY <1>1 DEF RetryInv, RetryTypes, JobType, Attempts, Ledgers
  <2>2. Len(att.launched) <= job.max /\ led.repairs <= job.fixMax - 1 + job.max
    BY <1>1, <2>1 DEF RetryInv, Counted, Begun
  <2> QED BY <1>1, <2>2 DEF RetryInv, Candidates, Tried, Distinct, NoBackendTwice
<1> QED BY <1>1, RetryInvariance, PTL

-----------------------------------------------------------------------------
(* A governed launch.  The processes, the deadline and the copying of      *)
(* output interleave with every step of the executor, so the argument has  *)
(* two halves: what any step may do to a process (it ages, or is born of   *)
(* one that runs), and what the executor has established at each of its    *)
(* steps, which no such step undoes.                                       *)

StageSpecification == StageInit /\ [][StageNext]_stVars

-----------------------------------------------------------------------------
(* Types                                                                   *)

Errors == {"none", "refused", "factory", "start", "limit", "ctx", "unresolved", "freeze", "kill",
           "alive", "unidentified", "handle", "unreadable", "noWait"}
StageSteps == {"check", "command", "resolve", "select", "extinguish", "kill", "wait", "scan",
               "drain", "return", "returned"}

Scopes == [method : Methods \cup {"none", "degraded"}, pid : BOOLEAN, cg : {"none", "own"},
           init : BOOLEAN, rerr : BOOLEAN]
ProcRecs == [st : {"no", "run", "dying", "dead"}, grp : BOOLEAN, holds : BOOLEAN, in : BOOLEAN]
Results == [path : {"none", "start", "done", "ctx"}, err : Errors, ext : Errors, gone : BOOLEAN]

ScopeType == scope \in Scopes
ProcType == proc \in [Procs -> ProcRecs]
ResultType == stRes \in Results
OutType == out \in [left : Nat, exceeded : BOOLEAN]
StepType == stPc \in StageSteps /\ boot \in {"boot", "confined", "payload", "bare"}

StageTypes == ScopeType /\ ProcType /\ ResultType /\ OutType /\ StepType

-----------------------------------------------------------------------------
(* What a step does to a process                                           *)

(* A process that exists ages and loses what it has; a cgroup it keeps.    *)
Aging(x) ==
  /\ proc[x].st # "no" /\ proc'[x].st # "no"
  /\ proc'[x].st = "run" => proc[x].st = "run"
  /\ proc'[x].st \in {"run", "dying"} => proc[x].st \in {"run", "dying"}
  /\ proc'[x].grp => proc[x].grp
  /\ proc'[x].holds => proc[x].holds
  /\ proc[x].in => proc'[x].in

(* One that did not is a copy of a running one, or a namespace's init.     *)
Born(x) ==
  /\ proc[x].st = "no"
  /\ \/ /\ x \in Kids /\ boot \in {"payload", "bare"}
        /\ \E p \in Launched \ {"wrap"} : proc[p].st = "run" /\ proc'[x] = proc[p]
     \/ x = "root" /\ scope.method = "pidns" /\ proc["wrap"].st = "run" /\ proc'[x].st = "run"

Evolves ==
  /\ proc'["bystander"] = proc["bystander"]
  /\ \A x \in Launched : proc'[x] = proc[x] \/ Aging(x) \/ Born(x)

(* A record is written.                                                    *)
LEMMA ProcWrite ==
  ASSUME ProcType, NEW p \in Procs, NEW v \in ProcRecs, proc' = [proc EXCEPT ![p] = v]
  PROVE  ProcType' /\ proc'[p] = v /\ \A x \in Procs \ {p} : proc'[x] = proc[x]
BY DEF ProcType

(* One field of a record is written.                                       *)
LEMMA FieldWrite ==
  ASSUME NEW r \in ProcRecs
  PROVE  /\ \A s \in {"no", "run", "dying", "dead"} :
              [r EXCEPT !.st = s] = [st |-> s, grp |-> r.grp, holds |-> r.holds, in |-> r.in]
         /\ \A b \in BOOLEAN :
              /\ [r EXCEPT !.grp = b] = [st |-> r.st, grp |-> b, holds |-> r.holds, in |-> r.in]
              /\ [r EXCEPT !.holds = b] = [st |-> r.st, grp |-> r.grp, holds |-> b, in |-> r.in]
              /\ [r EXCEPT !.in = b] = [st |-> r.st, grp |-> r.grp, holds |-> r.holds, in |-> b]
BY DEF ProcRecs

(* A signal reaches the processes it is sent to, and only those.           *)
LEMMA KillEffect ==
  ASSUME ProcType, NEW S \in SUBSET Launched, "bystander" \notin S, proc' = Killed(proc, S)
  PROVE  /\ ProcType' /\ Evolves
         /\ \A x \in S : proc'[x].st # "run"
         /\ \A x \in Procs : /\ proc'[x].st = "no" <=> proc[x].st = "no"
                             /\ proc'[x].st = "dead" <=> proc[x].st = "dead"
                             /\ proc'[x].st = "run" => proc[x].st = "run"
                             /\ proc'[x].grp = proc[x].grp /\ proc'[x].in = proc[x].in
                             /\ proc'[x].holds = proc[x].holds
<1>1. ASSUME NEW x \in Procs
      PROVE  /\ proc'[x] \in ProcRecs
             /\ proc'[x].st = IF x \in S /\ proc[x].st = "run" THEN "dying" ELSE proc[x].st
             /\ proc'[x].grp = proc[x].grp /\ proc'[x].in = proc[x].in
             /\ proc'[x].holds = proc[x].holds
             /\ ~(x \in S /\ proc[x].st = "run") => proc'[x] = proc[x]
  <2> DEFINE d == [st |-> "dying", grp |-> proc[x].grp, holds |-> proc[x].holds,
                   in |-> proc[x].in]
  <2>1. proc[x] \in ProcRecs
    BY DEF ProcType
  <2>2. [proc[x] EXCEPT !.st = "dying"] = d
    BY <2>1, FieldWrite
  <2>3. d \in ProcRecs /\ d.st = "dying" /\ d.grp = proc[x].grp /\ d.in = proc[x].in
        /\ d.holds = proc[x].holds
    BY <2>1 DEF ProcRecs
  <2>4. proc'[x] = IF x \in S /\ proc[x].st = "run" THEN d ELSE proc[x]
    BY <2>2 DEF Killed
  <2> HIDE DEF d
  <2> QED BY <2>1, <2>3, <2>4
<1>2. ProcType'
  BY <1>1 DEF ProcType, Killed
<1>3. "bystander" \in Procs /\ Launched \subseteq Procs
  BY DEF Procs, Launched
<1>4. \A x \in Procs : proc[x].st \in {"no", "run", "dying", "dead"}
  BY DEF ProcType, ProcRecs
<1>5. \A x \in Launched : proc'[x] = proc[x] \/ Aging(x)
  BY <1>1, <1>3, <1>4 DEF Aging
<1> QED BY <1>1, <1>2, <1>3, <1>4, <1>5 DEF Evolves

(* One process ages.                                                       *)
LEMMA OneAges ==
  ASSUME ProcType, NEW p \in Launched, p # "bystander", NEW v \in ProcRecs,
         proc' = [proc EXCEPT ![p] = v],
         proc[p].st # "no", v.st # "no", v.st = "run" => proc[p].st = "run",
         v.st \in {"run", "dying"} => proc[p].st \in {"run", "dying"},
         v.grp => proc[p].grp, v.holds => proc[p].holds, proc[p].in => v.in
  PROVE  ProcType' /\ Evolves
<1>1. p \in Procs /\ "bystander" \in Procs /\ Launched \subseteq Procs
  BY DEF Procs, Launched
<1>2. ProcType' /\ proc'[p] = v /\ \A x \in Procs \ {p} : proc'[x] = proc[x]
  BY <1>1, ProcWrite
<1>3. Aging(p)
  BY <1>2 DEF Aging
<1> QED BY <1>1, <1>2, <1>3 DEF Evolves

(* The processes of a launch are no bystanders.                            *)
LEMMA Apart ==
  /\ "bystander" \notin Launched /\ Launched \subseteq Procs /\ "bystander" \in Procs
  /\ "root" \in Launched /\ "wrap" \in Launched /\ Kids \subseteq Launched
  /\ "root" \notin Kids /\ "wrap" \notin Kids /\ Direct \in {"wrap", "root"}
  /\ \A S \in SUBSET Launched : WithNamespace(S) \in SUBSET Launched
BY StageAssumption DEF Launched, Procs, Direct, WithNamespace

-----------------------------------------------------------------------------
(* The steps of the processes                                              *)

(* A namespace's init is the last of its namespace.                        *)
Namespace ==
  scope.method = "pidns" =>
    /\ proc["root"].st = "dying" => \A k \in Kids : proc[k].st # "run"
    /\ proc["root"].st = "dead" => \A k \in Kids : ~Present(k)

(* A kid runs only while the payload does.                                 *)
NoEarlyKids == \A k \in Kids : proc[k].st # "no" => boot \in {"payload", "bare"}

BootMoves ==
  /\ boot \in {"payload", "bare"} => boot' = boot
  /\ boot' = boot \/ (RootReady /\ boot' \in {"confined", "payload", "bare"})

OutMoves ==
  out' = out \/ (~out.exceeded /\ \E p \in Launched \ {"wrap"} : proc[p].st = "run" /\ proc[p].holds)

(* A kill that takes a namespace's init takes all of its namespace.        *)
LEMMA KillKeepsNamespace ==
  ASSUME ProcType, Namespace, UNCHANGED scope, NEW S \in SUBSET Launched,
         proc' = Killed(proc, WithNamespace(S))
  PROVE  ProcType' /\ Evolves /\ Namespace' /\ \A x \in S : proc'[x].st # "run"
<1>1. /\ WithNamespace(S) \in SUBSET Launched /\ "bystander" \notin WithNamespace(S)
      /\ S \subseteq WithNamespace(S)
  BY Apart DEF WithNamespace
<1>2. /\ ProcType' /\ Evolves
      /\ \A x \in WithNamespace(S) : proc'[x].st # "run"
      /\ \A x \in Procs : /\ proc'[x].st = "no" <=> proc[x].st = "no"
                          /\ proc'[x].st = "dead" <=> proc[x].st = "dead"
                          /\ proc'[x].st = "run" => proc[x].st = "run"
  BY <1>1, KillEffect
<1>3. \A x \in Procs : /\ proc[x].st \in {"no", "run", "dying", "dead"}
                       /\ proc'[x].st \in {"no", "run", "dying", "dead"}
  BY <1>2 DEF ProcType, ProcRecs
<1>4. ASSUME scope.method = "pidns", proc'["root"].st = "dying", NEW k \in Kids
      PROVE  proc'[k].st # "run"
  <2>1. CASE "root" \in S
    BY <1>2, <1>4, <2>1 DEF WithNamespace
  <2>2. CASE "root" \notin S
    <3>1. WithNamespace(S) = S
      BY <2>2 DEF WithNamespace
    <3>2. proc'["root"] = proc["root"]
      BY <2>2, <3>1, Apart DEF Killed
    <3> QED BY <1>2, <1>4, <3>2, Apart DEF Namespace
  <2> QED BY <2>1, <2>2
<1>5. ASSUME scope.method = "pidns", proc'["root"].st = "dead", NEW k \in Kids
      PROVE  proc'[k].st \notin {"run", "dying"}
  BY <1>2, <1>3, <1>5, Apart DEF Namespace, Present
<1> QED BY <1>1, <1>2, <1>4, <1>5 DEF Namespace, Present

(* What a process does is a move of its own.                               *)
LEMMA ProcessMoves ==
  ASSUME StageTypes, Namespace, NoEarlyKids, BystanderLives, Processes
  PROVE  /\ StageTypes' /\ Evolves /\ Namespace' /\ BootMoves /\ OutMoves
         /\ UNCHANGED <<stSpec, stPc, scope, stRes>>
<1> USE DEF StageTypes, Env
<1>0. \A x \in Procs : proc[x] \in ProcRecs /\ proc[x].st \in {"no", "run", "dying", "dead"}
  BY DEF ProcType, ProcRecs
<1>1. CASE Join
  <2> DEFINE v == [st |-> proc["root"].st, grp |-> proc["root"].grp,
                   holds |-> proc["root"].holds, in |-> TRUE]
  <2>1. v \in ProcRecs
    BY <1>0, Apart DEF ProcRecs
  <2>2. [proc["root"] EXCEPT !.in = TRUE] = v
    BY <1>0, Apart, FieldWrite
  <2>3. proc' = [proc EXCEPT !["root"] = v]
    BY <1>1, <2>2 DEF Join
  <2>4. ProcType' /\ Evolves
    BY <1>1, <2>1, <2>3, Apart, OneAges DEF Join
  <2> QED BY <1>1, <2>4 DEF Join, Namespace, BootMoves, OutMoves, ScopeType, ResultType, OutType, StepType
<1>2. CASE ForkInit
  <2> DEFINE v == [Newborn(TRUE) EXCEPT !.grp = proc["wrap"].grp]
  <2>1. v \in ProcRecs /\ v.st = "run"
    BY <1>0, Apart DEF ProcRecs, Newborn
  <2>2. proc' = [proc EXCEPT !["root"] = v]
    BY <1>2 DEF ForkInit
  <2> HIDE DEF v
  <2>3. ProcType' /\ proc'["root"] = v /\ \A x \in Procs \ {"root"} : proc'[x] = proc[x]
    BY <2>1, <2>2, Apart, ProcWrite
  <2>4. Evolves
    BY <1>2, <2>1, <2>3, Apart DEF ForkInit, Evolves, Born
  <2> QED BY <1>2, <2>1, <2>3, <2>4 DEF ForkInit, Namespace, BootMoves, OutMoves, ScopeType, ResultType, OutType, StepType
<1>3. CASE Confine \/ ExecPayload
  <2>1. UNCHANGED proc /\ Env /\ UNCHANGED <<ctx, out>>
    BY <1>3 DEF Confine, ExecPayload
  <2>2. BootMoves /\ boot' \in {"boot", "confined", "payload", "bare"}
    BY <1>3 DEF Confine, ExecPayload, BootMoves, StepType
  <2> QED BY <2>1, <2>2 DEF Evolves, Namespace, Present, OutMoves, ScopeType, ProcType, ResultType, OutType, StepType
<1>4. CASE SandboxFails
  <2> DEFINE v == [st |-> "dead", grp |-> proc["root"].grp,
                   holds |-> proc["root"].holds, in |-> proc["root"].in]
  <2>1. v \in ProcRecs
    BY <1>0, Apart DEF ProcRecs
  <2>2. [proc["root"] EXCEPT !.st = "dead"] = v
    BY <1>0, Apart, FieldWrite
  <2>3. proc' = [proc EXCEPT !["root"] = v] /\ boot = "boot" /\ proc["root"].st = "run"
    BY <1>4, <2>2 DEF SandboxFails, RootReady
  <2>4. ProcType' /\ Evolves
    BY <2>1, <2>3, Apart, OneAges
  <2>5. \A x \in Procs \ {"root"} : proc'[x] = proc[x]
    BY <2>1, <2>3, Apart, ProcWrite
  <2>6. \A k \in Kids : proc'[k].st = "no"
    BY <2>3, <2>5, Apart DEF NoEarlyKids
  <2> QED BY <1>4, <2>4, <2>6 DEF SandboxFails, Namespace, Present, BootMoves, OutMoves, ScopeType, ResultType, OutType, StepType
<1>5. ASSUME NEW p \in Launched, NEW k \in Kids, Fork(p, k)
      PROVE  /\ StageTypes' /\ Evolves /\ Namespace' /\ BootMoves /\ OutMoves
             /\ UNCHANGED <<stSpec, stPc, scope, stRes>>
  <2>1. /\ p \in Launched \ {"wrap"} /\ proc[p].st = "run" /\ proc[k].st = "no"
        /\ boot \in {"payload", "bare"} /\ proc' = [proc EXCEPT ![k] = proc[p]]
    BY <1>5 DEF Fork, Running
  <2>2. p \in Procs /\ k \in Procs /\ k \in Launched
    BY Apart
  <2>3. ProcType' /\ proc'[k] = proc[p] /\ \A x \in Procs \ {k} : proc'[x] = proc[x]
    BY <1>0, <2>1, <2>2, ProcWrite
  <2>4. Evolves
    BY <1>5, <2>1, <2>2, <2>3, Apart DEF Evolves, Born
  <2>5. scope.method = "pidns" => proc["root"].st \notin {"dying", "dead"}
    BY <2>1, Apart DEF Namespace, Present, Launched
  <2>6. proc'["root"] = proc["root"]
    BY <2>3, Apart
  <2> QED BY <1>5, <2>3, <2>4, <2>5, <2>6 DEF Fork, Namespace, BootMoves, OutMoves, ScopeType, ResultType, OutType, StepType
<1>6. ASSUME NEW p \in Launched, Detach(p) \/ Release(p)
      PROVE  /\ StageTypes' /\ Evolves /\ Namespace' /\ BootMoves /\ OutMoves
             /\ UNCHANGED <<stSpec, stPc, scope, stRes>>
  <2>1. PICK v \in ProcRecs : /\ proc' = [proc EXCEPT ![p] = v] /\ v.st = "run"
                              /\ v.grp => proc[p].grp
                              /\ v.holds => proc[p].holds
                              /\ v.in = proc[p].in
    <3> DEFINE g == [st |-> proc[p].st, grp |-> FALSE, holds |-> proc[p].holds,
                     in |-> proc[p].in]
               h == [st |-> proc[p].st, grp |-> proc[p].grp, holds |-> FALSE,
                     in |-> proc[p].in]
    <3>1. proc[p] \in ProcRecs /\ proc[p].st = "run"
      BY <1>0, <1>6, Apart DEF Detach, Release, Running
    <3>2. [proc[p] EXCEPT !.grp = FALSE] = g /\ [proc[p] EXCEPT !.holds = FALSE] = h
      BY <3>1, FieldWrite
    <3>3. g \in ProcRecs /\ h \in ProcRecs
      BY <3>1 DEF ProcRecs
    <3>4. proc' = [proc EXCEPT ![p] = g] \/ proc' = [proc EXCEPT ![p] = h]
      BY <1>6, <3>2 DEF Detach, Release
    <3> QED BY <3>1, <3>3, <3>4
  <2>2. proc[p].st = "run" /\ p \in Procs
    BY <1>6, Apart DEF Detach, Release, Running
  <2>3. ProcType' /\ Evolves
    BY <2>1, <2>2, Apart, OneAges
  <2>4. \A x \in Procs : proc'[x].st = proc[x].st
    BY <2>1, <2>2, ProcWrite
  <2>5. Namespace'
    BY <1>6, <2>4, Apart DEF Detach, Release, Namespace, Present
  <2> QED BY <1>6, <2>3, <2>5 DEF Detach, Release, BootMoves, OutMoves, ScopeType, ResultType, OutType, StepType
<1>7. ASSUME NEW p \in Launched, Write(p)
      PROVE  /\ StageTypes' /\ Evolves /\ Namespace' /\ BootMoves /\ OutMoves
             /\ UNCHANGED <<stSpec, stPc, scope, stRes>>
  <2>1. OutType'
    <3>1. out.left \in Nat
      BY DEF OutType
    <3>2. out.left > 0 => [out EXCEPT !.left = out.left - 1] \in [left : Nat, exceeded : BOOLEAN]
      BY <3>1 DEF OutType
    <3>3. [out EXCEPT !.exceeded = TRUE] \in [left : Nat, exceeded : BOOLEAN]
      BY DEF OutType
    <3> QED BY <1>7, <3>1, <3>2, <3>3 DEF Write, LimitWrite, OutType
  <2>2. OutMoves
    BY <1>7 DEF Write, Running, OutMoves
  <2> QED BY <1>7, <2>1, <2>2 DEF Write, Evolves, Namespace, Present, BootMoves, ScopeType, ProcType, ResultType, StepType
<1>8. ASSUME NEW p \in Launched, Exit(p)
      PROVE  /\ StageTypes' /\ Evolves /\ Namespace' /\ BootMoves /\ OutMoves
             /\ UNCHANGED <<stSpec, stPc, scope, stRes>>
  <2>1. ProcType' /\ Evolves /\ Namespace'
    <3>1. CASE WithNamespace({p}) # {p}
      <4>1. proc' = Killed(proc, WithNamespace({p})) /\ UNCHANGED scope
        BY <1>8, <3>1 DEF Exit
      <4>2. {p} \in SUBSET Launched
        OBVIOUS
      <4> QED BY <4>1, <4>2, KillKeepsNamespace
    <3>2. CASE WithNamespace({p}) = {p}
      <4> DEFINE v == [st |-> "dead", grp |-> proc[p].grp, holds |-> proc[p].holds,
                       in |-> proc[p].in]
      <4>1. proc[p] \in ProcRecs /\ p \in Procs /\ proc[p].st = "run"
        BY <1>0, <1>8, Apart DEF Exit
      <4>2. [proc[p] EXCEPT !.st = "dead"] = v /\ v \in ProcRecs
        BY <4>1, FieldWrite DEF ProcRecs
      <4>3. proc' = [proc EXCEPT ![p] = v] /\ UNCHANGED scope
        BY <1>8, <3>2, <4>2 DEF Exit
      <4>4. ProcType' /\ Evolves
        BY <4>1, <4>2, <4>3, Apart, OneAges
      <4>5. proc'[p] = v /\ \A x \in Procs \ {p} : proc'[x] = proc[x]
        BY <4>1, <4>2, <4>3, ProcWrite
      <4>6. scope.method = "pidns" /\ p = "root" => Kids = {}
        BY <3>2, Apart DEF WithNamespace
      <4>7. Namespace'
        BY <4>3, <4>5, <4>6, Apart DEF Namespace, Present
      <4> QED BY <4>4, <4>7
    <3> QED BY <3>1, <3>2
  <2> QED BY <1>8, <2>1 DEF Exit, BootMoves, OutMoves, ScopeType, ResultType, OutType, StepType
<1>9. ASSUME NEW p \in Procs, Die(p)
      PROVE  /\ StageTypes' /\ Evolves /\ Namespace' /\ BootMoves /\ OutMoves
             /\ UNCHANGED <<stSpec, stPc, scope, stRes>>
  <2> DEFINE v == [st |-> "dead", grp |-> proc[p].grp, holds |-> proc[p].holds,
                   in |-> proc[p].in]
  <2>1. proc[p] \in ProcRecs /\ proc[p].st = "dying" /\ p \in Launched
    BY <1>0, <1>9 DEF Die, BystanderLives, Procs, Launched
  <2>2. [proc[p] EXCEPT !.st = "dead"] = v /\ v \in ProcRecs
    BY <2>1, FieldWrite DEF ProcRecs
  <2>3. proc' = [proc EXCEPT ![p] = v] /\ UNCHANGED scope
    BY <1>9, <2>2 DEF Die
  <2>4. ProcType' /\ Evolves
    BY <2>1, <2>2, <2>3, Apart, OneAges
  <2>5. proc'[p] = v /\ \A x \in Procs \ {p} : proc'[x] = proc[x]
    BY <2>2, <2>3, ProcWrite
  <2>6. Namespace'
    BY <1>9, <2>1, <2>3, <2>5, Apart DEF Die, Namespace, Present
  <2> QED BY <1>9, <2>4, <2>6 DEF Die, BootMoves, OutMoves, ScopeType, ResultType, OutType, StepType
<1>10. CASE WatcherKills
  <2>1. /\ proc' = Killed(proc, WithNamespace({Direct})) /\ UNCHANGED scope
        /\ {Direct} \in SUBSET Launched
    BY <1>10, Apart DEF WatcherKills
  <2>2. ProcType' /\ Evolves /\ Namespace'
    BY <2>1, KillKeepsNamespace
  <2> QED BY <1>10, <2>2 DEF WatcherKills, BootMoves, OutMoves, ScopeType, ResultType, OutType, StepType
<1> QED BY <1>1, <1>2, <1>3, <1>4, <1>5, <1>6, <1>7, <1>8, <1>9, <1>10 DEF Processes

-----------------------------------------------------------------------------
(* The invariant                                                           *)

(* Before the direct child is started there is nobody.                     *)
Unborn == ~scope.pid => boot = "boot" /\ \A p \in Launched : proc[p].st = "no"

(* Whoever exists while a cgroup owns the launch is in the cgroup, from    *)
(* the moment the payload may fork.                                        *)
Family ==
  /\ NoEarlyKids
  /\ boot # "boot" => proc["root"].st # "no" /\ (scope.method = "systemd" => proc["root"].in)
  /\ scope.method # "pidns" => proc["wrap"].st = "no"
  /\ scope.method = "cgroup" /\ proc["root"].st # "no" => proc["root"].in
  /\ scope.method = "systemd" /\ scope.cg = "own" => proc["root"].in
  /\ scope.method \in {"systemd", "cgroup"} => \A k \in Kids : proc[k].st # "no" => proc[k].in

(* Where the executor stands.                                              *)
Course ==
  /\ stPc \in {"check", "command"} =>
       ~scope.pid /\ ~scope.rerr /\ stRes.path = "none" /\ (scope.cg = "own" => scope.method = "cgroup")
  /\ stPc = "check" => scope.method = "none"
  /\ stPc \in {"resolve", "select"} => scope.pid /\ stRes.path = "none"
  /\ scope.pid /\ stPc \notin {"resolve", "select"} => stRes.path \in {"done", "ctx"}
  /\ stPc = "kill" => scope.cg = "own" /\ scope.method \in {"systemd", "cgroup"}
  /\ stPc = "wait" => \/ scope.cg = "own" /\ scope.method \in {"systemd", "cgroup"}
                      \/ scope.init /\ scope.method = "pidns"
  /\ stPc = "drain" => stRes.path = "ctx"
  /\ scope.method = "cgroup" => scope.cg = "own"
  /\ scope.cg = "own" => scope.method \in {"systemd", "cgroup"}
  /\ scope.method = "systemd" /\ scope.pid /\ scope.cg = "none" /\ stPc # "resolve" => scope.rerr
  /\ scope.init => scope.method = "pidns" /\ scope.pid /\ proc["root"].st # "no"

(* What the launch claims from the scan on: nothing has gone wrong yet.    *)
Sealed ==
  \/ stPc \in {"drain", "return"} /\ stRes.ext = "none"
  \/ stPc = "returned" /\ stRes.gone
Clean == stPc = "scan" \/ Sealed

(* What is then true of the processes.                                     *)
Promises ==
  /\ Clean /\ scope.method \in {"systemd", "cgroup"} => Extinct
  /\ Clean /\ scope.init => \A p \in Launched \ {"wrap"} : ~Present(p)
  /\ Clean /\ scope.method = "degraded" => \A p \in Launched : proc[p].grp => proc[p].st # "run"
  /\ Sealed /\ scope.method = "degraded" =>
       \A p \in Launched : Present(p) /\ proc[p].grp => ~proc[p].holds
  /\ scope.method = "pidns" /\ stPc # "drain" /\ Sealed /\ stRes.path = "ctx" =>
       proc["wrap"].st = "dead"

(* What the executor has seen, and the error it holds.                     *)
Reports ==
  /\ stRes.path = "done" =>
       /\ scope.method = "pidns" => proc["wrap"].st = "dead"
       /\ IF stSpec.capture = "required" /\ out.exceeded THEN stRes.err # "none"
          ELSE \A p \in Launched : Present(p) => ~proc[p].holds
  /\ stRes.path \in {"start", "ctx"} => stRes.err # "none"

LaunchInv ==
  /\ StageTypes /\ Unborn /\ Family /\ Namespace /\ Course /\ Promises /\ Reports
  /\ BystanderLives

(* No move of a process undoes what the executor has established.          *)
LEMMA ProcessKeeps ==
  ASSUME LaunchInv, Processes
  PROVE  LaunchInv'
<1>1. /\ StageTypes' /\ Evolves /\ Namespace' /\ BootMoves /\ OutMoves
      /\ UNCHANGED <<stSpec, stPc, scope, stRes>>
  BY ProcessMoves DEF LaunchInv, Family
<1>2. /\ \A x \in Launched : proc'[x] = proc[x] \/ Aging(x) \/ Born(x)
      /\ proc'["bystander"] = proc["bystander"]
  BY <1>1 DEF Evolves
<1>3. \A x \in Procs : /\ proc[x].st \in {"no", "run", "dying", "dead"}
                       /\ proc'[x].st \in {"no", "run", "dying", "dead"}
  BY <1>1 DEF LaunchInv, StageTypes, ProcType, ProcRecs
<1>4. BystanderLives'
  BY <1>2 DEF LaunchInv, BystanderLives
<1>5. Unborn'
  <2>1. SUFFICES ASSUME ~scope.pid PROVE boot' = "boot" /\ \A p \in Launched : proc'[p].st = "no"
    BY <1>1 DEF Unborn
  <2>2. boot = "boot" /\ \A p \in Launched : proc[p].st = "no"
    BY <2>1 DEF LaunchInv, Unborn
  <2>3. \A p \in Launched : ~Aging(p) /\ ~Born(p)
    BY <2>2, Apart DEF Aging, Born
  <2>4. boot' = boot
    BY <1>1, <2>2, Apart DEF BootMoves, RootReady
  <2> QED BY <1>2, <2>2, <2>3, <2>4
<1>6. Family'
  <2>1. NoEarlyKids'
    BY <1>1, <1>2, Apart DEF LaunchInv, Family, NoEarlyKids, BootMoves, Aging, Born
  <2>2. boot' # "boot" => proc'["root"].st # "no" /\ (scope.method = "systemd" => proc'["root"].in)
    BY <1>1, <1>2, Apart DEF LaunchInv, Family, BootMoves, RootReady, Aging, Born
  <2>3. scope.method # "pidns" => proc'["wrap"].st = "no"
    BY <1>2, Apart DEF LaunchInv, Family, Aging, Born
  <2>4. /\ scope.method = "cgroup" /\ proc'["root"].st # "no" => proc'["root"].in
        /\ scope.method = "systemd" /\ scope.cg = "own" => proc'["root"].in
    BY <1>2, Apart DEF LaunchInv, Family, Course, Unborn, Aging, Born
  <2>5. ASSUME scope.method \in {"systemd", "cgroup"}, NEW k \in Kids, proc'[k].st # "no"
        PROVE  proc'[k].in
    <3>1. CASE proc'[k] = proc[k] \/ Aging(k)
      BY <2>5, <3>1 DEF LaunchInv, Family, Aging
    <3>2. CASE Born(k)
      <4>1. PICK p \in Launched \ {"wrap"} : proc[p].st = "run" /\ proc'[k] = proc[p]
        BY <3>2, Apart DEF Born
      <4>2. boot \in {"payload", "bare"}
        BY <3>2, Apart DEF Born
      <4>3. proc[p].in
        BY <2>5, <4>1, <4>2 DEF LaunchInv, Family, Launched
      <4> QED BY <4>1, <4>3
    <3> QED BY <1>2, <3>1, <3>2, Apart
  <2> QED BY <1>1, <2>1, <2>2, <2>3, <2>4, <2>5 DEF Family
<1>7. Course'
  BY <1>1, <1>2, Apart DEF LaunchInv, Course, Aging, Born
<1>8. Promises'
  <2>1. Clean' = Clean /\ Sealed' = Sealed
    BY <1>1 DEF Clean, Sealed
  <2>2. Clean /\ scope.method \in {"systemd", "cgroup"} => Extinct'
    <3>1. SUFFICES ASSUME Clean, scope.method \in {"systemd", "cgroup"}, NEW x \in Launched
                   PROVE  proc'[x].st \notin {"run", "dying"}
      BY DEF Extinct, Present
    <3>2. \A p \in Launched : proc[p].st \notin {"run", "dying"}
      BY <3>1 DEF LaunchInv, Promises, Extinct, Present
    <3> QED BY <1>2, <3>1, <3>2, Apart DEF Aging, Born
  <2>3. ASSUME Clean, scope.init, NEW x \in Launched \ {"wrap"}
        PROVE  proc'[x].st \notin {"run", "dying"}
    <3>1. \A p \in Launched \ {"wrap"} : proc[p].st \notin {"run", "dying"}
      BY <2>3 DEF LaunchInv, Promises, Present
    <3>2. proc["root"].st # "no"
      BY <2>3 DEF LaunchInv, Course
    <3> QED BY <1>2, <2>3, <3>1, <3>2, Apart DEF Aging, Born
  <2>4. ASSUME Clean, scope.method = "degraded", NEW x \in Launched, proc'[x].grp
        PROVE  proc'[x].st # "run"
    <3>1. \A p \in Launched : proc[p].grp => proc[p].st # "run"
      BY <2>4 DEF LaunchInv, Promises
    <3> QED BY <1>2, <2>4, <3>1, Apart DEF Aging, Born
  <2>5. ASSUME Sealed, scope.method = "degraded", NEW x \in Launched,
               proc'[x].st \in {"run", "dying"}, proc'[x].grp
        PROVE  ~proc'[x].holds
    <3>1. \A p \in Launched : proc[p].st \in {"run", "dying"} /\ proc[p].grp => ~proc[p].holds
      BY <2>5 DEF LaunchInv, Promises, Present
    <3>2. \A p \in Launched : proc[p].grp => proc[p].st # "run"
      BY <2>5 DEF LaunchInv, Promises, Clean
    <3> QED BY <1>2, <2>5, <3>1, <3>2, Apart DEF Aging, Born
  <2>6. ASSUME proc["wrap"].st = "dead" PROVE proc'["wrap"].st = "dead"
    BY <1>2, <1>3, <2>6, Apart DEF Aging, Born
  <2> QED BY <1>1, <2>1, <2>2, <2>3, <2>4, <2>5, <2>6 DEF LaunchInv, Promises, Present
<1>9. Reports'
  <2>1. ASSUME stRes.path = "done"
        PROVE  /\ scope.method = "pidns" => proc'["wrap"].st = "dead"
               /\ IF stSpec.capture = "required" /\ out'.exceeded THEN stRes.err # "none"
                  ELSE \A p \in Launched : proc'[p].st \in {"run", "dying"} => ~proc'[p].holds
    <3>1. /\ scope.method = "pidns" => proc["wrap"].st = "dead"
          /\ IF stSpec.capture = "required" /\ out.exceeded THEN stRes.err # "none"
             ELSE \A p \in Launched : proc[p].st \in {"run", "dying"} => ~proc[p].holds
      BY <2>1 DEF LaunchInv, Reports, Present
    <3>2. scope.method = "pidns" => proc'["wrap"].st = "dead"
      BY <1>2, <1>3, <3>1, Apart DEF Aging, Born
    <3>3. CASE stSpec.capture = "required" /\ out.exceeded
      <4>1. out' = out
        BY <1>1, <3>3 DEF OutMoves
      <4> QED BY <3>1, <3>2, <3>3, <4>1
    <3>4. CASE ~(stSpec.capture = "required" /\ out.exceeded)
      <4>1. \A p \in Launched : proc[p].st \in {"run", "dying"} => ~proc[p].holds
        BY <3>1, <3>4
      <4>1a. scope.method = "pidns" => proc["wrap"].st # "run"
        BY <3>1
      <4>2. \A p \in Launched : proc'[p].st \in {"run", "dying"} => ~proc'[p].holds
        BY ONLY <1>2, <4>1, <4>1a, Apart DEF Aging, Born
      <4>3. out' = out
        BY <1>1, <4>1 DEF OutMoves
      <4> QED BY <3>2, <3>4, <4>2, <4>3
    <3> QED BY <3>3, <3>4
  <2> QED BY <1>1, <2>1 DEF LaunchInv, Reports, Present
<1> QED BY <1>1, <1>4, <1>5, <1>6, <1>7, <1>8, <1>9 DEF LaunchInv

-----------------------------------------------------------------------------
(* The steps of the executor                                               *)

(* What it writes into its result.                                         *)
LEMMA ResultWrite ==
  ASSUME ResultType, NEW e \in Errors
  PROVE  /\ stRes' = [stRes EXCEPT !.ext = e] =>
              ResultType' /\ stRes'.path = stRes.path /\ stRes'.err = stRes.err
                          /\ stRes'.ext = e /\ stRes'.gone = stRes.gone
         /\ \A g \in BOOLEAN :
              \/ stRes' = [stRes EXCEPT !.err = e, !.gone = g]
              \/ stRes' = [stRes EXCEPT !.gone = g, !.err = e]
              =>
              ResultType' /\ stRes'.path = stRes.path /\ stRes'.err = e
                          /\ stRes'.ext = stRes.ext /\ stRes'.gone = g
         /\ \A p \in {"start", "done", "ctx"} :
              \/ stRes' = [stRes EXCEPT !.path = p, !.err = e]
              \/ stRes' = [stRes EXCEPT !.err = e, !.path = p]
              =>
              ResultType' /\ stRes'.path = p /\ stRes'.err = e
                          /\ stRes'.ext = stRes.ext /\ stRes'.gone = stRes.gone
<1>1. ASSUME stRes' = [stRes EXCEPT !.ext = e]
      PROVE  ResultType' /\ stRes'.path = stRes.path /\ stRes'.err = stRes.err
                         /\ stRes'.ext = e /\ stRes'.gone = stRes.gone
  BY <1>1 DEF ResultType, Results
<1>2. ASSUME NEW g \in BOOLEAN,
             \/ stRes' = [stRes EXCEPT !.err = e, !.gone = g]
             \/ stRes' = [stRes EXCEPT !.gone = g, !.err = e]
      PROVE  ResultType' /\ stRes'.path = stRes.path /\ stRes'.err = e
                         /\ stRes'.ext = stRes.ext /\ stRes'.gone = g
  <2> DEFINE u == [path |-> stRes.path, err |-> e, ext |-> stRes.ext, gone |-> stRes.gone]
             v == [path |-> stRes.path, err |-> e, ext |-> stRes.ext, gone |-> g]
             w == [path |-> stRes.path, err |-> stRes.err, ext |-> stRes.ext, gone |-> g]
  <2>1. [stRes EXCEPT !.err = e] = u /\ [stRes EXCEPT !.gone = g] = w
    BY <1>2 DEF ResultType, Results
  <2>2. [u EXCEPT !.gone = g] = v /\ [w EXCEPT !.err = e] = v
    OBVIOUS
  <2>3. \/ stRes' = [[stRes EXCEPT !.err = e] EXCEPT !.gone = g]
        \/ stRes' = [[stRes EXCEPT !.gone = g] EXCEPT !.err = e]
    BY <1>2
  <2>4. v \in Results /\ v.path = stRes.path /\ v.err = e /\ v.ext = stRes.ext /\ v.gone = g
    BY <1>2 DEF ResultType, Results
  <2> HIDE DEF u, v, w
  <2> QED BY <2>1, <2>2, <2>3, <2>4 DEF ResultType
<1>3. ASSUME NEW p \in {"start", "done", "ctx"},
             \/ stRes' = [stRes EXCEPT !.path = p, !.err = e]
             \/ stRes' = [stRes EXCEPT !.err = e, !.path = p]
      PROVE  ResultType' /\ stRes'.path = p /\ stRes'.err = e
                         /\ stRes'.ext = stRes.ext /\ stRes'.gone = stRes.gone
  <2> DEFINE u == [path |-> p, err |-> stRes.err, ext |-> stRes.ext, gone |-> stRes.gone]
             v == [path |-> p, err |-> e, ext |-> stRes.ext, gone |-> stRes.gone]
             w == [path |-> stRes.path, err |-> e, ext |-> stRes.ext, gone |-> stRes.gone]
  <2>1. [stRes EXCEPT !.path = p] = u /\ [stRes EXCEPT !.err = e] = w
    BY <1>3 DEF ResultType, Results
  <2>2. [u EXCEPT !.err = e] = v /\ [w EXCEPT !.path = p] = v
    OBVIOUS
  <2>3. \/ stRes' = [[stRes EXCEPT !.path = p] EXCEPT !.err = e]
        \/ stRes' = [[stRes EXCEPT !.err = e] EXCEPT !.path = p]
    BY <1>3
  <2>4. v \in Results /\ v.path = p /\ v.err = e /\ v.ext = stRes.ext /\ v.gone = stRes.gone
    BY <1>3 DEF ResultType, Results
  <2> HIDE DEF u, v, w
  <2> QED BY <2>1, <2>2, <2>3, <2>4 DEF ResultType
<1> QED BY <1>1, <1>2, <1>3

(* The invariant, apart from what the scope and the result say, depends on *)
(* nothing the executor changes when it leaves the processes alone.        *)
Still == UNCHANGED <<proc, boot, out>>

(* The checks, and the scope that is chosen.                               *)
LEMMA CheckKeeps ==
  ASSUME LaunchInv, CheckAndScope
  PROVE  LaunchInv'
<1>1. stPc = "check" /\ Still /\ ~scope.pid /\ scope.method = "none" /\ stRes.path = "none"
  BY DEF CheckAndScope, Still, LaunchInv, Course
<1>2. ~scope.init /\ ~scope.rerr /\ scope.cg # "own"
  BY <1>1 DEF LaunchInv, Course
<1>3. \A p \in Launched : proc[p].st = "no"
  BY <1>1 DEF LaunchInv, Unborn
<1>4. boot = "boot"
  BY <1>1 DEF LaunchInv, Unborn
<1>5. CASE stPc' = "returned" /\ Fail("refused") /\ UNCHANGED scope
  <2>1. /\ ResultType' /\ stRes'.path = "none" /\ ~stRes'.gone
    BY <1>1, <1>5, ResultWrite DEF Fail, Errors, LaunchInv, StageTypes
  <2>2. StageTypes'
    BY <1>1, <1>5, <2>1 DEF LaunchInv, StageTypes, ScopeType, ProcType, OutType, StepType, Still, StageSteps
  <2>3. Unborn' /\ Family' /\ Namespace' /\ BystanderLives'
    BY <1>1, <1>5 DEF LaunchInv, Unborn, Family, NoEarlyKids, Namespace, Present, BystanderLives, Still
  <2>4. Course' /\ Promises' /\ Reports'
    BY <1>1, <1>2, <1>5, <2>1 DEF Course, Promises, Reports, Clean, Sealed
  <2> QED BY <2>2, <2>3, <2>4 DEF LaunchInv
<1>6. ASSUME NEW m \in Methods \cup {"degraded"}, stPc' = "command", UNCHANGED stRes,
             scope' = [scope EXCEPT !.method = m, !.cg = IF m = "cgroup" THEN "own" ELSE "none"]
      PROVE  LaunchInv'
  <2> DEFINE c == IF m = "cgroup" THEN "own" ELSE "none"
             u == [method |-> m, pid |-> scope.pid, cg |-> scope.cg, init |-> scope.init,
                   rerr |-> scope.rerr]
             v == [method |-> m, pid |-> scope.pid, cg |-> c, init |-> scope.init,
                   rerr |-> scope.rerr]
  <2>1. [scope EXCEPT !.method = m] = u
    BY DEF LaunchInv, StageTypes, ScopeType, Scopes
  <2>2. [u EXCEPT !.cg = c] = v
    OBVIOUS
  <2>3. scope' = [[scope EXCEPT !.method = m] EXCEPT !.cg = c]
    BY <1>6
  <2>4. c \in {"none", "own"}
    OBVIOUS
  <2>5. v \in Scopes
    <3> HIDE DEF c
    <3> QED BY <2>4 DEF LaunchInv, StageTypes, ScopeType, Scopes
  <2>6. /\ v.method = m /\ v.pid = scope.pid /\ v.cg = c /\ v.init = scope.init
        /\ v.rerr = scope.rerr
    OBVIOUS
  <2> HIDE DEF u, v
  <2>7. scope' = v
    BY <2>1, <2>2, <2>3
  <2>8. /\ ScopeType' /\ scope'.method = m /\ ~scope'.pid /\ scope'.cg = c /\ ~scope'.init
        /\ ~scope'.rerr
    BY <1>1, <1>2, <2>5, <2>6, <2>7 DEF ScopeType
  <2>9. StageTypes'
    BY <1>1, <1>6, <2>8 DEF LaunchInv, StageTypes, ProcType, ResultType, OutType, StepType, Still, StageSteps
  <2>10. Unborn' /\ Family' /\ Namespace' /\ BystanderLives'
    <3>1. /\ boot' = "boot" /\ \A p \in Launched : proc'[p].st = "no"
          /\ proc'["bystander"] = proc["bystander"]
      BY <1>1, <1>3, <1>4 DEF Still
    <3>2. scope'.cg = "own" => scope'.method = "cgroup"
      BY <2>8
    <3> QED BY <3>1, <3>2, Apart
            DEF LaunchInv, Unborn, Family, NoEarlyKids, Namespace, Present, BystanderLives
  <2>11. Course' /\ Promises' /\ Reports'
    BY <1>1, <1>6, <2>8 DEF Course, Promises, Reports, Clean, Sealed
  <2> QED BY <2>9, <2>10, <2>11 DEF LaunchInv
<1>7. NewScope(stSpec.host) \in Methods \cup {"degraded"}
  BY DEF NewScope, Methods
<1> QED BY <1>5, <1>6, <1>7 DEF CheckAndScope, Fail, Goto

(* A launch that does not start leaves nobody.                             *)
LEMMA NoStartKeeps ==
  ASSUME LaunchInv, FactoryFails \/ StartFails
  PROVE  LaunchInv'
<1>1. stPc = "command" /\ Still /\ UNCHANGED <<scope, stSpec>> /\ ~scope.pid
  BY DEF FactoryFails, StartFails, Still, LaunchInv, Course
<1>2. ~scope.init /\ \A p \in Launched : proc[p].st = "no"
  BY <1>1 DEF LaunchInv, Course, Unborn
<1>3. /\ ResultType' /\ stPc' \in {"returned", "extinguish"}
      /\ \/ stRes'.path = "none" /\ stPc' = "returned"
         \/ stRes'.path = "start" /\ stRes'.err # "none" /\ stPc' = "extinguish"
  <2>1. ResultType /\ stRes.path = "none" /\ "factory" \in Errors /\ "start" \in Errors
    BY <1>1 DEF LaunchInv, StageTypes, Course, Errors
  <2>2. CASE FactoryFails
    <3>1. stRes' = [stRes EXCEPT !.err = "factory", !.gone = TRUE] /\ stPc' = "returned"
      BY <2>2 DEF FactoryFails, Goto
    <3>2. ResultType' /\ stRes'.path = stRes.path
      BY <2>1, <3>1, ResultWrite
    <3> QED BY <2>1, <3>1, <3>2
  <2>3. CASE StartFails
    <3>1. stRes' = [stRes EXCEPT !.err = "start", !.path = "start"] /\ stPc' = "extinguish"
      BY <2>3 DEF StartFails, Goto
    <3>2. ResultType' /\ stRes'.path = "start" /\ stRes'.err = "start"
      BY <2>1, <3>1, ResultWrite
    <3> QED BY <3>1, <3>2
  <2> QED BY <2>2, <2>3
<1>4. StageTypes'
  BY <1>1, <1>3 DEF LaunchInv, StageTypes, ScopeType, ProcType, OutType, StepType, Still, StageSteps
<1>5. Unborn' /\ Family' /\ Namespace' /\ BystanderLives'
  BY <1>1 DEF LaunchInv, Unborn, Family, NoEarlyKids, Namespace, Present, BystanderLives, Still
<1>6. Course'
  BY <1>1, <1>2, <1>3 DEF LaunchInv, Course
<1>7. Promises'
  <2>1. \A p \in Launched : proc'[p].st = "no"
    BY <1>1, <1>2 DEF Still
  <2> QED BY <1>1, <1>2, <1>3, <2>1, Apart DEF Promises, Extinct, Present
<1>8. Reports'
  BY <1>3 DEF Reports
<1> QED BY <1>4, <1>5, <1>6, <1>7, <1>8 DEF LaunchInv

(* The direct child is there, in the cgroup that was made for it.          *)
LEMMA StartKeeps ==
  ASSUME LaunchInv, Start
  PROVE  LaunchInv'
<1>1. /\ stPc = "command" /\ UNCHANGED <<stSpec, boot, ctx, out, stRes>> /\ ~scope.pid
      /\ ~scope.init /\ stRes.path = "none" /\ boot = "boot"
      /\ scope.cg = "own" => scope.method = "cgroup"
      /\ \A p \in Launched : proc[p].st = "no"
      /\ proc' = [proc EXCEPT ![Direct] = Newborn(scope.method = "cgroup")]
  BY DEF Start, LaunchInv, Course, Unborn
<1>2. scope' = [scope EXCEPT !.pid = TRUE]
  BY DEF Start
<1>3. /\ ScopeType' /\ scope'.method = scope.method /\ scope'.pid /\ scope'.cg = scope.cg
      /\ scope'.init = scope.init /\ scope'.rerr = scope.rerr
  BY <1>2 DEF LaunchInv, StageTypes, ScopeType, Scopes
<1> DEFINE v == Newborn(scope.method = "cgroup")
<1>4. v \in ProcRecs /\ v.st = "run" /\ v.in = (scope.method = "cgroup")
  BY DEF ProcRecs, Newborn
<1>5. ProcType' /\ proc'[Direct] = v /\ \A x \in Procs \ {Direct} : proc'[x] = proc[x]
  <2> HIDE DEF v
  <2>1. proc' = [proc EXCEPT ![Direct] = v] /\ Direct \in Procs
    BY <1>1, Apart DEF v
  <2> QED BY <1>4, <2>1, ProcWrite DEF LaunchInv, StageTypes
<1> HIDE DEF v
<1>6. Direct = IF scope.method = "pidns" THEN "wrap" ELSE "root"
  BY DEF Direct
<1>7. stPc' = IF scope.method \in {"systemd", "pidns"} THEN "resolve" ELSE "select"
  BY DEF Start, Goto
<1>8. \A k \in Kids : proc'[k].st = "no"
  BY <1>1, <1>5, Apart
<1>9. StageTypes'
  BY <1>1, <1>3, <1>5, <1>7 DEF LaunchInv, StageTypes, ResultType, OutType, StepType, StageSteps
<1>10. Family'
  <2>1. NoEarlyKids'
    BY <1>8 DEF NoEarlyKids
  <2>2. boot' = "boot"
    BY <1>1
  <2>3. scope.method # "pidns" => proc'["wrap"].st = "no"
    BY <1>1, <1>5, <1>6, Apart
  <2>4. scope.method = "cgroup" => proc'["root"].in
    BY <1>4, <1>5, <1>6
  <2>5. scope.method = "systemd" => scope.cg # "own"
    BY <1>1
  <2> QED BY <1>3, <1>8, <2>1, <2>2, <2>3, <2>4, <2>5 DEF Family
<1>11. Namespace' /\ BystanderLives' /\ Unborn'
  BY <1>1, <1>3, <1>5, <1>6, <1>8, Apart DEF LaunchInv, Namespace, Present, BystanderLives, Unborn
<1>12. Course'
  BY <1>1, <1>3, <1>7 DEF LaunchInv, Course
<1>13. Promises' /\ Reports'
  BY <1>1, <1>7 DEF Promises, Reports, Clean, Sealed
<1> QED BY <1>9, <1>10, <1>11, <1>12, <1>13 DEF LaunchInv

(* What Scope.Started finds, or does not.                                  *)
LEMMA ResolveKeeps ==
  ASSUME LaunchInv, ResolveCgroup \/ ResolveInit \/ ResolveTimesOut
  PROVE  LaunchInv'
<1>1. /\ stPc = "resolve" /\ stPc' = "select" /\ Still /\ UNCHANGED <<stSpec, stRes>>
      /\ scope.pid /\ stRes.path = "none"
  BY DEF ResolveCgroup, ResolveInit, ResolveTimesOut, Goto, Still, LaunchInv, Course
<1>2. /\ ScopeType' /\ scope'.method = scope.method /\ scope'.pid = scope.pid
      /\ \/ /\ ResolveCgroup /\ scope'.cg = "own" /\ scope'.init = scope.init
         \/ /\ ResolveInit /\ scope'.cg = scope.cg /\ scope'.init /\ scope'.rerr = scope.rerr
         \/ /\ ResolveTimesOut /\ scope'.cg = scope.cg /\ scope'.init = scope.init /\ scope'.rerr
  BY DEF ResolveCgroup, ResolveInit, ResolveTimesOut, LaunchInv, StageTypes, ScopeType, Scopes
<1>3. StageTypes'
  BY <1>1, <1>2 DEF LaunchInv, StageTypes, ProcType, ResultType, OutType, StepType, Still, StageSteps
<1>4. Unborn' /\ Namespace' /\ BystanderLives'
  BY <1>1, <1>2 DEF LaunchInv, Unborn, Namespace, Present, BystanderLives, Still
<1>5. Family'
  BY <1>1, <1>2 DEF LaunchInv, Family, NoEarlyKids, Still, ResolveCgroup
<1>6. Course'
  BY <1>1, <1>2 DEF LaunchInv, Course, Still, ResolveCgroup, ResolveInit, ResolveTimesOut
<1>7. Promises' /\ Reports'
  BY <1>1 DEF Promises, Reports, Clean, Sealed
<1> QED BY <1>3, <1>4, <1>5, <1>6, <1>7 DEF LaunchInv

(* A step that only moves the executor and its result keeps what is said   *)
(* of processes and scope.                                                 *)
LEMMA StillKeeps ==
  ASSUME LaunchInv, Still, UNCHANGED <<scope, stSpec>>, ResultType', stPc' \in StageSteps
  PROVE  StageTypes' /\ Unborn' /\ Family' /\ Namespace' /\ BystanderLives'
<1>1. StageTypes'
  BY DEF LaunchInv, StageTypes, ScopeType, ProcType, OutType, StepType, Still
<1>2. Unborn' /\ Family' /\ Namespace' /\ BystanderLives'
  BY DEF LaunchInv, Unborn, Family, NoEarlyKids, Namespace, Present, BystanderLives, Still
<1> QED BY <1>1, <1>2

(* The process ended by itself and nobody holds its output.                *)
LEMMA SelectDoneKeeps ==
  ASSUME LaunchInv, SelectDone
  PROVE  LaunchInv'
<1>1. /\ stPc = "select" /\ stPc' = "extinguish" /\ Still /\ UNCHANGED <<scope, stSpec>>
      /\ scope.pid /\ WaitReady /\ DoneError \in Errors
  BY DEF SelectDone, Goto, Still, LaunchInv, Course, DoneError, Errors
<1>2. ResultType' /\ stRes'.path = "done" /\ stRes'.err = DoneError
  BY <1>1, ResultWrite DEF SelectDone, LaunchInv, StageTypes
<1>3. StageTypes' /\ Unborn' /\ Family' /\ Namespace' /\ BystanderLives'
  BY <1>1, <1>2, StillKeeps DEF StageSteps
<1>4. Course' /\ Promises'
  BY <1>1, <1>2 DEF LaunchInv, Course, Promises, Clean, Sealed, Still
<1>5. Reports'
  BY <1>1, <1>2 DEF Reports, WaitReady, WaitOver, Direct, DoneError, Present, Still
<1> QED BY <1>3, <1>4, <1>5 DEF LaunchInv

(* The facts that a signal does not touch.                                 *)
LEMMA KillKeeps ==
  ASSUME LaunchInv, ProcType', Evolves, Namespace', UNCHANGED <<stSpec, scope, boot, out>>,
         ResultType', stPc' \in StageSteps,
         \A x \in Procs : /\ proc'[x].st = "no" <=> proc[x].st = "no"
                          /\ proc'[x].in = proc[x].in
  PROVE  StageTypes' /\ Unborn' /\ Family' /\ Namespace' /\ BystanderLives'
<1>1. StageTypes'
  BY DEF LaunchInv, StageTypes, ScopeType, OutType, StepType
<1>2. BystanderLives'
  BY DEF LaunchInv, BystanderLives, Evolves
<1>3. Unborn' /\ Family'
  BY Apart DEF LaunchInv, Unborn, Family, NoEarlyKids
<1> QED BY <1>1, <1>2, <1>3

(* The deadline or the limit: the process group is killed.                 *)
LEMMA SelectCtxKeeps ==
  ASSUME LaunchInv, SelectCtx
  PROVE  LaunchInv'
<1> DEFINE G == {p \in Launched : proc[p].grp}
           e == IF out.exceeded THEN "limit" ELSE "ctx"
<1>1. /\ stPc = "select" /\ stPc' = "extinguish" /\ UNCHANGED <<stSpec, scope, boot, out>>
      /\ proc' = Killed(proc, WithNamespace(G)) /\ scope.pid
      /\ stRes' = [stRes EXCEPT !.path = "ctx", !.err = e]
  BY DEF SelectCtx, Goto, LaunchInv, Course
<1>2. e \in Errors /\ e # "none"
  BY DEF Errors
<1> HIDE DEF e
<1>3. ResultType' /\ stRes'.path = "ctx" /\ stRes'.err # "none"
  BY <1>1, <1>2, ResultWrite DEF LaunchInv, StageTypes
<1>4. ProcType' /\ Evolves /\ Namespace'
  BY <1>1, KillKeepsNamespace DEF LaunchInv, StageTypes
<1>5. \A x \in Procs : (proc'[x].st = "no" <=> proc[x].st = "no") /\ proc'[x].in = proc[x].in
  <2>1. WithNamespace(G) \in SUBSET Launched
    BY Apart
  <2> QED BY <1>1, <2>1, Apart, KillEffect DEF LaunchInv, StageTypes
<1> HIDE DEF G
<1>6. StageTypes' /\ Unborn' /\ Family' /\ Namespace' /\ BystanderLives'
  BY <1>1, <1>3, <1>4, <1>5, KillKeeps DEF StageSteps
<1>7. Course' /\ Promises' /\ Reports'
  BY <1>1, <1>3, <1>5, Apart DEF LaunchInv, Course, Promises, Reports, Clean, Sealed
<1> QED BY <1>6, <1>7 DEF LaunchInv

(* Where an extinction ends, with or without an error.                     *)
LEMMA ExtinguishedEffect ==
  ASSUME ResultType, NEW e \in Errors, Extinguished(e)
  PROVE  /\ ResultType' /\ stRes'.path = stRes.path /\ stRes'.err = stRes.err
         /\ stRes'.ext = e /\ stRes'.gone = stRes.gone
         /\ stPc' = IF stRes.path = "ctx" THEN "drain" ELSE "return"
BY ResultWrite DEF Extinguished, Goto

(* A failed extinction promises nothing.                                   *)
LEMMA FailedKeeps ==
  ASSUME LaunchInv, Still, UNCHANGED <<scope, stSpec>>, NEW e \in Errors \ {"none"}, Extinguished(e),
         stPc \notin {"check", "command", "resolve", "select"}
  PROVE  LaunchInv'
<1>1. /\ ResultType' /\ stRes'.path = stRes.path /\ stRes'.err = stRes.err /\ stRes'.ext = e
      /\ stPc' = IF stRes.path = "ctx" THEN "drain" ELSE "return"
  BY ExtinguishedEffect DEF LaunchInv, StageTypes
<1>2. StageTypes' /\ Unborn' /\ Family' /\ Namespace' /\ BystanderLives'
  BY <1>1, StillKeeps DEF StageSteps
<1>3. Course' /\ Promises'
  BY <1>1 DEF LaunchInv, Course, Promises, Clean, Sealed, Still
<1>4. Reports'
  BY <1>1 DEF LaunchInv, Reports, Present, Still
<1> QED BY <1>2, <1>3, <1>4 DEF LaunchInv

(* A step that leaves the processes and the result alone.                  *)
LEMMA OnwardKeeps ==
  ASSUME LaunchInv, Still, UNCHANGED <<scope, stSpec, stRes>>, stPc \in {"extinguish", "wait"},
         stPc' \in {"kill", "scan"}, Promises',
         stPc' = "kill" => scope.cg = "own" /\ scope.method \in {"systemd", "cgroup"}
  PROVE  LaunchInv'
<1>1. ResultType' /\ stPc' \in StageSteps
  BY DEF LaunchInv, StageTypes, ResultType, StageSteps
<1>2. StageTypes' /\ Unborn' /\ Family' /\ Namespace' /\ BystanderLives'
  BY <1>1, StillKeeps
<1>3. Course' /\ Reports'
  BY DEF LaunchInv, Course, Reports, Present, Still
<1> QED BY <1>2, <1>3 DEF LaunchInv

(* A step that sends a signal and leaves the result alone.                 *)
LEMMA SignalKeeps ==
  ASSUME LaunchInv, NEW S \in SUBSET Launched, proc' = Killed(proc, S), Namespace',
         UNCHANGED <<stSpec, scope, boot, out, stRes>>, stPc \in {"extinguish", "kill"},
         stPc' \in {"wait", "scan"}, Promises',
         stPc' = "wait" => \/ scope.cg = "own" /\ scope.method \in {"systemd", "cgroup"}
                           \/ scope.init /\ scope.method = "pidns"
  PROVE  LaunchInv'
<1>1. /\ ProcType' /\ Evolves
      /\ \A x \in Procs : /\ proc'[x].st = "no" <=> proc[x].st = "no"
                          /\ proc'[x].st = "dead" <=> proc[x].st = "dead"
                          /\ proc'[x].in = proc[x].in /\ proc'[x].holds = proc[x].holds
  BY Apart, KillEffect DEF LaunchInv, StageTypes
<1>2. ResultType' /\ stPc' \in StageSteps
  BY DEF LaunchInv, StageTypes, ResultType, StageSteps
<1>3. StageTypes' /\ Unborn' /\ Family' /\ Namespace' /\ BystanderLives'
  BY <1>1, <1>2, KillKeeps
<1>4. Course'
  BY <1>1, Apart DEF LaunchInv, Course
<1>5. Reports'
  <2>1. \A x \in Procs : /\ proc[x].st \in {"no", "run", "dying", "dead"}
                         /\ proc'[x].st \in {"no", "run", "dying", "dead"}
    BY <1>1 DEF LaunchInv, StageTypes, ProcType, ProcRecs
  <2>2. \A x \in Launched : proc'[x].st \in {"run", "dying"} => proc[x].st \in {"run", "dying"}
    BY <1>1, <2>1, Apart
  <2> QED BY <1>1, <2>2, Apart DEF LaunchInv, Reports, Present
<1> QED BY <1>3, <1>4, <1>5 DEF LaunchInv

(* The two cgroup methods: without a cgroup there was no launch.           *)
LEMMA ExtinguishCgroupKeeps ==
  ASSUME LaunchInv, ExtinguishCgroup
  PROVE  LaunchInv'
<1>1. /\ stPc = "extinguish" /\ scope.method \in {"systemd", "cgroup"} /\ Still
      /\ UNCHANGED <<scope, stSpec>>
  BY DEF ExtinguishCgroup, Still
<1>2. CASE Extinguished("unresolved") \/ Extinguished("freeze")
  BY <1>1, <1>2, FailedKeeps DEF Errors
<1>3. CASE scope.cg = "none" /\ ~scope.rerr /\ Goto("scan") /\ UNCHANGED stRes
  <2>1. ~scope.pid
    BY <1>1, <1>3 DEF LaunchInv, Course
  <2>2. \A p \in Launched : proc'[p].st = "no"
    BY <1>1, <2>1 DEF LaunchInv, Unborn, Still
  <2>3. Promises'
    BY <1>1, <1>3, <2>2 DEF Promises, Extinct, Present, Clean, Sealed, Goto
  <2> QED BY <1>1, <1>3, <2>3, OnwardKeeps DEF Goto
<1>4. CASE scope.cg # "none" /\ Goto("kill") /\ UNCHANGED stRes
  <2>1. scope.cg = "own"
    BY <1>4 DEF LaunchInv, StageTypes, ScopeType, Scopes
  <2>2. Promises'
    BY <1>4 DEF Promises, Clean, Sealed, Goto
  <2> QED BY <1>1, <1>4, <2>1, <2>2, OnwardKeeps DEF Goto
<1> QED BY <1>2, <1>3, <1>4 DEF ExtinguishCgroup

(* Every process in the cgroup is killed.                                  *)
LEMMA KillCgroupKeeps ==
  ASSUME LaunchInv, KillCgroup
  PROVE  LaunchInv'
<1>1. /\ stPc = "kill" /\ scope.cg = "own" /\ scope.method \in {"systemd", "cgroup"}
      /\ UNCHANGED <<scope, stSpec, boot, out>>
  BY DEF KillCgroup, LaunchInv, Course
<1>2. CASE Extinguished("kill") /\ UNCHANGED proc
  BY <1>1, <1>2, FailedKeeps DEF Errors, Still
<1>3. CASE proc' = Killed(proc, CgroupOf(scope.cg)) /\ Goto("wait") /\ UNCHANGED stRes
  <2>1. CgroupOf(scope.cg) \in SUBSET Launched
    BY <1>1 DEF CgroupOf
  <2>2. Namespace' /\ Promises'
    BY <1>1, <1>3 DEF Namespace, Promises, Clean, Sealed, Goto
  <2> QED BY <1>1, <1>3, <2>1, <2>2, SignalKeeps DEF Goto
<1> QED BY <1>2, <1>3 DEF KillCgroup

(* An empty cgroup is the end of all of them.                              *)
LEMMA WaitCgroupEmptyKeeps ==
  ASSUME LaunchInv, WaitCgroupEmpty
  PROVE  LaunchInv'
<1>1. /\ stPc = "wait" /\ scope.cg = "own" /\ scope.method \in {"systemd", "cgroup"}
      /\ Still /\ UNCHANGED <<scope, stSpec>>
  BY DEF WaitCgroupEmpty, LaunchInv, Course, Still
<1>2. CASE Extinguished("alive")
  BY <1>1, <1>2, FailedKeeps DEF Errors
<1>3. CASE CgroupEmpty /\ Goto("scan") /\ UNCHANGED stRes
  <2>1. \A p \in Launched : proc[p].in => ~Present(p)
    BY <1>1, <1>3 DEF CgroupEmpty, CgroupOf
  <2>2. \A p \in Launched : proc[p].st # "no" => proc[p].in
    BY <1>1 DEF LaunchInv, Family, Launched
  <2>3. Extinct'
    BY <1>1, <2>1, <2>2 DEF Extinct, Present, Still
  <2>4. Promises'
    BY <1>1, <1>3, <2>3 DEF LaunchInv, Course, Promises, Sealed, Goto
  <2> QED BY <1>1, <1>3, <2>4, OnwardKeeps DEF Goto
<1> QED BY <1>2, <1>3 DEF WaitCgroupEmpty

(* A namespace's init is killed, when it was identified.                   *)
LEMMA ExtinguishNamespaceKeeps ==
  ASSUME LaunchInv, ExtinguishNamespace
  PROVE  LaunchInv'
<1>1. /\ stPc = "extinguish" /\ scope.method = "pidns" /\ UNCHANGED <<scope, stSpec, boot, out>>
  BY DEF ExtinguishNamespace
<1>2. CASE Extinguished("unidentified") /\ UNCHANGED proc
  BY <1>1, <1>2, FailedKeeps DEF Errors, Still
<1>3. CASE (~Started \/ ~scope.init) /\ Goto("scan") /\ UNCHANGED <<proc, stRes>>
  <2>1. ~scope.init
    BY <1>3 DEF LaunchInv, Course, Started
  <2>2. Promises'
    BY <1>1, <1>3, <2>1 DEF Promises, Sealed, Goto
  <2> QED BY <1>1, <1>3, <2>2, OnwardKeeps DEF Goto, Still
<1>4. CASE scope.init /\ proc' = Killed(proc, WithNamespace({"root"})) /\ Goto("wait")
           /\ UNCHANGED stRes
  <2>1. {"root"} \in SUBSET Launched /\ WithNamespace({"root"}) \in SUBSET Launched
    BY Apart
  <2>2. Namespace'
    BY <1>1, <1>4, <2>1, KillKeepsNamespace DEF LaunchInv, StageTypes
  <2>3. Promises'
    BY <1>4 DEF Promises, Clean, Sealed, Goto
  <2> QED BY <1>1, <1>4, <2>1, <2>2, <2>3, SignalKeeps DEF Goto
<1> QED BY <1>2, <1>3, <1>4 DEF ExtinguishNamespace

(* Its end is the end of everything in it.                                 *)
LEMMA WaitInitGoneKeeps ==
  ASSUME LaunchInv, WaitInitGone
  PROVE  LaunchInv'
<1>1. /\ stPc = "wait" /\ scope.init /\ scope.method = "pidns" /\ Still
      /\ UNCHANGED <<scope, stSpec>>
  BY DEF WaitInitGone, LaunchInv, Course, Still
<1>2. CASE Extinguished("alive")
  BY <1>1, <1>2, FailedKeeps DEF Errors
<1>3. CASE ~Present("root") /\ Goto("scan") /\ UNCHANGED stRes
  <2>1. proc["root"].st = "dead"
    BY <1>1, <1>3, Apart DEF LaunchInv, Course, Present, StageTypes, ProcType, ProcRecs
  <2>2. \A p \in Launched \ {"wrap"} : ~Present(p)
    BY <1>1, <1>3, <2>1 DEF LaunchInv, Namespace, Launched
  <2>3. Promises'
    BY <1>1, <1>3, <2>2 DEF Promises, Present, Sealed, Still, Goto
  <2> QED BY <1>1, <1>3, <2>3, OnwardKeeps DEF Goto
<1> QED BY <1>2, <1>3 DEF WaitInitGone

(* The fallback kills whoever stayed in the process group.                 *)
LEMMA ExtinguishDegradedKeeps ==
  ASSUME LaunchInv, ExtinguishDegraded
  PROVE  LaunchInv'
<1> DEFINE G == {p \in Launched : proc[p].grp}
<1>1. /\ stPc = "extinguish" /\ scope.method = "degraded" /\ stPc' = "scan"
      /\ UNCHANGED <<scope, stSpec, boot, out, stRes>>
  BY DEF ExtinguishDegraded, Goto
<1>2. CASE Started
  <2>1. proc' = Killed(proc, G) /\ G \in SUBSET Launched
    BY <1>2 DEF ExtinguishDegraded
  <2>2. /\ \A x \in G : proc'[x].st # "run"
        /\ \A x \in Procs : proc'[x].grp = proc[x].grp
    BY <2>1, Apart, KillEffect DEF LaunchInv, StageTypes
  <2>3. \A p \in Launched : proc'[p].grp => proc'[p].st # "run"
    BY <2>2, Apart
  <2>4. Promises' /\ Namespace'
    BY <1>1, <2>3 DEF LaunchInv, Course, Promises, Namespace, Sealed
  <2> HIDE DEF G
  <2> QED BY <1>1, <2>1, <2>4, SignalKeeps
<1>3. CASE ~Started
  <2>1. UNCHANGED proc
    BY <1>3 DEF ExtinguishDegraded
  <2>2. \A p \in Launched : proc'[p].st = "no"
    BY <1>3, <2>1 DEF LaunchInv, Unborn, Started
  <2>3. Promises'
    BY <1>1, <2>2 DEF LaunchInv, Course, Promises, Sealed
  <2> QED BY <1>1, <2>1, <2>3, OnwardKeeps DEF Still
<1> QED BY <1>2, <1>3

(* Nobody the scope answers for holds anything in the workspace.           *)
LEMMA ScanKeeps ==
  ASSUME LaunchInv, ScanWorkspaceFD
  PROVE  LaunchInv'
<1>1. stPc = "scan" /\ Still /\ UNCHANGED <<scope, stSpec>>
  BY DEF ScanWorkspaceFD, Still
<1>2. CASE Extinguished("handle") \/ Extinguished("unreadable")
  BY <1>1, <1>2, FailedKeeps DEF Errors
<1>3. CASE /\ \A p \in Launched : Present(p) /\ Relevant(p) => ~proc[p].holds
           /\ Extinguished("none")
  <2>1. /\ ResultType' /\ stRes'.path = stRes.path /\ stRes'.err = stRes.err
        /\ stRes'.ext = "none" /\ stPc' = IF stRes.path = "ctx" THEN "drain" ELSE "return"
    BY <1>3, ExtinguishedEffect DEF LaunchInv, StageTypes, Errors
  <2>2. StageTypes' /\ Unborn' /\ Family' /\ Namespace' /\ BystanderLives'
    BY <1>1, <2>1, StillKeeps DEF StageSteps
  <2>3. Course' /\ Reports'
    BY <1>1, <2>1 DEF LaunchInv, Course, Reports, Present, Still
  <2>4. scope.method = "degraded" => \A p \in Launched : Present(p) /\ proc[p].grp => ~proc[p].holds
    BY <1>3 DEF LaunchInv, Unborn, Present, Relevant, Started
  <2>5. Clean
    BY <1>1 DEF Clean
  <2>6. Promises'
    BY <1>1, <2>1, <2>4, <2>5 DEF LaunchInv, Promises, Extinct, Present, Still
  <2> QED BY <2>2, <2>3, <2>6 DEF LaunchInv
<1> QED BY <1>2, <1>3 DEF ScanWorkspaceFD

(* After a kill the output has to end too, or the claim is withdrawn.      *)
LEMMA DrainKeeps ==
  ASSUME LaunchInv, Drain
  PROVE  LaunchInv'
<1>1. /\ stPc = "drain" /\ stPc' = "return" /\ Still /\ UNCHANGED <<scope, stSpec>>
      /\ stRes.path = "ctx"
  BY DEF Drain, Goto, Still, LaunchInv, Course
<1>2. /\ ResultType' /\ stRes'.path = stRes.path /\ stRes'.err = stRes.err
      /\ stRes'.ext = "none" => WaitReady /\ stRes.ext = "none"
  <2> DEFINE e == IF stRes.ext = "none" THEN "noWait" ELSE stRes.ext
  <2>1. e \in Errors /\ e # "none"
    BY DEF LaunchInv, StageTypes, ResultType, Results, Errors
  <2>2. CASE WaitReady /\ UNCHANGED stRes
    BY <2>2 DEF LaunchInv, StageTypes, ResultType
  <2>3. CASE stRes' = [stRes EXCEPT !.ext = e]
    <3> HIDE DEF e
    <3> QED BY <2>1, <2>3, ResultWrite DEF LaunchInv, StageTypes
  <2> QED BY <2>2, <2>3 DEF Drain
<1>3. StageTypes' /\ Unborn' /\ Family' /\ Namespace' /\ BystanderLives'
  BY <1>1, <1>2, StillKeeps DEF StageSteps
<1>4. Course' /\ Reports'
  BY <1>1, <1>2 DEF LaunchInv, Course, Reports, Present, Still
<1>5. Sealed' => Sealed
  BY <1>1, <1>2 DEF Sealed
<1>6. Clean' => Clean
  BY <1>1, <1>5 DEF Clean
<1>7. Sealed' /\ scope.method = "pidns" => proc["wrap"].st = "dead"
  BY <1>1, <1>2 DEF Sealed, WaitReady, WaitOver, Direct
<1>8. Promises'
  BY <1>1, <1>5, <1>6, <1>7 DEF LaunchInv, Promises, Extinct, Present, Still
<1> QED BY <1>3, <1>4, <1>8 DEF LaunchInv

(* What is returned is what was established.                               *)
LEMMA ReturnKeeps ==
  ASSUME LaunchInv, Return
  PROVE  LaunchInv'
<1> DEFINE e == IF stRes.ext # "none" THEN stRes.ext ELSE stRes.err
           g == stRes.ext = "none"
<1>1. /\ stPc = "return" /\ stPc' = "returned" /\ Still /\ UNCHANGED <<scope, stSpec>>
      /\ stRes' = [stRes EXCEPT !.gone = g, !.err = e]
  BY DEF Return, Goto, Still
<1>2. e \in Errors /\ g \in BOOLEAN /\ (stRes.err # "none" => e # "none")
  BY DEF LaunchInv, StageTypes, ResultType, Results
<1> HIDE DEF e
<1>3. /\ ResultType' /\ stRes'.path = stRes.path /\ stRes'.err = e /\ stRes'.ext = stRes.ext
      /\ stRes'.gone = g
  <2> HIDE DEF g
  <2> QED BY <1>1, <1>2, ResultWrite DEF LaunchInv, StageTypes
<1>4. StageTypes' /\ Unborn' /\ Family' /\ Namespace' /\ BystanderLives'
  BY <1>1, <1>3, StillKeeps DEF StageSteps
<1>5. Course' /\ Reports'
  BY <1>1, <1>2, <1>3 DEF LaunchInv, Course, Reports, Present, Still
<1>6. Sealed' => Sealed
  BY <1>1, <1>3 DEF Sealed
<1>7. Clean' => Clean
  BY <1>1, <1>6 DEF Clean
<1>8. Promises'
  BY <1>1, <1>3, <1>6, <1>7 DEF LaunchInv, Promises, Extinct, Present, Still
<1> QED BY <1>4, <1>5, <1>8 DEF LaunchInv

(* Every step of the executor.                                             *)
LEMMA ExecutorKeeps ==
  ASSUME LaunchInv, Executor
  PROVE  LaunchInv'
BY CheckKeeps, NoStartKeeps, StartKeeps, ResolveKeeps, SelectDoneKeeps, SelectCtxKeeps,
   ExtinguishCgroupKeeps, KillCgroupKeeps, WaitCgroupEmptyKeeps, ExtinguishNamespaceKeeps,
   WaitInitGoneKeeps, ExtinguishDegradedKeeps, ScanKeeps, DrainKeeps, ReturnKeeps DEF Executor

(* The deadline changes nothing of it, nor does a step of somebody else.   *)
LEMMA OthersKeep ==
  ASSUME LaunchInv, Expire \/ UNCHANGED stVars
  PROVE  LaunchInv'
<1>1. Still /\ UNCHANGED <<stSpec, stPc, scope, stRes>>
  BY DEF Expire, Env, stVars, Still
<1>2. StageTypes' /\ Unborn' /\ Family' /\ Namespace' /\ BystanderLives'
  BY <1>1, StillKeeps DEF LaunchInv, StageTypes, StepType, ResultType
<1>3. Course' /\ Reports'
  BY <1>1 DEF LaunchInv, Course, Reports, Present, Still
<1>4. Promises'
  BY <1>1 DEF LaunchInv, Promises, Clean, Sealed, Extinct, Present, Still
<1> QED BY <1>2, <1>3, <1>4 DEF LaunchInv

(* A launch begins with nobody but the bystander.                          *)
LEMMA LaunchBegins ==
  StageInit => LaunchInv
<1> SUFFICES ASSUME StageInit PROVE LaunchInv
  OBVIOUS
<1>1. \A p \in Procs : proc[p] = IF p = "bystander" THEN [NoProc EXCEPT !.st = "run"] ELSE NoProc
  BY DEF StageInit
<1>2. [NoProc EXCEPT !.st = "run"] = [st |-> "run", grp |-> FALSE, holds |-> FALSE, in |-> FALSE]
  <2>1. NoProc \in ProcRecs /\ ~NoProc.grp /\ ~NoProc.holds /\ ~NoProc.in
    BY DEF NoProc, ProcRecs
  <2>2. [NoProc EXCEPT !.st = "run"]
          = [st |-> "run", grp |-> NoProc.grp, holds |-> NoProc.holds, in |-> NoProc.in]
    BY <2>1, FieldWrite
  <2>3. NoProc.grp = FALSE /\ NoProc.holds = FALSE /\ NoProc.in = FALSE
    BY DEF NoProc
  <2> QED BY <2>2, <2>3
<1>3. ProcType
  BY <1>1, <1>2 DEF StageInit, ProcType, ProcRecs, NoProc
<1>4. /\ BystanderLives /\ proc["root"].st = "no" /\ proc["wrap"].st = "no"
      /\ \A p \in Launched : proc[p].st = "no"
  BY <1>1, <1>2, Apart DEF BystanderLives, NoProc
<1>5. StageTypes
  BY <1>3, StageAssumption
     DEF StageInit, StageTypes, ScopeType, Scopes, ResultType, Results, OutType, StepType, StageSteps,
         Methods, Errors
<1>6. Unborn /\ Family /\ Namespace /\ Course /\ Promises /\ Reports
  BY <1>4, Apart
     DEF StageInit, Unborn, Family, NoEarlyKids, Namespace, Course, Promises, Clean, Sealed, Reports
<1> QED BY <1>4, <1>5, <1>6 DEF LaunchInv

-----------------------------------------------------------------------------
(* The theorems                                                            *)

(* At every moment of a launch the processes stand to the scope, and the   *)
(* result to the processes, as LaunchInv says.                             *)
THEOREM LaunchInvariance == StageSpecification => []LaunchInv
<1>1. StageInit => LaunchInv
  BY LaunchBegins
<1>2. LaunchInv /\ [StageNext]_stVars => LaunchInv'
  BY ExecutorKeeps, ProcessKeeps, OthersKeep DEF StageNext
<1> QED BY <1>1, <1>2, PTL DEF StageSpecification

(* A launch that reports its descendants gone has left none behind in a    *)
(* scope that owns them, whatever they forked, detached or released while  *)
(* Scope.Extinguish was at work; the fallback kills the process group.     *)
THEOREM NobodySurvives == StageSpecification => []NoSurvivor
<1>1. ASSUME LaunchInv PROVE NoSurvivor
  <2>1. Reported => Sealed /\ Clean
    BY DEF Reported, Sealed, Clean
  <2>2. Reported /\ scope.method \in {"systemd", "cgroup"} => Extinct
    BY <1>1, <2>1 DEF LaunchInv, Promises
  <2>3. ASSUME Reported, scope.method = "pidns", scope.init
        PROVE  Extinct
    <3>1. \A p \in Launched \ {"wrap"} : ~Present(p)
      BY <1>1, <2>1, <2>3 DEF LaunchInv, Promises
    <3>2. stRes.path \in {"done", "ctx"}
      BY <1>1, <2>3 DEF LaunchInv, Course, Reported
    <3>3. proc["wrap"].st = "dead"
      BY <1>1, <2>1, <2>3, <3>2 DEF LaunchInv, Promises, Reports, Reported
    <3> QED BY <3>1, <3>3 DEF Extinct, Present
  <2>4. Reported /\ scope.method = "degraded" =>
          \A p \in Launched : proc[p].grp => proc[p].st # "run" /\ ~(Present(p) /\ proc[p].holds)
    BY <1>1, <2>1 DEF LaunchInv, Promises
  <2> QED BY <2>2, <2>3, <2>4 DEF NoSurvivor
<1> QED BY <1>1, LaunchInvariance, PTL

(* Extinguishing a launch spares every process that is not part of it: the *)
(* cgroup that is killed carries the name of the scope.                    *)
THEOREM BystanderIsSpared == StageSpecification => []BystanderLives
<1>1. LaunchInv => BystanderLives
  BY DEF LaunchInv
<1> QED BY <1>1, LaunchInvariance, PTL

(* A capture that had to be complete and was cut is never reported as      *)
(* success, whichever of the two channels Executor.Run heard first.        *)
THEOREM CutIsNoSuccess == StageSpecification => []CutIsReported
<1>1. ASSUME LaunchInv PROVE CutIsReported
  BY <1>1 DEF LaunchInv, StageTypes, ResultType, Results, Reports, CutIsReported
<1> QED BY <1>1, LaunchInvariance, PTL

-----------------------------------------------------------------------------
(* Batches and panels                                                      *)

BatchSpec == BatchInit /\ [][BatchNext]_bVars

JobStatuses == {"none", "SKIPPED", "TIMEOUT"} \cup Outcomes
JobResults == [n : Nat, st : JobStatuses]
WorkerRecs(p) == [pc : {"off", "recv", "check", "reserve", "running", "send", "gone"},
                  job : p.jobs \cup {0}, st : JobStatuses]
PanelRecs(p) == [left : SUBSET p.jobs, succ : SUBSET p.jobs, timeout : BOOLEAN, degraded : BOOLEAN,
                 used : SUBSET Nat, kept : SUBSET UNION {p.produces[j] : j \in p.jobs}]

(* What the operator asked for.                                            *)
Asked ==
    /\ IsPlan(bPlan.plan) /\ bPlan.par \in Workers /\ bPlan.halt \in BOOLEAN
    /\ bPlan.panel.minSuccess \in Nat /\ bPlan.panel.minUnique \in Nat

BatchTypes ==
    /\ bPc \in {"validate", "refused", "assign", "member", "level", "run", "done", "failed"}
    /\ bLevels \in Seq(SUBSET bPlan.plan.jobs)
    /\ bQueue \in SUBSET bPlan.plan.jobs
    /\ wk \in [Workers -> WorkerRecs(bPlan.plan)]
    /\ bHalt \in [level : BOOLEAN, all : BOOLEAN]
    /\ bRes \in [bPlan.plan.jobs -> JobResults]
    /\ bLate \in Nat
    /\ pn \in PanelRecs(bPlan.plan)

(* The jobs of a sequence of levels; levels that share none and hold some. *)
JobsOf(s) == UNION {s[n] : n \in DOMAIN s}
Layered(s) == /\ \A n \in DOMAIN s : s[n] # {}
              /\ \A m, n \in DOMAIN s : m # n => s[m] \cap s[n] = {}

(* A worker has a job in its hands.                                        *)
Busy(w) == wk[w].pc \in {"check", "reserve", "running", "send"}
Held == {wk[w].job : w \in {v \in Workers : Busy(v)}}

(* The jobs whose result is still to come.                                 *)
Unsettled ==
    IF bPc = "run" THEN (JobsOf(bLevels) \ Head(bLevels)) \cup bQueue \cup Held
    ELSE IF bPc = "member" THEN (JobsOf(bLevels) \ Head(bLevels)) \cup pn.left
    ELSE JobsOf(bLevels)

(* Where every job of the plan is.                                         *)
Accounted ==
    /\ bPc \in {"validate", "refused"} => \A j \in bPlan.plan.jobs : bRes[j] = [n |-> 0, st |-> "none"]
    /\ bPc \in {"assign", "member", "level", "run"} =>
         /\ Layered(bLevels)
         /\ \A j \in bPlan.plan.jobs : bRes[j].n = IF j \in Unsettled THEN 0 ELSE 1
    /\ bPc = "done" => \A j \in bPlan.plan.jobs : bRes[j].n = 1
    /\ \A j \in bPlan.plan.jobs : bRes[j].n <= 1
    /\ bPc \in {"assign", "member", "run"} => bLevels # <<>>
    /\ bPc = "assign" => bRes = NoRes(bPlan.plan)
    /\ bPc \in {"assign", "level"} /\ (\A j \in bPlan.plan.jobs : bRes[j].n = 0)
         => LevelsRespect(bPlan.plan, bLevels)

(* The channel and the workers own disjoint parts of the level.            *)
Owned ==
    /\ bPc # "run" => \A w \in Workers : ~Busy(w)
    /\ bPc = "run" =>
         /\ bQueue \subseteq Head(bLevels)
         /\ \A w \in Workers : Busy(w) => wk[w].job \in Head(bLevels) \ bQueue
         /\ \A v, w \in Workers : Busy(v) /\ Busy(w) /\ wk[v].job = wk[w].job => v = w

Reserving == {w \in Workers : wk[w].pc = "reserve"}
QuarantineSeen ==
    \/ \E j \in Head(bLevels) : bRes[j].n = 1 /\ bRes[j].st = "QUARANTINED"
    \/ \E w \in Workers : wk[w].pc = "send" /\ wk[w].st = "QUARANTINED"

(* Who may still launch once a quarantine is known.                        *)
Halting ==
    /\ \A w \in Workers : w > bPlan.par => wk[w].pc = "off"
    /\ ~bPlan.halt => bLate = 0 /\ ~bHalt.level /\ ~bHalt.all
    /\ bLate <= bPlan.par - 1
    /\ bPc = "run" =>
         /\ ~bHalt.all
         /\ ~bHalt.level => bLate = 0
         /\ bHalt.level => bLate + Cardinality(Reserving) <= bPlan.par - 1 /\ QuarantineSeen
    /\ bPc # "run" /\ ~bHalt.all /\ bPc # "failed" => bLate = 0

(* What the panel has counted.                                             *)
Quorate ==
    /\ pn.kept = UNION {bPlan.plan.produces[m] : m \in Approved}
    /\ OnlyMembersFirst =>
         /\ pn.kept # {} /\ Cardinality(Approved) >= 2
         /\ ~pn.degraded => /\ Cardinality(Approved) >= EffectiveMinSuccess(bPlan.panel)
                            /\ Cardinality(pn.used) >= EffectiveMinUnique(bPlan.panel)

PanelInv ==
    /\ bPc \in {"validate", "assign"} => pn = NoPanel
    /\ bPc \in {"assign", "member"} => IsPanel
    /\ IsPanel /\ bPc \notin {"validate", "refused"} =>
         /\ validatePanelSpec(bPlan.panel, bPlan.plan)
         /\ bPc \in {"assign", "member"} =>
              /\ Head(bLevels) = {j \in bPlan.plan.jobs : bPlan.plan.deps[j] = {}}
              /\ bRes[bPlan.panel.comparison].st \notin Outcomes
              /\ pn.kept = {}
         /\ bPc = "member" =>
              /\ bPlan.panel.members \subseteq Head(bLevels)
              /\ pn.left \subseteq Head(bLevels)
              /\ pn.succ = {j \in Head(bLevels) \ pn.left : bRes[j].st = "APPROVED"}
              /\ ~pn.degraded => Cardinality(pn.used) >= EffectiveMinUnique(bPlan.panel)
         /\ bPc \in {"level", "run"} =>
              /\ bPlan.panel.members \cap JobsOf(bLevels) = {}
              /\ Quorate
         /\ bPc \in {"done", "failed"} => PanelSound

BatchInv == Asked /\ BatchTypes /\ Accounted /\ Owned /\ Halting /\ PanelInv

-----------------------------------------------------------------------------
(* The levels of a plan                                                    *)

(* What the first n levels complete, as a function of n.                   *)
IsBefore(b, p, n) ==
    b = [i \in 0..n |-> IF i = 0 THEN {}
                        ELSE b[i - 1] \cup {j \in p.jobs : p.deps[j] \cap p.jobs \subseteq b[i - 1]}]

(* The recursion of Level has a solution.                                  *)
LEMMA BeforeExists ==
  ASSUME NEW p, NEW n \in Nat
  PROVE  \E b : IsBefore(b, p, n)
<1> DEFINE Bad == {i \in Nat : ~ \E b : IsBefore(b, p, i)}
<1> SUFFICES ASSUME Bad # {} PROVE FALSE
  OBVIOUS
<1>1. PICK i \in Bad : \A k \in Bad : i <= k
  <2>1. Bad \in SUBSET Nat
    OBVIOUS
  <2> HIDE DEF Bad
  <2> QED BY <2>1, LeastNumber
<1>2. CASE i = 0
  <2> DEFINE b == [k \in 0..0 |-> {}]
  <2>1. IsBefore(b, p, 0)
    BY DEF IsBefore
  <2> QED BY <1>2, <2>1
<1>3. CASE i # 0
  <2>1. i - 1 \in Nat /\ i - 1 \notin Bad
    BY <1>1, <1>3
  <2>2. PICK a : IsBefore(a, p, i - 1)
    BY <2>1
  <2> DEFINE more(s) == s \cup {j \in p.jobs : p.deps[j] \cap p.jobs \subseteq s}
             b == [k \in 0..i |-> IF k = i THEN more(a[i - 1]) ELSE a[k]]
  <2>3. \A k \in 0..(i - 1) : a[k] = IF k = 0 THEN {} ELSE more(a[k - 1])
    BY <2>2 DEF IsBefore
  <2>4. \A k \in 0..i : b[k] = IF k = 0 THEN {} ELSE more(b[k - 1])
    <3> HIDE DEF more
    <3> SUFFICES ASSUME NEW k \in 0..i PROVE b[k] = IF k = 0 THEN {} ELSE more(b[k - 1])
      OBVIOUS
    <3>1. CASE k = i
      BY <1>1, <1>3, <3>1
    <3>2. CASE k # i
      <4>1. k \in 0..(i - 1) /\ b[k] = a[k] /\ (k # 0 => b[k - 1] = a[k - 1])
        BY <1>1, <3>2
      <4> QED BY <2>3, <4>1
    <3> QED BY <3>1, <3>2
  <2>5. b = [k \in 0..i |-> IF k = 0 THEN {} ELSE more(b[k - 1])]
    <3>1. b = [k \in 0..i |-> b[k]]
      OBVIOUS
    <3> HIDE DEF b, more
    <3> QED BY <2>4, <3>1
  <2> HIDE DEF b
  <2>6. IsBefore(b, p, i)
    BY <2>5 DEF IsBefore
  <2> QED BY <1>1, <2>6
<1> QED BY <1>2, <1>3

(* Level is the difference of what two numbers of levels complete.         *)
LEMMA LevelIs ==
  ASSUME NEW p, IsPlan(p)
  PROVE  \E b : /\ b \in [0..Cardinality(p.jobs) -> SUBSET p.jobs]
                /\ b[0] = {}
                /\ \A n \in 1..Cardinality(p.jobs) :
                     /\ b[n] = b[n - 1] \cup {j \in p.jobs : p.deps[j] \cap p.jobs \subseteq b[n - 1]}
                     /\ Level(p)[n] = b[n] \ b[n - 1]
                /\ DOMAIN Level(p) = 1..Cardinality(p.jobs)
<1> DEFINE N == Cardinality(p.jobs)
           b == CHOOSE b : IsBefore(b, p, N)
<1>1. N \in Nat
  BY FS_CardinalityType DEF IsPlan
<1>2. IsBefore(b, p, N)
  BY <1>1, BeforeExists
<1>3. Level(p) = [n \in 1..N |-> b[n] \ b[n - 1]]
  BY DEF Level, IsBefore
<1> HIDE DEF b, N
<1>4. DOMAIN b = 0..N
  BY <1>2 DEF IsBefore
<1>5. b[0] = {}
  BY <1>1, <1>2 DEF IsBefore
<1>6. \A n \in 1..N : b[n] = b[n - 1] \cup {j \in p.jobs : p.deps[j] \cap p.jobs \subseteq b[n - 1]}
  <2> SUFFICES ASSUME NEW n \in 1..N
               PROVE  b[n] = b[n - 1] \cup {j \in p.jobs : p.deps[j] \cap p.jobs \subseteq b[n - 1]}
    OBVIOUS
  <2>1. n \in 0..N /\ n # 0
    BY <1>1
  <2> QED BY <1>2, <2>1 DEF IsBefore
<1>7. b \in [0..N -> SUBSET p.jobs]
  <2> DEFINE Bad == {n \in 0..N : ~(b[n] \subseteq p.jobs)}
  <2>1. ASSUME Bad # {} PROVE FALSE
    <3>1. PICK n \in Bad : \A k \in Bad : n <= k
      <4>1. Bad \in SUBSET Nat
        BY <1>1
      <4> HIDE DEF Bad
      <4> QED BY <2>1, <4>1, LeastNumber
    <3>2. n # 0
      BY <1>5
    <3>3. n \in 1..N /\ n - 1 \in 0..N /\ n - 1 \notin Bad
      BY <1>1, <3>1, <3>2
    <3>4. b[n - 1] \subseteq p.jobs
      BY <3>3
    <3> QED BY <1>6, <3>1, <3>3, <3>4
  <2>2. b = [n \in 0..N |-> b[n]]
    BY <1>2 DEF IsBefore
  <2>3. \A n \in 0..N : b[n] \in SUBSET p.jobs
    BY <2>1
  <2> QED BY <2>2, <2>3
<1> QED BY <1>1, <1>3, <1>5, <1>6, <1>7 DEF N

(* b grows from nothing, by f.                                             *)
Growing(b, f, J, N) ==
    /\ N \in Nat /\ b \in [0..N -> SUBSET J] /\ b[0] = {}
    /\ \A n \in 1..N : b[n] = b[n - 1] \cup f[b[n - 1]]

Grown(b, N) ==
    /\ \A m, n \in 0..N : m <= n => b[m] \subseteq b[n]
    /\ \A n \in 0..N : b[n] = UNION {b[k] \ b[k - 1] : k \in 1..n}
    /\ \A m, n \in 1..N : m <= n /\ b[m] \ b[m - 1] = {} => b[n] \ b[n - 1] = {}

(* What more levels complete includes what fewer do; n levels complete the *)
(* jobs of the first n; and once a level is empty, every later one is.     *)
LEMMA LevelsGrow ==
  ASSUME NEW b, NEW f, NEW J, NEW N, Growing(b, f, J, N)
  PROVE  Grown(b, N)
<1> USE DEF Growing
<1>1. \A m, n \in 0..N : m <= n => b[m] \subseteq b[n]
  <2> SUFFICES ASSUME NEW m \in 0..N PROVE \A n \in 0..N : m <= n => b[m] \subseteq b[n]
    OBVIOUS
  <2> DEFINE Bad == {n \in 0..N : m <= n /\ ~(b[m] \subseteq b[n])}
  <2>1. ASSUME Bad # {} PROVE FALSE
    <3>1. PICK n \in Bad : \A k \in Bad : n <= k
      <4>1. Bad \in SUBSET Nat
        OBVIOUS
      <4> HIDE DEF Bad
      <4> QED BY <2>1, <4>1, LeastNumber
    <3>2. n # m
      BY <3>1
    <3>3. n \in 1..N /\ n - 1 \in 0..N /\ m <= n - 1 /\ n - 1 \notin Bad
      BY <3>1, <3>2
    <3>4. b[m] \subseteq b[n - 1]
      BY <3>3
    <3> QED BY <3>1, <3>3, <3>4
  <2> QED BY <2>1
<1>2. \A n \in 0..N : b[n] = UNION {b[k] \ b[k - 1] : k \in 1..n}
  <2> DEFINE U(n) == UNION {b[k] \ b[k - 1] : k \in 1..n}
             Bad == {n \in 0..N : b[n] # U(n)}
  <2>1. ASSUME Bad # {} PROVE FALSE
    <3>1. PICK n \in Bad : \A k \in Bad : n <= k
      <4>1. Bad \in SUBSET Nat
        OBVIOUS
      <4> HIDE DEF Bad
      <4> QED BY <2>1, <4>1, LeastNumber
    <3>2. CASE n = 0
      <4>1. 1..0 = {}
        OBVIOUS
      <4>2. U(0) = {}
        BY <4>1
      <4> QED BY <3>1, <3>2, <4>2
    <3>3. CASE n # 0
      <4>1. n \in 1..N /\ n - 1 \in 0..N /\ n - 1 \notin Bad
        BY <3>1, <3>3
      <4>2. b[n - 1] = U(n - 1)
        BY <4>1
      <4>3. 1..n = (1..(n - 1)) \cup {n}
        BY <4>1
      <4>4. U(n) = U(n - 1) \cup (b[n] \ b[n - 1])
        <5> DEFINE d(k) == b[k] \ b[k - 1]
        <5>1. U(n) = UNION {d(k) : k \in 1..n} /\ U(n - 1) = UNION {d(k) : k \in 1..(n - 1)}
          OBVIOUS
        <5> HIDE DEF d
        <5>2. UNION {d(k) : k \in 1..n} = (UNION {d(k) : k \in 1..(n - 1)}) \cup d(n)
          <6> QED BY <4>3
        <5> QED BY <5>1, <5>2 DEF d
      <4>5. b[n - 1] \subseteq b[n]
        BY <1>1, <4>1
      <4>6. b[n] = U(n)
        <5> HIDE DEF U
        <5> QED BY <4>2, <4>4, <4>5
      <4> QED BY <3>1, <4>6
    <3> QED BY <3>2, <3>3
  <2> QED BY <2>1
<1>3. \A m, n \in 1..N : m <= n /\ b[m] \ b[m - 1] = {} => b[n] \ b[n - 1] = {}
  <2> SUFFICES ASSUME NEW m \in 1..N, b[m] \ b[m - 1] = {}
               PROVE  \A n \in 1..N : m <= n => b[n] \ b[n - 1] = {}
    OBVIOUS
  <2> DEFINE Bad == {n \in 1..N : m <= n /\ b[n] \ b[n - 1] # {}}
  <2>1. ASSUME Bad # {} PROVE FALSE
    <3>1. PICK n \in Bad : \A k \in Bad : n <= k
      <4>1. Bad \in SUBSET Nat
        OBVIOUS
      <4> HIDE DEF Bad
      <4> QED BY <2>1, <4>1, LeastNumber
    <3>2. n # m
      BY <3>1
    <3>3. n - 1 \in 1..N /\ m <= n - 1 /\ n - 1 \notin Bad
      BY <3>1, <3>2
    <3>4. b[n - 1] \ b[(n - 1) - 1] = {}
      BY <3>3
    <3>5. b[n - 1] = b[(n - 1) - 1] \cup f[b[(n - 1) - 1]]
      BY <3>3
    <3>6. b[n - 1] = b[(n - 1) - 1]
      BY <3>4, <3>5
    <3>7. b[n] = b[n - 1] \cup f[b[n - 1]]
      BY <3>1
    <3>8. b[n] = b[n - 1]
      BY <3>5, <3>6, <3>7
    <3> QED BY <3>1, <3>8
  <2> QED BY <2>1
<1> QED BY <1>1, <1>2, <1>3 DEF Grown

(* The levels of a plan that passes: all its jobs, in levels that are not  *)
(* empty and share none, each after what it depends on.                    *)
LEMMA LevelsOfPlan ==
  ASSUME NEW p, IsPlan(p), ValidatePlan(p, MaxTokens)
  PROVE  /\ TopologicalLevels(p) \in Seq(SUBSET p.jobs) /\ TopologicalLevels(p) # <<>>
         /\ Layered(TopologicalLevels(p)) /\ JobsOf(TopologicalLevels(p)) = p.jobs
         /\ Head(TopologicalLevels(p)) = {j \in p.jobs : p.deps[j] = {}}
         /\ LevelsRespect(p, TopologicalLevels(p))
<1> DEFINE N == Cardinality(p.jobs)
           L == TopologicalLevels(p)
           free(s) == {j \in p.jobs : p.deps[j] \cap p.jobs \subseteq s}
<1>1. N \in Nat
  BY FS_CardinalityType DEF IsPlan
<1>2. PICK b : /\ b \in [0..N -> SUBSET p.jobs]
               /\ b[0] = {}
               /\ \A n \in 1..N : b[n] = b[n - 1] \cup free(b[n - 1]) /\ Level(p)[n] = b[n] \ b[n - 1]
               /\ DOMAIN Level(p) = 1..N
  BY LevelIs
<1>3. /\ p.jobs # {} /\ Acyclic(p)
      /\ \A j \in p.jobs : p.deps[j] \subseteq p.jobs
  BY DEF ValidatePlan
<1> HIDE DEF N, L
<1>4. /\ \A m, n \in 0..N : m <= n => b[m] \subseteq b[n]
      /\ \A n \in 0..N : b[n] = UNION {b[k] \ b[k - 1] : k \in 1..n}
      /\ \A m, n \in 1..N : m <= n /\ b[m] \ b[m - 1] = {} => b[n] \ b[n - 1] = {}
  <2> DEFINE f == [s \in SUBSET p.jobs |-> free(s)]
  <2>1. \A n \in 1..N : b[n] = b[n - 1] \cup f[b[n - 1]]
    <3>1. \A n \in 1..N : b[n - 1] \in SUBSET p.jobs
      BY <1>1, <1>2
    <3>2. \A s \in SUBSET p.jobs : f[s] = free(s)
      OBVIOUS
    <3> HIDE DEF f, free
    <3> QED BY <1>2, <3>1, <3>2
  <2> HIDE DEF f, free
  <2>2. Growing(b, f, p.jobs, N)
    BY <1>1, <1>2, <2>1 DEF Growing
  <2> QED BY <2>2, LevelsGrow DEF Grown
<1> DEFINE lev(n) == b[n] \ b[n - 1]
<1>5. \A n \in 1..N : Level(p)[n] = lev(n)
  BY <1>2
<1>6. UNION {lev(n) : n \in 1..N} = p.jobs
  <2>1. UNION {Level(p)[n] : n \in DOMAIN Level(p)} = p.jobs
    BY <1>3 DEF Acyclic
  <2> HIDE DEF lev
  <2> QED BY <1>2, <1>5, <2>1
<1> DEFINE isLast(n) == lev(n) # {} /\ \A m \in 1..N : m > n => lev(m) = {}
<1>7. \E n \in 1..N : isLast(n)
  <2> DEFINE S == {d \in 0..N : \E n \in 1..N : n = N - d /\ lev(n) # {}}
  <2>1. PICK n0 \in 1..N : lev(n0) # {}
    BY <1>3, <1>6
  <2>2. N - n0 \in S
    <3>1. N - n0 \in 0..N /\ n0 = N - (N - n0)
      BY <1>1
    <3> HIDE DEF lev
    <3> QED BY <2>1, <3>1
  <2>3. PICK d \in S : \A e \in S : d <= e
    <3>1. S \in SUBSET Nat
      BY <1>1
    <3> HIDE DEF S
    <3> QED BY <2>2, <3>1, LeastNumber
  <2>4. PICK n \in 1..N : n = N - d /\ lev(n) # {}
    BY <2>3
  <2>5. ASSUME NEW m \in 1..N, m > n, lev(m) # {} PROVE FALSE
    <3>1. N - m \in 0..N /\ m = N - (N - m)
      BY <1>1
    <3>2. N - m \in S
      <4> HIDE DEF lev
      <4> QED BY <2>5, <3>1
    <3>3. d <= N - m
      BY <2>3, <3>2
    <3> QED BY <1>1, <2>3, <2>4, <2>5, <3>3
  <2> HIDE DEF lev
  <2> QED BY <2>4, <2>5
<1> DEFINE last == CHOOSE n \in DOMAIN Level(p) :
                     Level(p)[n] # {} /\ \A m \in DOMAIN Level(p) : m > n => Level(p)[m] = {}
<1>8. last \in 1..N /\ isLast(last)
  <2> HIDE DEF lev
  <2>1. \E n \in DOMAIN Level(p) : Level(p)[n] # {} /\ \A m \in DOMAIN Level(p) : m > n => Level(p)[m] = {}
    BY <1>2, <1>5, <1>7
  <2>2. last \in DOMAIN Level(p) /\ Level(p)[last] # {} /\ \A m \in DOMAIN Level(p) : m > last => Level(p)[m] = {}
    BY <2>1
  <2> HIDE DEF last
  <2> QED BY <1>2, <1>5, <2>2
<1>9. L = [n \in 1..last |-> Level(p)[n]]
  BY DEF L, TopologicalLevels
<1> HIDE DEF last
<1>10. L = [n \in 1..last |-> lev(n)] /\ last \in Nat \ {0} /\ last <= N
  <2> HIDE DEF lev
  <2> QED BY <1>1, <1>5, <1>8, <1>9
<1>11. \A n \in 1..last : L[n] = b[n] \ b[n - 1] /\ n \in 1..N /\ n - 1 \in 0..N /\ n \in 0..N
  BY <1>1, <1>10
<1>12. \A n \in 1..last : L[n] # {}
  <2> SUFFICES ASSUME NEW n \in 1..last, b[n] \ b[n - 1] = {} PROVE FALSE
    BY <1>11
  <2>1. n \in 1..N /\ last \in 1..N /\ n <= last
    BY <1>1, <1>10
  <2>2. b[last] \ b[last - 1] = {}
    BY <1>4, <2>1
  <2> QED BY <1>8, <2>2
<1>13. \A m, n \in 1..last : m < n => L[m] \cap L[n] = {}
  <2> SUFFICES ASSUME NEW m \in 1..last, NEW n \in 1..last, m < n PROVE L[m] \cap L[n] = {}
    OBVIOUS
  <2>1. m \in 0..N /\ n - 1 \in 0..N /\ m <= n - 1
    BY <1>11
  <2>2. b[m] \subseteq b[n - 1]
    BY <1>4, <2>1
  <2> QED BY <1>11, <2>2
<1>14. DOMAIN L = 1..last
  BY <1>10
<1>15. Layered(L)
  <2>1. \A m, n \in 1..last : m # n => L[m] \cap L[n] = {}
    <3> SUFFICES ASSUME NEW m \in 1..last, NEW n \in 1..last, m # n PROVE L[m] \cap L[n] = {}
      OBVIOUS
    <3>1. m < n \/ n < m
      OBVIOUS
    <3> QED BY <1>13, <3>1
  <2> QED BY <1>12, <1>14, <2>1 DEF Layered
<1>16. JobsOf(L) = p.jobs
  <2>1. \A n \in 1..N : n \notin 1..last => lev(n) = {}
    <3> HIDE DEF lev
    <3> SUFFICES ASSUME NEW n \in 1..N, n \notin 1..last PROVE lev(n) = {}
      OBVIOUS
    <3>1. n > last
      BY <1>10
    <3> QED BY <1>8, <3>1
  <2>2. \A n \in 1..last : L[n] = lev(n) /\ n \in 1..N
    BY <1>11
  <2> HIDE DEF lev
  <2>3. JobsOf(L) \subseteq p.jobs
    BY <1>6, <1>14, <2>2 DEF JobsOf
  <2>4. p.jobs \subseteq JobsOf(L)
    <3> SUFFICES ASSUME NEW j \in p.jobs PROVE j \in JobsOf(L)
      OBVIOUS
    <3>1. PICK n \in 1..N : j \in lev(n)
      BY <1>6
    <3>2. n \in 1..last
      BY <2>1, <3>1
    <3> QED BY <1>14, <2>2, <3>1, <3>2 DEF JobsOf
  <2> QED BY <2>3, <2>4
<1>17. \A n \in 1..last : L[n] \in SUBSET p.jobs
  BY <1>2, <1>11
<1>18. L \in Seq(SUBSET p.jobs) /\ L # <<>> /\ Head(L) = L[1]
  <2>1. L = [n \in 1..last |-> L[n]]
    BY <1>10
  <2>2. L \in [1..last -> SUBSET p.jobs]
    BY <1>17, <2>1
  <2>3. L \in Seq(SUBSET p.jobs)
    BY <1>10, <2>2
  <2>4. Len(L) = last
    BY <1>10, <1>14, <2>3
  <2> QED BY <1>10, <2>3, <2>4
<1>19. Head(L) = {j \in p.jobs : p.deps[j] = {}}
  <2>1. 1 \in 1..last /\ 1 \in 1..N
    BY <1>1, <1>10
  <2>2. L[1] = b[1] \ b[0]
    BY <1>11, <2>1
  <2>3. b[1] = b[0] \cup free(b[0])
    BY <1>2, <2>1
  <2>4. L[1] = free({})
    BY <1>2, <2>2, <2>3
  <2> QED BY <1>3, <1>18, <2>4
<1>20. LevelsRespect(p, L)
  <2>1. ASSUME NEW j \in p.jobs PROVE Cardinality({n \in DOMAIN L : j \in L[n]}) = 1
    <3>1. PICK n \in DOMAIN L : j \in L[n]
      BY <1>16 DEF JobsOf
    <3>2. {m \in DOMAIN L : j \in L[m]} = {n}
      BY <1>15, <3>1 DEF Layered
    <3> QED BY <3>2, FS_Singleton
  <2>2. ASSUME NEW n \in 1..last, NEW j \in L[n]
        PROVE  p.deps[j] \subseteq UNION {L[m] : m \in 1..(n - 1)}
    <3>1. n \in 1..N /\ n - 1 \in 0..N
      BY <1>11
    <3>2. j \in free(b[n - 1])
      <4>1. b[n] = b[n - 1] \cup free(b[n - 1])
        BY <1>2, <3>1
      <4> HIDE DEF free
      <4> QED BY <1>11, <2>2, <4>1
    <3>3. p.deps[j] \subseteq b[n - 1]
      BY <1>3, <3>2
    <3>4. b[n - 1] = UNION {b[k] \ b[k - 1] : k \in 1..(n - 1)}
      BY <1>4, <3>1
    <3>5. \A k \in 1..(n - 1) : L[k] = b[k] \ b[k - 1]
      <4>1. \A k \in 1..(n - 1) : k \in 1..last
        BY <1>10
      <4> QED BY <1>11, <4>1
    <3>6. UNION {L[k] : k \in 1..(n - 1)} = UNION {b[k] \ b[k - 1] : k \in 1..(n - 1)}
      BY <3>5
    <3> QED BY <3>3, <3>4, <3>6
  <2> QED BY <1>14, <2>1, <2>2 DEF LevelsRespect
<1> QED BY <1>15, <1>16, <1>18, <1>19, <1>20 DEF L

-----------------------------------------------------------------------------
(* Effects                                                                 *)

(* The rest of the levels, once the first is done.                         *)
LEMMA TailLayered ==
  ASSUME NEW J, NEW s \in Seq(SUBSET J), s # <<>>, Layered(s)
  PROVE  /\ Tail(s) \in Seq(SUBSET J) /\ Layered(Tail(s))
         /\ JobsOf(Tail(s)) = JobsOf(s) \ Head(s)
         /\ Head(s) \subseteq JobsOf(s) /\ Head(s) # {} /\ Head(s) \in SUBSET J
         /\ JobsOf(s) \in SUBSET J
<1>1. Len(s) \in Nat \ {0} /\ DOMAIN s = 1..Len(s) /\ Head(s) = s[1] /\ 1 \in DOMAIN s
  OBVIOUS
<1>2. Tail(s) \in Seq(SUBSET J) /\ DOMAIN Tail(s) = 1..(Len(s) - 1)
  BY <1>1
<1>3. \A n \in DOMAIN Tail(s) : Tail(s)[n] = s[n + 1] /\ n + 1 \in DOMAIN s /\ n + 1 # 1
  BY <1>1, <1>2
<1>4. \A n \in DOMAIN s : n # 1 => n - 1 \in DOMAIN Tail(s) /\ Tail(s)[n - 1] = s[n]
  BY <1>1, <1>2
<1>5. Layered(Tail(s))
  <2>1. \A n \in DOMAIN Tail(s) : n \in Nat
    BY <1>2
  <2>2. \A n \in DOMAIN Tail(s) : Tail(s)[n] # {}
    BY <1>3 DEF Layered
  <2>3. ASSUME NEW m \in DOMAIN Tail(s), NEW n \in DOMAIN Tail(s), m # n
        PROVE  Tail(s)[m] \cap Tail(s)[n] = {}
    <3>1. m + 1 # n + 1
      BY <2>1, <2>3
    <3> QED BY <1>3, <3>1 DEF Layered
  <2> QED BY <2>2, <2>3 DEF Layered
<1>6. \A n \in DOMAIN s : s[n] \in SUBSET J
  OBVIOUS
<1>7. JobsOf(Tail(s)) = JobsOf(s) \ Head(s)
  <2>1. ASSUME NEW n \in DOMAIN Tail(s), NEW j \in Tail(s)[n] PROVE j \in JobsOf(s) \ Head(s)
    BY <1>1, <1>3, <2>1 DEF JobsOf, Layered
  <2>2. ASSUME NEW n \in DOMAIN s, NEW j \in s[n], j \notin Head(s) PROVE j \in JobsOf(Tail(s))
    BY <1>1, <1>4, <2>2 DEF JobsOf
  <2> QED BY <2>1, <2>2 DEF JobsOf
<1> QED BY <1>1, <1>2, <1>5, <1>6, <1>7 DEF Layered, JobsOf

(* A result is counted once more for the jobs it is of.                    *)
LEMMA RecordEffect ==
  ASSUME NEW J, NEW res \in [J -> JobResults], NEW S \in SUBSET J, NEW st \in JobStatuses
  PROVE  /\ Record(res, S, st) \in [J -> JobResults]
         /\ \A j \in J : Record(res, S, st)[j] = IF j \in S THEN [n |-> res[j].n + 1, st |-> st] ELSE res[j]
         /\ \A j \in S : Record(res, S, st)[j].n = res[j].n + 1 /\ Record(res, S, st)[j].st = st
<1>1. \A j \in J : res[j].n + 1 \in Nat
  BY DEF JobResults
<1>2. \A j \in J : [n |-> res[j].n + 1, st |-> st] \in JobResults
  BY <1>1 DEF JobResults
<1> QED BY <1>2 DEF Record

(* A worker moves.                                                         *)
LEMMA StepEffect ==
  ASSUME NEW R, wk \in [Workers -> R], NEW w \in Workers, NEW v \in R, Step(w, v)
  PROVE  /\ wk' \in [Workers -> R] /\ wk'[w] = v
         /\ \A u \in Workers : u # w => wk'[u] = wk[u]
BY DEF Step

-----------------------------------------------------------------------------
(* The beginning                                                           *)

(* Before anything is validated.                                           *)
LEMMA BatchBegins == BatchInit => BatchInv
<1> SUFFICES ASSUME BatchInit PROVE BatchInv
  OBVIOUS
<1>1. PICK h \in BOOLEAN, par \in ParallelSet :
        \/ \E p \in Plans : bPlan = [plan |-> p, panel |-> NoSpec, halt |-> h, par |-> effectiveParallel(par)]
        \/ \E g \in Panels : bPlan = [plan |-> g.plan, panel |-> g.spec, halt |-> h, par |-> effectiveParallel(par)]
  BY DEF BatchInit
<1>2. effectiveParallel(par) \in Workers
  BY BatchAssumption DEF effectiveParallel, Workers
<1>3. Asked
  <2>1. CASE \E p \in Plans : bPlan = [plan |-> p, panel |-> NoSpec, halt |-> h, par |-> effectiveParallel(par)]
    <3>1. NoSpec.minSuccess = 0 /\ NoSpec.minUnique = 0
      BY DEF NoSpec
    <3> QED BY <1>2, <2>1, <3>1, BatchAssumption DEF Asked
  <2>2. CASE \E g \in Panels : bPlan = [plan |-> g.plan, panel |-> g.spec, halt |-> h, par |-> effectiveParallel(par)]
    BY <1>2, <2>2, BatchAssumption DEF Asked
  <2> QED BY <1>1, <2>1, <2>2
<1>4. BatchTypes
  <2>1. Idle \in WorkerRecs(bPlan.plan)
    BY DEF Idle, WorkerRecs, JobStatuses
  <2>2. NoRes(bPlan.plan) \in [bPlan.plan.jobs -> JobResults]
    BY DEF NoRes, JobResults, JobStatuses
  <2>3. NoPanel \in PanelRecs(bPlan.plan)
    BY DEF NoPanel, PanelRecs
  <2> QED BY <2>1, <2>2, <2>3 DEF BatchInit, BatchTypes
<1>5. \A j \in bPlan.plan.jobs : bRes[j] = [n |-> 0, st |-> "none"]
  BY DEF BatchInit, NoRes
<1>6. Accounted
  BY <1>5 DEF BatchInit, Accounted
<1>7. \A w \in Workers : wk[w].pc = "off"
  BY DEF BatchInit, Idle
<1>8. Owned
  BY <1>7 DEF BatchInit, Owned, Busy
<1>9. Halting
  BY <1>3, <1>7 DEF BatchInit, Halting, Asked, Workers
<1>10. PanelInv
  BY DEF BatchInit, PanelInv, NoPanel
<1> QED BY <1>3, <1>4, <1>6, <1>8, <1>9, <1>10 DEF BatchInv

(* The plan is refused, or its levels are what LevelsOfPlan says.          *)
LEMMA ValidateKeeps ==
  ASSUME BatchInv, Validate
  PROVE  BatchInv'
<1> USE DEF BatchInv
<1>1. Asked'
  BY DEF Validate, Asked
<1>2. bPc = "validate" /\ UNCHANGED <<bPlan, bQueue, wk, bHalt, bRes, bLate, pn>>
  BY DEF Validate
<1>3. \A j \in bPlan.plan.jobs : bRes[j] = [n |-> 0, st |-> "none"]
  BY <1>2 DEF Accounted
<1> DEFINE p == bPlan.plan
<1>4. CASE bPc' = "refused" /\ UNCHANGED bLevels
  <2>1. BatchTypes'
    BY <1>2, <1>4 DEF BatchTypes
  <2>2. Accounted'
    BY <1>2, <1>3, <1>4 DEF Accounted
  <2>3. Owned'
    BY <1>2, <1>4 DEF Owned, Busy
  <2>4. Halting'
    BY <1>2, <1>4 DEF Halting
  <2>5. PanelInv'
    BY <1>2, <1>4 DEF PanelInv
  <2> QED BY <1>1, <2>1, <2>2, <2>3, <2>4, <2>5
<1>5. CASE ~(bPc' = "refused" /\ UNCHANGED bLevels)
  <2>1. /\ ValidatePlan(p, MaxTokens) /\ (IsPanel => validatePanelSpec(bPlan.panel, p))
        /\ bLevels' = TopologicalLevels(p) /\ bPc' = IF IsPanel THEN "assign" ELSE "level"
    BY <1>5 DEF Validate
  <2>2. /\ bLevels' \in Seq(SUBSET p.jobs) /\ bLevels' # <<>> /\ Layered(bLevels') /\ JobsOf(bLevels') = p.jobs
        /\ Head(bLevels') = {j \in p.jobs : p.deps[j] = {}}
        /\ LevelsRespect(p, bLevels')
    BY <2>1, LevelsOfPlan DEF Asked
  <2>3. BatchTypes'
    BY <1>2, <2>1, <2>2 DEF BatchTypes
  <2>4. Accounted'
    <3>1. bRes = NoRes(p)
      BY <1>3 DEF NoRes, BatchTypes
    <3>2. Unsettled' = p.jobs
      BY <2>1, <2>2 DEF Unsettled
    <3> QED BY <1>2, <1>3, <2>1, <2>2, <3>1, <3>2 DEF Accounted
  <2>5. Owned'
    BY <1>2, <2>1 DEF Owned, Busy
  <2>6. Halting'
    BY <1>2, <2>1 DEF Halting
  <2>7. PanelInv'
    <3>1. CASE IsPanel
      <4>1. bPlan.panel.comparison \in p.jobs
        BY <2>1, <3>1 DEF validatePanelSpec
      <4>2. bRes[bPlan.panel.comparison].st \notin Outcomes
        BY <1>3, <4>1 DEF Outcomes
      <4>3. pn.kept = {}
        BY <1>2 DEF PanelInv, NoPanel
      <4> QED BY <1>2, <2>1, <2>2, <3>1, <4>1, <4>2, <4>3 DEF PanelInv, IsPanel
    <3>2. CASE ~IsPanel
      BY <1>2, <2>1, <3>2 DEF PanelInv, IsPanel
    <3> QED BY <3>1, <3>2
  <2> QED BY <1>1, <2>3, <2>4, <2>5, <2>6, <2>7
<1> QED BY <1>4, <1>5

-----------------------------------------------------------------------------
(* RunBatchOrdered                                                         *)

(* Once the members are through, what happens in later levels leaves the   *)
(* panel's books alone.                                                    *)
LEMMA PanelStays ==
  ASSUME BatchInv, bPc \in {"level", "run"}, bPc' \in {"level", "run", "done", "failed"},
         UNCHANGED <<bPlan, pn>>, JobsOf(bLevels') \subseteq JobsOf(bLevels),
         \A j \in bPlan.plan.jobs \ JobsOf(bLevels) : bRes'[j] = bRes[j]
  PROVE  PanelInv'
<1>1. CASE ~IsPanel
  BY <1>1 DEF PanelInv, IsPanel
<1>2. CASE IsPanel
  <2>1. /\ validatePanelSpec(bPlan.panel, bPlan.plan)
        /\ bPlan.panel.members \cap JobsOf(bLevels) = {} /\ Quorate
    BY <1>2 DEF BatchInv, PanelInv
  <2>2. bPlan.panel.members \subseteq bPlan.plan.jobs
    BY <2>1 DEF validatePanelSpec
  <2>3. Approved' = Approved
    BY <2>1, <2>2 DEF Approved
  <2>4. OnlyMembersFirst' <=> OnlyMembersFirst
    BY DEF OnlyMembersFirst
  <2>5. Quorate'
    BY <2>1, <2>3, <2>4 DEF Quorate
  <2>6. PanelSound'
    BY <2>5 DEF Quorate, PanelSound
  <2>7. bPlan.panel.members \cap JobsOf(bLevels') = {}
    BY <2>1
  <2> QED BY <1>2, <2>1, <2>5, <2>6, <2>7 DEF PanelInv, IsPanel
<1> QED BY <1>1, <1>2

(* A level of a halted batch is recorded as skipped.                       *)
LEMMA SkipKeeps ==
  ASSUME BatchInv, SkipLevel
  PROVE  BatchInv'
<1> USE DEF BatchInv
<1>1. /\ bPc = "level" /\ bPc' = "level" /\ bLevels # <<>> /\ bHalt.all
      /\ bRes' = Record(bRes, Head(bLevels), "SKIPPED") /\ bLevels' = Tail(bLevels)
      /\ UNCHANGED <<bPlan, bQueue, wk, bHalt, bLate, pn>>
  BY DEF SkipLevel
<1> DEFINE J == bPlan.plan.jobs
<1>2. bLevels \in Seq(SUBSET J) /\ Layered(bLevels) /\ bRes \in [J -> JobResults]
  BY <1>1 DEF BatchTypes, Accounted
<1>3. /\ Tail(bLevels) \in Seq(SUBSET J) /\ Layered(Tail(bLevels))
      /\ JobsOf(Tail(bLevels)) = JobsOf(bLevels) \ Head(bLevels)
      /\ Head(bLevels) \subseteq JobsOf(bLevels) /\ Head(bLevels) # {} /\ Head(bLevels) \in SUBSET J
  BY <1>1, <1>2, TailLayered
<1>4. /\ bRes' \in [J -> JobResults]
      /\ \A j \in J : bRes'[j] = IF j \in Head(bLevels) THEN [n |-> bRes[j].n + 1, st |-> "SKIPPED"] ELSE bRes[j]
  BY <1>1, <1>2, <1>3, RecordEffect DEF JobStatuses
<1>5. Asked' /\ BatchTypes'
  BY <1>1, <1>3, <1>4 DEF Asked, BatchTypes
<1>6. Accounted'
  <2>1. \A j \in J : bRes[j].n = IF j \in JobsOf(bLevels) THEN 0 ELSE 1
    BY <1>1 DEF Accounted, Unsettled
  <2>2. \A j \in J : bRes'[j].n = IF j \in JobsOf(bLevels') THEN 0 ELSE 1
    <3> SUFFICES ASSUME NEW j \in J PROVE bRes'[j].n = IF j \in JobsOf(bLevels') THEN 0 ELSE 1
      OBVIOUS
    <3>1. CASE j \in Head(bLevels)
      <4>1. bRes[j].n = 0 /\ bRes'[j] = [n |-> bRes[j].n + 1, st |-> "SKIPPED"]
        BY <1>3, <1>4, <2>1, <3>1
      <4>2. bRes'[j].n = 1
        BY <4>1
      <4> QED BY <1>1, <1>3, <3>1, <4>2
    <3>2. CASE j \notin Head(bLevels)
      BY <1>1, <1>3, <1>4, <2>1, <3>2
    <3> QED BY <3>1, <3>2
  <2>3. \E j \in J : bRes'[j].n # 0
    BY <1>1, <1>3, <2>2
  <2> QED BY <1>1, <1>3, <2>2, <2>3 DEF Accounted, Unsettled
<1>7. Owned'
  BY <1>1 DEF Owned, Busy
<1>8. Halting'
  BY <1>1 DEF Halting
<1>9. PanelInv'
  BY <1>1, <1>3, <1>4, PanelStays
<1> QED BY <1>5, <1>6, <1>7, <1>8, <1>9

(* No level is left.                                                       *)
LEMMA OverKeeps ==
  ASSUME BatchInv, BatchOver
  PROVE  BatchInv'
<1> USE DEF BatchInv
<1>1. /\ bPc = "level" /\ bPc' = "done" /\ bLevels = <<>>
      /\ UNCHANGED <<bPlan, bLevels, bQueue, wk, bHalt, bRes, bLate, pn>>
  BY DEF BatchOver
<1>2. Asked' /\ BatchTypes'
  BY <1>1 DEF Asked, BatchTypes
<1>3. Accounted'
  <2>1. JobsOf(bLevels) = {}
    BY <1>1 DEF JobsOf
  <2> QED BY <1>1, <2>1 DEF Accounted, Unsettled
<1>4. Owned'
  BY <1>1 DEF Owned, Busy
<1>5. Halting'
  BY <1>1 DEF Halting
<1>6. PanelInv'
  BY <1>1, PanelStays
<1> QED BY <1>2, <1>3, <1>4, <1>5, <1>6

(* A level starts, or what it needs first fails.                           *)
LEMMA OpenKeeps ==
  ASSUME BatchInv, OpenLevel
  PROVE  BatchInv'
<1> USE DEF BatchInv
<1>1. /\ bPc = "level" /\ bLevels # <<>> /\ ~bHalt.all
      /\ UNCHANGED <<bPlan, bLevels, bRes, bLate, pn>>
  BY DEF OpenLevel
<1> DEFINE J == bPlan.plan.jobs
<1>2. bLevels \in Seq(SUBSET J) /\ Layered(bLevels)
  BY <1>1 DEF BatchTypes, Accounted
<1>3. Head(bLevels) \subseteq JobsOf(bLevels) /\ Head(bLevels) \in SUBSET J
  BY <1>1, <1>2, TailLayered
<1>4. bLate = 0
  BY <1>1 DEF Halting
<1>5. Asked'
  BY <1>1 DEF Asked
<1>6. CASE bPc' = "failed" /\ UNCHANGED <<bQueue, wk, bHalt>>
  <2>1. BatchTypes'
    BY <1>1, <1>6 DEF BatchTypes
  <2>2. Accounted'
    BY <1>1, <1>6 DEF Accounted
  <2>3. Owned'
    BY <1>1, <1>6 DEF Owned, Busy
  <2>4. Halting'
    BY <1>1, <1>6 DEF Halting
  <2>5. PanelInv'
    BY <1>1, <1>6, PanelStays
  <2> QED BY <1>5, <2>1, <2>2, <2>3, <2>4, <2>5
<1>7. CASE ~(bPc' = "failed" /\ UNCHANGED <<bQueue, wk, bHalt>>)
  <2>1. /\ bQueue' = Head(bLevels) /\ bPc' = "run"
        /\ wk' = [w \in Workers |-> IF w <= bPlan.par THEN [Idle EXCEPT !.pc = "recv"] ELSE Idle]
        /\ bHalt' = [bHalt EXCEPT !.level = FALSE]
    BY <1>7 DEF OpenLevel
  <2>2. [Idle EXCEPT !.pc = "recv"] \in WorkerRecs(bPlan.plan) /\ [Idle EXCEPT !.pc = "recv"].pc = "recv"
    BY DEF Idle, WorkerRecs, JobStatuses
  <2>3. Idle \in WorkerRecs(bPlan.plan) /\ Idle.pc = "off"
    BY DEF Idle, WorkerRecs, JobStatuses
  <2>4. wk' \in [Workers -> WorkerRecs(bPlan.plan)]
    BY <2>1, <2>2, <2>3
  <2>5. \A w \in Workers : wk'[w].pc = IF w <= bPlan.par THEN "recv" ELSE "off"
    BY <2>1, <2>2, <2>3
  <2>6. bHalt' \in [level : BOOLEAN, all : BOOLEAN] /\ bHalt'.level = FALSE /\ bHalt'.all = bHalt.all
    BY <2>1 DEF BatchTypes
  <2>7. BatchTypes'
    BY <1>1, <1>3, <2>1, <2>4, <2>6 DEF BatchTypes
  <2>8. \A w \in Workers : ~Busy(w)'
    BY <2>5 DEF Busy
  <2>9. Accounted'
    <3>1. Held' = {}
      BY <2>8 DEF Held
    <3>2. Unsettled' = JobsOf(bLevels)
      BY <1>1, <1>3, <2>1, <3>1 DEF Unsettled
    <3>3. Unsettled = JobsOf(bLevels)
      BY <1>1 DEF Unsettled
    <3> QED BY <1>1, <2>1, <3>2, <3>3 DEF Accounted
  <2>10. Owned'
    BY <1>1, <2>1, <2>8 DEF Owned
  <2>11. Halting'
    <3>1. \A w \in Workers : w > bPlan.par => wk'[w].pc = "off"
      BY <2>5 DEF Asked, Workers
    <3>2. 0 <= bPlan.par - 1
      BY DEF Asked, Workers
    <3> QED BY <1>1, <1>4, <2>1, <2>6, <3>1, <3>2 DEF Halting
  <2>12. PanelInv'
    BY <1>1, <2>1, PanelStays
  <2> QED BY <1>5, <2>7, <2>9, <2>10, <2>11, <2>12
<1> QED BY <1>6, <1>7

(* The level is over: nobody holds a job, so each of its jobs has a result.*)
LEMMA CloseKeeps ==
  ASSUME BatchInv, CloseLevel
  PROVE  BatchInv'
<1> USE DEF BatchInv
<1>1. /\ bPc = "run" /\ bQueue = {} /\ \A w \in Workers : wk[w].pc \in {"off", "gone"}
      /\ wk' = [w \in Workers |-> Idle]
      /\ UNCHANGED <<bPlan, bQueue, bLate, pn>>
  BY DEF CloseLevel
<1> DEFINE J == bPlan.plan.jobs
<1>2. bLevels \in Seq(SUBSET J) /\ Layered(bLevels) /\ bRes \in [J -> JobResults] /\ bLevels # <<>>
  BY <1>1 DEF BatchTypes, Accounted
<1>3. /\ Tail(bLevels) \in Seq(SUBSET J) /\ Layered(Tail(bLevels))
      /\ JobsOf(Tail(bLevels)) = JobsOf(bLevels) \ Head(bLevels)
      /\ Head(bLevels) \subseteq JobsOf(bLevels) /\ Head(bLevels) # {} /\ Head(bLevels) \in SUBSET J
  BY <1>2, TailLayered
<1>4. Idle \in WorkerRecs(bPlan.plan) /\ Idle.pc = "off"
  BY DEF Idle, WorkerRecs, JobStatuses
<1>5. wk' \in [Workers -> WorkerRecs(bPlan.plan)] /\ \A w \in Workers : wk'[w].pc = "off" /\ ~Busy(w)'
  BY <1>1, <1>4 DEF Busy
<1>6. \A w \in Workers : ~Busy(w)
  BY <1>1 DEF Busy
<1>7. \A j \in J : bRes[j].n = IF j \in JobsOf(bLevels) \ Head(bLevels) THEN 0 ELSE 1
  <2>1. Held = {}
    BY <1>6 DEF Held
  <2>2. Unsettled = JobsOf(bLevels) \ Head(bLevels)
    BY <1>1, <2>1 DEF Unsettled
  <2> QED BY <1>1, <2>2 DEF Accounted
<1>8. Asked'
  BY <1>1 DEF Asked
<1>9. CASE /\ bPc' = "level" /\ bLevels' = Tail(bLevels) /\ UNCHANGED bRes
           /\ bHalt' = [bHalt EXCEPT !.all = bPlan.halt /\ \E j \in Head(bLevels) : bRes[j].st = "QUARANTINED"]
  <2> DEFINE seen == bPlan.halt /\ \E j \in Head(bLevels) : bRes[j].st = "QUARANTINED"
  <2>1. seen \in BOOLEAN
    OBVIOUS
  <2>2. bHalt' \in [level : BOOLEAN, all : BOOLEAN] /\ bHalt'.level = bHalt.level /\ (bHalt'.all <=> seen)
    <3>1. bHalt' = [bHalt EXCEPT !.all = seen] /\ bHalt \in [level : BOOLEAN, all : BOOLEAN]
      BY <1>9 DEF BatchTypes
    <3> HIDE DEF seen
    <3> QED BY <2>1, <3>1
  <2>3. BatchTypes'
    BY <1>1, <1>3, <1>5, <1>9, <2>2 DEF BatchTypes
  <2>4. Accounted'
    <3>1. \A j \in J : bRes'[j].n = IF j \in JobsOf(bLevels') THEN 0 ELSE 1
      BY <1>3, <1>7, <1>9
    <3>2. \E j \in J : bRes'[j].n # 0
      BY <1>3, <1>7, <1>9
    <3> QED BY <1>1, <1>3, <1>9, <3>1, <3>2 DEF Accounted, Unsettled
  <2>5. Owned'
    BY <1>5, <1>9 DEF Owned
  <2>6. Halting'
    <3>1. bHalt.level => bPlan.halt /\ QuarantineSeen
      BY <1>1 DEF Halting
    <3>2. QuarantineSeen => \E j \in Head(bLevels) : bRes[j].st = "QUARANTINED"
      BY <1>1 DEF QuarantineSeen
    <3>3. ~bHalt'.all => bLate = 0
      BY <1>1, <2>2, <3>1, <3>2 DEF Halting
    <3>4. ~bPlan.halt => ~bHalt'.all
      BY <2>2
    <3> QED BY <1>1, <1>5, <1>9, <2>2, <3>3, <3>4 DEF Halting
  <2>7. PanelInv'
    BY <1>1, <1>3, <1>9, PanelStays
  <2> QED BY <1>8, <2>3, <2>4, <2>5, <2>6, <2>7
<1>10. CASE /\ bPc' = "failed" /\ UNCHANGED <<bLevels, bHalt>>
            /\ bRes' = [j \in DOMAIN bRes |-> IF j \in Head(bLevels) THEN NoRes(bPlan.plan)[j] ELSE bRes[j]]
  <2>1. \A j \in J : bRes'[j] = IF j \in Head(bLevels) THEN [n |-> 0, st |-> "none"] ELSE bRes[j]
    BY <1>2, <1>10 DEF NoRes
  <2>2. [n |-> 0, st |-> "none"] \in JobResults
    BY DEF JobResults, JobStatuses
  <2>3. bRes' \in [J -> JobResults]
    <3>1. DOMAIN bRes' = J /\ bRes' = [j \in J |-> bRes'[j]]
      BY <1>2, <1>10
    <3>2. \A j \in J : bRes'[j] \in JobResults
      BY <1>2, <2>1, <2>2
    <3> QED BY <3>1, <3>2
  <2>4. BatchTypes'
    BY <1>1, <1>5, <1>10, <2>3 DEF BatchTypes
  <2>5. Accounted'
    BY <1>1, <1>10, <2>1 DEF Accounted
  <2>6. Owned'
    BY <1>5, <1>10 DEF Owned
  <2>7. Halting'
    BY <1>1, <1>5, <1>10 DEF Halting
  <2>8. PanelInv'
    BY <1>1, <1>3, <1>10, <2>1, PanelStays
  <2> QED BY <1>8, <2>4, <2>5, <2>6, <2>7, <2>8
<1> QED BY <1>9, <1>10 DEF CloseLevel

-----------------------------------------------------------------------------
(* RunPanel                                                                *)

(* A panel that passed: its members are jobs, and the comparison depends on*)
(* them, so it is not of the first level.                                  *)
LEMMA PanelFacts ==
  ASSUME Asked, validatePanelSpec(bPlan.panel, bPlan.plan)
  PROVE  /\ bPlan.panel.members \subseteq bPlan.plan.jobs /\ IsFiniteSet(bPlan.panel.members)
         /\ Cardinality(bPlan.panel.members) \in Nat /\ bPlan.panel.members # {}
         /\ EffectiveMinSuccess(bPlan.panel) \in Nat /\ EffectiveMinUnique(bPlan.panel) \in Nat
         /\ bPlan.panel.comparison \in bPlan.plan.jobs
         /\ bPlan.plan.deps[bPlan.panel.comparison] # {}
         /\ \A m \in bPlan.panel.members : bPlan.plan.produces[m] # {}
<1>1. /\ bPlan.panel.members \subseteq bPlan.plan.jobs /\ Cardinality(bPlan.panel.members) >= 2
      /\ bPlan.panel.members \subseteq bPlan.plan.deps[bPlan.panel.comparison]
      /\ bPlan.panel.comparison \in bPlan.plan.jobs
      /\ \A m \in bPlan.panel.members : bPlan.plan.produces[m] # {}
  BY DEF validatePanelSpec
<1>2. IsFiniteSet(bPlan.panel.members)
  BY <1>1, FS_Subset DEF Asked, IsPlan
<1>3. Cardinality(bPlan.panel.members) \in Nat
  BY <1>2, FS_CardinalityType
<1>4. bPlan.panel.members # {}
  BY <1>1, FS_EmptySet
<1>5. EffectiveMinSuccess(bPlan.panel) \in Nat /\ EffectiveMinUnique(bPlan.panel) \in Nat
  BY <1>3 DEF Asked, EffectiveMinSuccess, EffectiveMinUnique
<1> QED BY <1>1, <1>2, <1>3, <1>4, <1>5

(* The members get their backends, or the panel fails before any runs.     *)
LEMMA AssignKeeps ==
  ASSUME BatchInv, Assign
  PROVE  BatchInv'
<1> USE DEF BatchInv
<1>1. bPc = "assign" /\ UNCHANGED <<bPlan, bLevels, bQueue, wk, bHalt, bRes, bLate>>
  BY DEF Assign
<1> DEFINE J == bPlan.plan.jobs
<1>2. /\ IsPanel /\ validatePanelSpec(bPlan.panel, bPlan.plan) /\ pn = NoPanel
      /\ Head(bLevels) = {j \in bPlan.plan.jobs : bPlan.plan.deps[j] = {}}
      /\ bRes[bPlan.panel.comparison].st \notin Outcomes
  BY <1>1 DEF PanelInv
<1>3. bLevels \in Seq(SUBSET J) /\ Layered(bLevels) /\ bLevels # <<>> /\ bRes = NoRes(bPlan.plan)
  BY <1>1 DEF BatchTypes, Accounted
<1>4. Head(bLevels) \subseteq JobsOf(bLevels) /\ Head(bLevels) \in SUBSET J
  BY <1>3, TailLayered
<1>5. Asked'
  BY <1>1 DEF Asked
<1>6. Owned' /\ (bPc' \in {"failed", "member"} => Halting')
  BY <1>1 DEF Owned, Busy, Halting, Assign
<1>7. CASE bPc' = "failed" /\ UNCHANGED pn
  <2>1. BatchTypes'
    BY <1>1, <1>7 DEF BatchTypes
  <2>2. Accounted'
    BY <1>1, <1>7 DEF Accounted
  <2>3. PanelSound'
    BY <1>1, <1>2, <1>7 DEF PanelSound, NoPanel
  <2>4. PanelInv'
    BY <1>1, <1>2, <1>7, <2>3 DEF PanelInv
  <2> QED BY <1>5, <1>6, <1>7, <2>1, <2>2, <2>4
<1>8. CASE ~(bPc' = "failed" /\ UNCHANGED pn)
  <2>1. PICK n \in 1..Cardinality(bPlan.panel.members), reused \in BOOLEAN :
          /\ bPlan.panel.members \subseteq Head(bLevels)
          /\ pn' = [pn EXCEPT !.used = 1..n, !.left = Head(bLevels),
                              !.degraded = n < EffectiveMinUnique(bPlan.panel) \/ reused]
          /\ bPc' = "member"
    BY <1>8 DEF Assign
  <2> DEFINE poor == n < EffectiveMinUnique(bPlan.panel) \/ reused
             H == Head(bLevels)
             U == 1..n
  <2>2. /\ EffectiveMinUnique(bPlan.panel) \in Nat /\ Cardinality(bPlan.panel.members) \in Nat
    BY <1>2, PanelFacts
  <2>3. n \in Nat /\ poor \in BOOLEAN /\ U \in SUBSET Nat
    BY <2>2
  <2>4. Cardinality(U) = n
    BY <2>3, FS_Interval
  <2>5. /\ pn' \in PanelRecs(bPlan.plan) /\ pn'.used = U /\ pn'.left = H /\ (pn'.degraded <=> poor)
        /\ pn'.succ = {} /\ pn'.kept = {}
    <3>1. pn' = [pn EXCEPT !.used = U, !.left = H, !.degraded = poor] /\ pn \in PanelRecs(bPlan.plan)
          /\ pn.succ = {} /\ pn.kept = {}
      BY <1>2, <2>1 DEF BatchTypes, NoPanel
    <3>2. H \in SUBSET J
      BY <1>4
    <3> HIDE DEF poor, H, U
    <3> QED BY <2>3, <3>1, <3>2 DEF PanelRecs
  <2>6. BatchTypes'
    BY <1>1, <2>1, <2>5 DEF BatchTypes
  <2>7. \A j \in J : bRes'[j].n = 0 /\ bRes'[j].st = "none"
    BY <1>1, <1>3 DEF NoRes
  <2>8. Accounted'
    <3>1. JobsOf(bLevels) = J
      <4>1. \A j \in J : bRes[j].n = IF j \in JobsOf(bLevels) THEN 0 ELSE 1
        BY <1>1 DEF Accounted, Unsettled
      <4>2. JobsOf(bLevels) \subseteq J
        BY <1>3, TailLayered
      <4>3. ASSUME NEW j \in J PROVE j \in JobsOf(bLevels)
        <5>1. bRes[j].n = 0
          BY <1>1, <2>7
        <5> QED BY <4>1, <5>1
      <4> QED BY <4>2, <4>3
    <3>2. Unsettled' = J
      BY <1>1, <1>4, <2>1, <2>5, <3>1 DEF Unsettled
    <3> QED BY <1>1, <1>3, <2>1, <2>7, <3>2 DEF Accounted
  <2>9. PanelInv'
    <3>1. pn'.succ = {j \in H \ pn'.left : bRes'[j].st = "APPROVED"}
      BY <2>5
    <3>2. ~pn'.degraded => Cardinality(pn'.used) >= EffectiveMinUnique(bPlan.panel)
      BY <2>2, <2>3, <2>4, <2>5
    <3> QED BY <1>1, <1>2, <2>1, <2>5, <3>1, <3>2 DEF PanelInv, IsPanel
  <2> QED BY <1>5, <1>6, <2>1, <2>6, <2>8, <2>9
<1> QED BY <1>7, <1>8

(* A job of the first level has its turn.                                  *)
LEMMA MemberKeeps ==
  ASSUME BatchInv, NEW st \in JobStatuses, NEW timeout \in BOOLEAN, MemberEnds(st, timeout)
  PROVE  BatchInv'
<1> USE DEF BatchInv
<1>1. bPc = "member" /\ UNCHANGED <<bPlan, bPc, bLevels, bQueue, wk, bHalt, bLate>>
  BY DEF MemberEnds
<1> DEFINE J == bPlan.plan.jobs
           H == Head(bLevels)
<1>2. PICK j \in pn.left :
        /\ bRes' = Record(bRes, {j}, st)
        /\ pn' = [pn EXCEPT !.left = @ \ {j}, !.timeout = @ \/ timeout,
                            !.succ = IF st = "APPROVED" THEN @ \cup {j} ELSE @]
  BY DEF MemberEnds
<1>3. /\ IsPanel /\ validatePanelSpec(bPlan.panel, bPlan.plan)
      /\ H = {i \in bPlan.plan.jobs : bPlan.plan.deps[i] = {}}
      /\ bRes[bPlan.panel.comparison].st \notin Outcomes /\ pn.kept = {}
      /\ bPlan.panel.members \subseteq H /\ pn.left \subseteq H
      /\ pn.succ = {i \in H \ pn.left : bRes[i].st = "APPROVED"}
      /\ ~pn.degraded => Cardinality(pn.used) >= EffectiveMinUnique(bPlan.panel)
  BY <1>1 DEF PanelInv
<1>4. bLevels \in Seq(SUBSET J) /\ Layered(bLevels) /\ bLevels # <<>> /\ bRes \in [J -> JobResults] /\ pn \in PanelRecs(bPlan.plan)
  BY <1>1 DEF BatchTypes, Accounted
<1>5. H \subseteq JobsOf(bLevels) /\ H \in SUBSET J
  BY <1>4, TailLayered
<1>6. j \in H /\ j \in J
  BY <1>3, <1>5
<1>7. /\ bRes' \in [J -> JobResults] /\ bRes'[j].n = bRes[j].n + 1 /\ bRes'[j].st = st
      /\ \A i \in J : i # j => bRes'[i] = bRes[i]
  <2>1. {j} \in SUBSET J /\ j \in {j}
    BY <1>6
  <2> DEFINE S == {j}
  <2> HIDE DEF J, S
  <2>2. S \in SUBSET J /\ bRes' = Record(bRes, S, st)
    BY <1>2, <2>1 DEF S
  <2>3. /\ bRes' \in [J -> JobResults]
        /\ \A i \in J : bRes'[i] = IF i \in S THEN [n |-> bRes[i].n + 1, st |-> st] ELSE bRes[i]
        /\ \A i \in S : bRes'[i].n = bRes[i].n + 1 /\ bRes'[i].st = st
    BY <1>4, <2>2, RecordEffect
  <2>4. j \in S /\ \A i \in J : i # j => i \notin S
    BY DEF S
  <2> QED BY <2>3, <2>4
<1>8. /\ pn' \in PanelRecs(bPlan.plan) /\ pn'.left = pn.left \ {j}
      /\ pn'.succ = IF st = "APPROVED" THEN pn.succ \cup {j} ELSE pn.succ
      /\ pn'.kept = pn.kept /\ pn'.used = pn.used /\ pn'.degraded = pn.degraded
  <2> DEFINE left == pn.left \ {j}
             late == pn.timeout \/ timeout
             succ == IF st = "APPROVED" THEN pn.succ \cup {j} ELSE pn.succ
  <2>1. left \in SUBSET J /\ late \in BOOLEAN /\ succ \in SUBSET J
    BY <1>4, <1>6 DEF PanelRecs
  <2>2. pn' = [pn EXCEPT !.left = left, !.timeout = late, !.succ = succ]
    BY <1>2
  <2>3. pn'.left = left /\ pn'.succ = succ
    <3> HIDE DEF left, late, succ
    <3> QED BY <1>4, <2>2 DEF PanelRecs
  <2>4. pn' \in PanelRecs(bPlan.plan) /\ pn'.kept = pn.kept /\ pn'.used = pn.used /\ pn'.degraded = pn.degraded
    <3> HIDE DEF left, late, succ
    <3> QED BY <1>4, <2>1, <2>2 DEF PanelRecs
  <2> QED BY <2>3, <2>4
<1>9. Asked' /\ BatchTypes'
  BY <1>1, <1>7, <1>8 DEF Asked, BatchTypes
<1>10. Accounted'
  <2>1. Unsettled = (JobsOf(bLevels) \ H) \cup pn.left /\ Unsettled' = (JobsOf(bLevels) \ H) \cup (pn.left \ {j})
    BY <1>1, <1>8 DEF Unsettled
  <2>2. \A i \in J : bRes[i].n = IF i \in Unsettled THEN 0 ELSE 1
    BY <1>1 DEF Accounted
  <2>3. bRes[j].n = 0 /\ j \notin Unsettled'
    BY <1>6, <2>1, <2>2
  <2>4. bRes'[j].n = 1
    BY <1>7, <2>3
  <2>5. \A i \in J : bRes'[i].n = IF i \in Unsettled' THEN 0 ELSE 1
    BY <1>7, <2>1, <2>2, <2>3, <2>4
  <2> QED BY <1>1, <1>4, <2>5 DEF Accounted
<1>11. Owned' /\ Halting'
  BY <1>1 DEF Owned, Busy, Halting
<1>12. PanelInv'
  <2>1. bPlan.panel.comparison \in J /\ bPlan.panel.comparison # j
    BY <1>3, <1>6, PanelFacts
  <2>2. bRes'[bPlan.panel.comparison].st \notin Outcomes
    BY <1>3, <1>7, <2>1
  <2>3. pn'.succ = {i \in H \ pn'.left : bRes'[i].st = "APPROVED"}
    BY <1>3, <1>5, <1>6, <1>7, <1>8
  <2> QED BY <1>1, <1>3, <1>8, <2>2, <2>3 DEF PanelInv, IsPanel
<1> QED BY <1>9, <1>10, <1>11, <1>12

(* Every job of the first level has had its turn: the panel goes on with   *)
(* what its members produced, or everything else is skipped.               *)
LEMMA MembersOverKeeps ==
  ASSUME BatchInv, MembersOver
  PROVE  BatchInv'
<1> USE DEF BatchInv
<1>1. bPc = "member" /\ pn.left = {} /\ UNCHANGED <<bPlan, bQueue, wk, bHalt, bLate>>
  BY DEF MembersOver
<1> DEFINE J == bPlan.plan.jobs
           H == Head(bLevels)
           rest == Tail(bLevels)
<1>2. /\ IsPanel /\ validatePanelSpec(bPlan.panel, bPlan.plan)
      /\ H = {i \in bPlan.plan.jobs : bPlan.plan.deps[i] = {}}
      /\ bRes[bPlan.panel.comparison].st \notin Outcomes /\ pn.kept = {}
      /\ bPlan.panel.members \subseteq H
      /\ pn.succ = {i \in H : bRes[i].st = "APPROVED"}
      /\ ~pn.degraded => Cardinality(pn.used) >= EffectiveMinUnique(bPlan.panel)
  BY <1>1 DEF PanelInv
<1>3. bLevels \in Seq(SUBSET J) /\ Layered(bLevels) /\ bLevels # <<>> /\ bRes \in [J -> JobResults] /\ pn \in PanelRecs(bPlan.plan)
  BY <1>1 DEF BatchTypes, Accounted
<1>4. /\ rest \in Seq(SUBSET J) /\ Layered(rest) /\ JobsOf(rest) = JobsOf(bLevels) \ H
      /\ H \subseteq JobsOf(bLevels) /\ H # {} /\ H \in SUBSET J /\ JobsOf(bLevels) \in SUBSET J
  BY <1>3, TailLayered
<1>5. \A j \in J : bRes[j].n = IF j \in JobsOf(rest) THEN 0 ELSE 1
  <2>1. Unsettled = JobsOf(rest)
    BY <1>1, <1>4 DEF Unsettled
  <2> QED BY <1>1, <2>1 DEF Accounted
<1>6. Asked'
  BY <1>1 DEF Asked
<1>7. CASE ~EnoughMembers
  <2>1. /\ bRes' = Record(bRes, JobsOf(rest), "SKIPPED")
        /\ bPc' = "done" /\ bLevels' = <<>> /\ pn' = [pn EXCEPT !.degraded = TRUE]
    BY <1>7 DEF MembersOver, JobsOf
  <2> DEFINE S == JobsOf(rest)
  <2>2. S \in SUBSET J
    BY <1>4
  <2>3. /\ bRes' \in [J -> JobResults]
        /\ \A j \in J : bRes'[j] = IF j \in S THEN [n |-> bRes[j].n + 1, st |-> "SKIPPED"] ELSE bRes[j]
    <3>1. "SKIPPED" \in JobStatuses
      BY DEF JobStatuses
    <3>2. bRes' = Record(bRes, S, "SKIPPED")
      BY <2>1
    <3> HIDE DEF J, S
    <3> QED BY <1>3, <2>2, <3>1, <3>2, RecordEffect
  <2>4. \A j \in J : bRes'[j].n = 1 /\ bRes'[j].st \in {"SKIPPED", bRes[j].st}
    <3> SUFFICES ASSUME NEW j \in J PROVE bRes'[j].n = 1 /\ bRes'[j].st \in {"SKIPPED", bRes[j].st}
      OBVIOUS
    <3>1. CASE j \in S
      <4>1. bRes[j].n = 0 /\ bRes'[j] = [n |-> bRes[j].n + 1, st |-> "SKIPPED"]
        BY <1>5, <2>3, <3>1
      <4> QED BY <4>1
    <3>2. CASE j \notin S
      BY <1>5, <2>3, <3>2
    <3> QED BY <3>1, <3>2
  <2>5. pn' \in PanelRecs(bPlan.plan) /\ pn'.degraded = TRUE /\ pn'.kept = {}
    BY <1>2, <1>3, <2>1 DEF PanelRecs
  <2>6. BatchTypes'
    BY <1>1, <2>1, <2>3, <2>5 DEF BatchTypes
  <2>7. Accounted'
    BY <1>1, <2>1, <2>4 DEF Accounted
  <2>8. Owned' /\ Halting'
    BY <1>1, <2>1 DEF Owned, Busy, Halting
  <2>9. PanelInv'
    <3>1. bPlan.panel.comparison \in J
      BY <1>2, PanelFacts
    <3>2. bRes'[bPlan.panel.comparison].st \notin Outcomes
      BY <1>2, <2>4, <3>1 DEF Outcomes
    <3>3. PanelSound'
      BY <1>1, <2>5, <3>2 DEF PanelSound
    <3> QED BY <1>1, <1>2, <2>1, <3>3 DEF PanelInv
  <2> QED BY <1>6, <2>6, <2>7, <2>8, <2>9
<1>8. CASE EnoughMembers
  <2> DEFINE poor == pn.degraded \/ pn.timeout \/ Cardinality(pn.succ) < EffectiveMinSuccess(bPlan.panel)
             made == Kept
  <2>1. /\ pn' = [pn EXCEPT !.degraded = poor, !.kept = made]
        /\ bPc' = "level" /\ bLevels' = rest /\ UNCHANGED bRes
    BY <1>8 DEF MembersOver
  <2>2. pn.succ \cap bPlan.panel.members = Approved
    BY <1>2, <1>4 DEF Approved
  <2>3. made = UNION {bPlan.plan.produces[m] : m \in Approved}
    BY <2>2 DEF Kept
  <2>4. Approved \subseteq J /\ Approved \subseteq bPlan.panel.members
    BY <1>2, <1>4 DEF Approved
  <2>5. /\ pn' \in PanelRecs(bPlan.plan) /\ pn'.kept = made /\ (pn'.degraded <=> poor)
        /\ pn'.used = pn.used
    <3>1. poor \in BOOLEAN
      BY <1>3 DEF PanelRecs
    <3>2. made \in SUBSET UNION {bPlan.plan.produces[j] : j \in J}
      BY <2>3, <2>4
    <3> HIDE DEF poor, made
    <3> QED BY <1>3, <2>1, <3>1, <3>2 DEF PanelRecs
  <2>6. BatchTypes'
    BY <1>1, <1>4, <2>1, <2>5 DEF BatchTypes
  <2>7. Accounted'
    <3>1. Unsettled' = JobsOf(rest)
      BY <2>1 DEF Unsettled
    <3>2. \E j \in J : bRes[j].n # 0
      BY <1>4, <1>5
    <3> QED BY <1>1, <1>4, <1>5, <2>1, <3>1, <3>2 DEF Accounted
  <2>8. Owned' /\ Halting'
    BY <1>1, <2>1 DEF Owned, Busy, Halting
  <2>9. Quorate'
    <3>1. Approved' = Approved /\ (OnlyMembersFirst' <=> OnlyMembersFirst)
      BY <1>1, <2>1 DEF Approved, OnlyMembersFirst
    <3>2. ASSUME OnlyMembersFirst
          PROVE  /\ made # {} /\ Cardinality(Approved) >= 2
                 /\ ~poor => /\ Cardinality(Approved) >= EffectiveMinSuccess(bPlan.panel)
                             /\ Cardinality(pn.used) >= EffectiveMinUnique(bPlan.panel)
      <4>1. H \subseteq bPlan.panel.members
        BY <1>2, <3>2 DEF OnlyMembersFirst
      <4>2. pn.succ = Approved
        BY <1>2, <2>2, <4>1
      <4>3. Cardinality(Approved) >= 2
        BY <1>8, <4>2 DEF EnoughMembers
      <4>4. Approved # {}
        BY <4>3, FS_EmptySet
      <4>5. made # {}
        BY <1>2, <2>3, <2>4, <4>4, PanelFacts
      <4>6. Cardinality(Approved) \in Nat /\ EffectiveMinSuccess(bPlan.panel) \in Nat
        BY <1>2, <2>4, PanelFacts, FS_Subset, FS_CardinalityType
      <4>7. ~poor => Cardinality(Approved) >= EffectiveMinSuccess(bPlan.panel)
        BY <4>2, <4>6
      <4> QED BY <1>2, <4>3, <4>5, <4>7
    <3> HIDE DEF poor, made
    <3> QED BY <1>1, <2>3, <2>5, <3>1, <3>2 DEF Quorate
  <2>10. PanelInv'
    <3>1. bPlan.panel.members \cap JobsOf(rest) = {}
      BY <1>2, <1>4
    <3> QED BY <1>1, <1>2, <2>1, <2>9, <3>1 DEF PanelInv, IsPanel
  <2> QED BY <1>6, <2>6, <2>7, <2>8, <2>10
<1> QED BY <1>7, <1>8

-----------------------------------------------------------------------------
(* RunBatch: the workers                                                   *)

(* A step of a worker that counts no result, whose hold on a job changes as*)
(* the channel does.                                                       *)
LEMMA HandsKeep ==
  ASSUME BatchInv, bPc = "run", UNCHANGED <<bPlan, bPc, bLevels, bRes, pn>>,
         NEW w \in Workers, NEW v \in WorkerRecs(bPlan.plan), Step(w, v),
         \/ UNCHANGED bQueue /\ Busy(w) /\ v.job = wk[w].job /\ Busy(w)'
         \/ UNCHANGED bQueue /\ ~Busy(w) /\ ~Busy(w)'
         \/ ~Busy(w) /\ Busy(w)' /\ v.job \in bQueue /\ bQueue' = bQueue \ {v.job}
  PROVE  /\ Asked' /\ Accounted' /\ Owned' /\ PanelInv'
         /\ bQueue' \in SUBSET bPlan.plan.jobs /\ wk' \in [Workers -> WorkerRecs(bPlan.plan)]
         /\ wk'[w] = v /\ \A u \in Workers : u # w => wk'[u] = wk[u]
<1> USE DEF BatchInv
<1>1. /\ wk' \in [Workers -> WorkerRecs(bPlan.plan)] /\ wk'[w] = v
      /\ \A u \in Workers : u # w => wk'[u] = wk[u]
  <2>1. wk \in [Workers -> WorkerRecs(bPlan.plan)]
    BY DEF BatchTypes
  <2> QED BY <2>1, StepEffect
<1>2. \A u \in Workers : u # w => (Busy(u)' <=> Busy(u)) /\ wk'[u].job = wk[u].job
  BY <1>1 DEF Busy
<1>3. /\ bQueue \subseteq Head(bLevels)
      /\ \A u \in Workers : Busy(u) => wk[u].job \in Head(bLevels) \ bQueue
      /\ \A t, u \in Workers : Busy(t) /\ Busy(u) /\ wk[t].job = wk[u].job => t = u
  BY DEF Owned
<1>4. bQueue' \cup Held' = bQueue \cup Held
  <2>1. \A j : j \in Held <=> \E u \in Workers : Busy(u) /\ j = wk[u].job
    BY DEF Held
  <2>2. \A j : j \in Held' <=> \E u \in Workers : Busy(u)' /\ j = wk'[u].job
    BY DEF Held
  <2>3. \A j : (\E u \in Workers : u # w /\ Busy(u)' /\ j = wk'[u].job) <=> (\E u \in Workers : u # w /\ Busy(u) /\ j = wk[u].job)
    BY <1>2
  <2>4. \A j : /\ j \in Held <=> ((\E u \in Workers : u # w /\ Busy(u) /\ j = wk[u].job) \/ (Busy(w) /\ j = wk[w].job))
               /\ j \in Held' <=> ((\E u \in Workers : u # w /\ Busy(u) /\ j = wk[u].job) \/ (Busy(w)' /\ j = v.job))
    BY <1>1, <2>1, <2>2, <2>3
  <2> QED BY <2>4
<1>5. Accounted'
  <2>1. Unsettled' = Unsettled
    BY <1>4 DEF Unsettled
  <2> QED BY <2>1 DEF Accounted
<1>6. Owned'
  <2>1. bQueue' \subseteq Head(bLevels)
    BY <1>3
  <2>2. ASSUME NEW u \in Workers, Busy(u)' PROVE wk'[u].job \in Head(bLevels) \ bQueue'
    BY <1>1, <1>2, <1>3, <2>2
  <2>3. ASSUME NEW t \in Workers, NEW u \in Workers, Busy(t)', Busy(u)', wk'[t].job = wk'[u].job
        PROVE  t = u
    BY <1>1, <1>2, <1>3, <2>3
  <2> QED BY <2>1, <2>2, <2>3 DEF Owned
<1>7. PanelInv'
  BY PanelStays
<1>8. bQueue' \in SUBSET bPlan.plan.jobs
  BY DEF BatchTypes
<1>9. Asked'
  BY DEF Asked
<1> QED BY <1>1, <1>5, <1>6, <1>7, <1>8, <1>9

(* A worker that has its job's result counts it and is free again.         *)
LEMMA CountKeeps ==
  ASSUME BatchInv, bPc = "run", UNCHANGED <<bPlan, bPc, bLevels, bQueue, pn>>,
         NEW w \in Workers, NEW v \in WorkerRecs(bPlan.plan), Step(w, v), Busy(w), ~Busy(w)',
         NEW st \in JobStatuses, bRes' = Record(bRes, {wk[w].job}, st)
  PROVE  /\ Asked' /\ Accounted' /\ Owned' /\ PanelInv'
         /\ wk' \in [Workers -> WorkerRecs(bPlan.plan)]
         /\ wk'[w] = v /\ \A u \in Workers : u # w => wk'[u] = wk[u]
         /\ bRes' \in [bPlan.plan.jobs -> JobResults]
         /\ wk[w].job \in Head(bLevels) /\ wk[w].job \in bPlan.plan.jobs
         /\ bRes[wk[w].job].n = 0 /\ bRes'[wk[w].job].n = 1 /\ bRes'[wk[w].job].st = st
         /\ \A i \in bPlan.plan.jobs : i # wk[w].job => bRes'[i] = bRes[i]
<1> USE DEF BatchInv
<1> DEFINE J == bPlan.plan.jobs
           j == wk[w].job
<1>1. /\ wk' \in [Workers -> WorkerRecs(bPlan.plan)] /\ wk'[w] = v
      /\ \A u \in Workers : u # w => wk'[u] = wk[u]
  <2>1. wk \in [Workers -> WorkerRecs(bPlan.plan)]
    BY DEF BatchTypes
  <2> QED BY <2>1, StepEffect
<1>2. \A u \in Workers : u # w => (Busy(u)' <=> Busy(u)) /\ wk'[u].job = wk[u].job
  BY <1>1 DEF Busy
<1>3. /\ bQueue \subseteq Head(bLevels)
      /\ \A u \in Workers : Busy(u) => wk[u].job \in Head(bLevels) \ bQueue
      /\ \A t, u \in Workers : Busy(t) /\ Busy(u) /\ wk[t].job = wk[u].job => t = u
  BY DEF Owned
<1>4. bLevels \in Seq(SUBSET J) /\ Layered(bLevels) /\ bLevels # <<>> /\ bRes \in [J -> JobResults]
  BY DEF BatchTypes, Accounted
<1>5. Head(bLevels) \subseteq JobsOf(bLevels) /\ Head(bLevels) \in SUBSET J
  BY <1>4, TailLayered
<1>6. j \in Head(bLevels) \ bQueue /\ j \in J
  BY <1>3, <1>5
<1>7. /\ bRes' \in [J -> JobResults] /\ bRes'[j].n = bRes[j].n + 1 /\ bRes'[j].st = st
      /\ \A i \in J : i # j => bRes'[i] = bRes[i]
  <2> DEFINE S == {j}
  <2>1. S \in SUBSET J /\ bRes' = Record(bRes, S, st) /\ j \in S /\ \A i \in J : i # j => i \notin S
    BY <1>6
  <2> HIDE DEF J, S, j
  <2> DEFINE r == Record(bRes, S, st)
  <2>a. bRes' = r
    BY <2>1
  <2>c. bRes \in [J -> JobResults]
    BY <1>4
  <2>d. S \in SUBSET J
    BY <2>1
  <2>b. /\ r \in [J -> JobResults]
        /\ \A i \in J : r[i] = IF i \in S THEN [n |-> bRes[i].n + 1, st |-> st] ELSE bRes[i]
        /\ \A i \in S : r[i].n = bRes[i].n + 1 /\ r[i].st = st
    BY <2>c, <2>d, RecordEffect
  <2> HIDE DEF r
  <2>2. /\ bRes' \in [J -> JobResults]
        /\ \A i \in J : bRes'[i] = IF i \in S THEN [n |-> bRes[i].n + 1, st |-> st] ELSE bRes[i]
        /\ \A i \in S : bRes'[i].n = bRes[i].n + 1 /\ bRes'[i].st = st
    BY <2>a, <2>b
  <2> QED BY <2>1, <2>2
<1>8. Unsettled' = Unsettled \ {j} /\ j \in Unsettled
  <2>1. \A i : i \in Held <=> \E u \in Workers : Busy(u) /\ i = wk[u].job
    BY DEF Held
  <2>2. \A i : i \in Held' <=> \E u \in Workers : Busy(u)' /\ i = wk'[u].job
    BY DEF Held
  <2>3. j \in Held /\ j \notin Held'
    BY <1>2, <1>3, <2>1, <2>2
  <2>4. \A i : i # j => (i \in Held <=> i \in Held')
    BY <1>2, <2>1, <2>2
  <2>5. Held' = Held \ {j}
    BY <2>3, <2>4
  <2> QED BY <1>6, <2>3, <2>5 DEF Unsettled
<1>13. bRes[j].n = 0 /\ bRes'[j].n = 1
  <2>1. bRes[j].n = 0
    BY <1>6, <1>8 DEF Accounted
  <2> QED BY <1>7, <2>1
<1>9. Accounted'
  <2>1. \A i \in J : bRes[i].n = IF i \in Unsettled THEN 0 ELSE 1
    BY DEF Accounted
  <2>4. \A i \in J : bRes'[i].n = IF i \in Unsettled' THEN 0 ELSE 1
    BY <1>7, <1>8, <1>13, <2>1
  <2>5. \A i \in J : bRes'[i].n <= 1
    BY <2>4
  <2>6. UNCHANGED <<bPlan, bPc, bLevels>> /\ bPc = "run"
    OBVIOUS
  <2> HIDE DEF j
  <2> QED BY <1>4, <2>4, <2>5, <2>6 DEF Accounted
<1>10. Owned'
  <2>1. ASSUME NEW u \in Workers, Busy(u)' PROVE wk'[u].job \in Head(bLevels) \ bQueue'
    BY <1>2, <1>3, <2>1
  <2>2. ASSUME NEW t \in Workers, NEW u \in Workers, Busy(t)', Busy(u)', wk'[t].job = wk'[u].job
        PROVE  t = u
    BY <1>2, <1>3, <2>2
  <2> QED BY <1>3, <2>1, <2>2 DEF Owned
<1>11. PanelInv'
  <2>1. \A i \in J \ JobsOf(bLevels) : bRes'[i] = bRes[i]
    BY <1>5, <1>6, <1>7
  <2> QED BY <2>1, PanelStays
<1>12. Asked'
  BY DEF Asked
<1> QED BY <1>1, <1>6, <1>7, <1>9, <1>10, <1>11, <1>12, <1>13

(* A worker moves, and the others do not.                                  *)
LEMMA WorkerMoves ==
  ASSUME BatchInv, NEW w \in Workers, NEW v \in WorkerRecs(bPlan.plan), Step(w, v)
  PROVE  /\ wk' \in [Workers -> WorkerRecs(bPlan.plan)] /\ wk'[w] = v
         /\ \A u \in Workers : u # w => wk'[u] = wk[u]
<1>1. wk \in [Workers -> WorkerRecs(bPlan.plan)]
  BY DEF BatchInv, BatchTypes
<1> QED BY <1>1, StepEffect

(* Only finitely many workers are about to launch.                         *)
LEMMA ReservingFinite == IsFiniteSet(Reserving)
<1>1. 1 \in Int /\ 4 \in Int
  OBVIOUS
<1>2. IsFiniteSet(Workers)
  BY <1>1, FS_Interval DEF Workers
<1> QED BY <1>2, FS_Subset DEF Reserving

(* The halt switch stays as it is, and nobody new gets past the check once *)
(* it is set.                                                              *)
LEMMA HaltKeeps ==
  ASSUME BatchInv, bPc = "run", UNCHANGED <<bPlan, bPc, bHalt, bLate>>,
         NEW w \in Workers, wk[w].pc # "off", \A u \in Workers : u # w => wk'[u] = wk[u],
         wk'[w].pc = "reserve" => ~bHalt.level, QuarantineSeen => QuarantineSeen'
  PROVE  Halting'
<1>1. Halting /\ Asked /\ bLate \in Nat
  BY DEF BatchInv, BatchTypes
<1>2. \A u \in Workers : u > bPlan.par => wk'[u].pc = "off"
  BY <1>1 DEF Halting
<1>3. ASSUME bHalt.level
      PROVE  bLate + Cardinality(Reserving') <= bPlan.par - 1
  <2>1. Reserving' \subseteq Reserving /\ Reserving \subseteq Workers
    BY <1>3 DEF Reserving
  <2>2. IsFiniteSet(Reserving)
    BY ReservingFinite
  <2>3. Cardinality(Reserving') \in Nat /\ Cardinality(Reserving) \in Nat /\ Cardinality(Reserving') <= Cardinality(Reserving)
    BY <2>1, <2>2, FS_Subset, FS_CardinalityType
  <2>4. bLate + Cardinality(Reserving) <= bPlan.par - 1 /\ bPlan.par \in Nat
    BY <1>1, <1>3 DEF Halting, Asked, Workers
  <2> QED BY <1>1, <2>3, <2>4
<1> QED BY <1>1, <1>2, <1>3 DEF Halting

(* A worker takes the next job from the channel.                           *)
LEMMA ReceiveKeeps ==
  ASSUME BatchInv, NEW w \in Workers, Receive(w)
  PROVE  BatchInv'
<1> USE DEF BatchInv
<1>1. bPc = "run" /\ wk[w].pc = "recv" /\ UNCHANGED <<bPlan, bPc, bLevels, bHalt, bRes, bLate, pn>>
  BY DEF Receive, Waiting
<1>2. PICK j \in bQueue : bQueue' = bQueue \ {j} /\ Step(w, [pc |-> "check", job |-> j, st |-> "none"])
  BY DEF Receive
<1> DEFINE v == [pc |-> "check", job |-> j, st |-> "none"]
<1>3. v \in WorkerRecs(bPlan.plan) /\ v.pc = "check" /\ v.job = j
  BY DEF WorkerRecs, JobStatuses, BatchTypes
<1>4. Step(w, v)
  BY <1>2
<1> HIDE DEF v
<1>5. wk' \in [Workers -> WorkerRecs(bPlan.plan)] /\ wk'[w] = v
  BY <1>3, <1>4, WorkerMoves
<1>6. ~Busy(w) /\ Busy(w)'
  BY <1>1, <1>3, <1>5 DEF Busy
<1>7. /\ Asked' /\ Accounted' /\ Owned' /\ PanelInv'
      /\ bQueue' \in SUBSET bPlan.plan.jobs /\ wk' \in [Workers -> WorkerRecs(bPlan.plan)]
      /\ wk'[w] = v /\ \A u \in Workers : u # w => wk'[u] = wk[u]
  BY <1>1, <1>2, <1>3, <1>4, <1>6, HandsKeep
<1>8. BatchTypes'
  BY <1>1, <1>7 DEF BatchTypes
<1>9. QuarantineSeen => QuarantineSeen'
  BY <1>1, <1>7 DEF QuarantineSeen
<1>10. Halting'
  BY <1>1, <1>3, <1>7, <1>9, HaltKeeps
<1> QED BY <1>7, <1>8, <1>10

(* The channel is closed and the worker goes.                              *)
LEMMA LeaveKeeps ==
  ASSUME BatchInv, NEW w \in Workers, Leave(w)
  PROVE  BatchInv'
<1> USE DEF BatchInv
<1>1. bPc = "run" /\ wk[w].pc = "recv" /\ UNCHANGED <<bPlan, bPc, bLevels, bQueue, bHalt, bRes, bLate, pn>>
  BY DEF Leave, Waiting
<1> DEFINE v == [Idle EXCEPT !.pc = "gone"]
<1>2. v \in WorkerRecs(bPlan.plan) /\ v.pc = "gone"
  BY DEF WorkerRecs, JobStatuses, Idle
<1>3. Step(w, v)
  BY DEF Leave
<1> HIDE DEF v
<1>4. wk' \in [Workers -> WorkerRecs(bPlan.plan)] /\ wk'[w] = v
  BY <1>2, <1>3, WorkerMoves
<1>5. ~Busy(w) /\ ~Busy(w)'
  BY <1>1, <1>2, <1>4 DEF Busy
<1>6. /\ Asked' /\ Accounted' /\ Owned' /\ PanelInv'
      /\ bQueue' \in SUBSET bPlan.plan.jobs /\ wk' \in [Workers -> WorkerRecs(bPlan.plan)]
      /\ wk'[w] = v /\ \A u \in Workers : u # w => wk'[u] = wk[u]
  BY <1>1, <1>2, <1>3, <1>5, HandsKeep
<1>7. BatchTypes'
  BY <1>1, <1>6 DEF BatchTypes
<1>8. QuarantineSeen => QuarantineSeen'
  BY <1>1, <1>6 DEF QuarantineSeen
<1>9. Halting'
  BY <1>1, <1>2, <1>6, <1>8, HaltKeeps
<1> QED BY <1>6, <1>7, <1>9

(* A job that is counted is not the one whose quarantine was seen.         *)
LEMMA SeenStays ==
  ASSUME BatchInv, bPc = "run", UNCHANGED bLevels, NEW w \in Workers,
         \A u \in Workers : u # w => wk'[u] = wk[u],
         wk[w].job \in Head(bLevels), bRes[wk[w].job].n = 0, bRes'[wk[w].job].n = 1,
         wk[w].pc = "send" => bRes'[wk[w].job].st = wk[w].st,
         \A i \in bPlan.plan.jobs : i # wk[w].job => bRes'[i] = bRes[i]
  PROVE  QuarantineSeen => QuarantineSeen'
<1> SUFFICES ASSUME QuarantineSeen PROVE QuarantineSeen'
  OBVIOUS
<1>1. Head(bLevels) \subseteq bPlan.plan.jobs
  <2>1. bLevels \in Seq(SUBSET bPlan.plan.jobs) /\ bLevels # <<>> /\ Layered(bLevels)
    BY DEF BatchInv, BatchTypes, Accounted
  <2> QED BY <2>1, TailLayered
<1>2. ASSUME NEW i \in Head(bLevels), bRes[i].n = 1, bRes[i].st = "QUARANTINED" PROVE QuarantineSeen'
  <2>1. i # wk[w].job
    BY <1>2
  <2>2. bRes'[i] = bRes[i]
    BY <1>1, <2>1
  <2> QED BY <1>2, <2>2 DEF QuarantineSeen
<1>3. ASSUME NEW u \in Workers, wk[u].pc = "send", wk[u].st = "QUARANTINED" PROVE QuarantineSeen'
  <2>1. CASE u = w
    BY <1>3, <2>1 DEF QuarantineSeen
  <2>2. CASE u # w
    BY <1>3, <2>2 DEF QuarantineSeen
  <2> QED BY <2>1, <2>2
<1> QED BY <1>2, <1>3 DEF QuarantineSeen

(* A worker sends its job's result.                                        *)
LEMMA SendKeeps ==
  ASSUME BatchInv, NEW w \in Workers, Send(w)
  PROVE  BatchInv'
<1> USE DEF BatchInv
<1>1. wk[w].pc = "send" /\ UNCHANGED <<bPlan, bPc, bLevels, bQueue, bHalt, bLate, pn>>
  BY DEF Send
<1>2. Busy(w) /\ bPc = "run"
  BY <1>1 DEF Busy, Owned
<1> DEFINE v == [Idle EXCEPT !.pc = "recv"]
           st == wk[w].st
<1>3. v \in WorkerRecs(bPlan.plan) /\ v.pc = "recv"
  BY DEF WorkerRecs, JobStatuses, Idle
<1>4. Step(w, v) /\ bRes' = Record(bRes, {wk[w].job}, st)
  BY DEF Send
<1>5. st \in JobStatuses
  BY DEF BatchTypes, WorkerRecs
<1> HIDE DEF v
<1>6. wk'[w] = v
  BY <1>3, <1>4, WorkerMoves
<1>7. ~Busy(w)'
  BY <1>3, <1>6 DEF Busy
<1> HIDE DEF st
<1>8. /\ Asked' /\ Accounted' /\ Owned' /\ PanelInv'
      /\ wk' \in [Workers -> WorkerRecs(bPlan.plan)]
      /\ wk'[w] = v /\ \A u \in Workers : u # w => wk'[u] = wk[u]
      /\ bRes' \in [bPlan.plan.jobs -> JobResults]
      /\ wk[w].job \in Head(bLevels) /\ wk[w].job \in bPlan.plan.jobs
      /\ bRes[wk[w].job].n = 0 /\ bRes'[wk[w].job].n = 1 /\ bRes'[wk[w].job].st = st
      /\ \A i \in bPlan.plan.jobs : i # wk[w].job => bRes'[i] = bRes[i]
  BY <1>1, <1>2, <1>3, <1>4, <1>5, <1>7, CountKeeps
<1>9. BatchTypes'
  BY <1>1, <1>8 DEF BatchTypes
<1>10. QuarantineSeen => QuarantineSeen'
  BY <1>1, <1>2, <1>8, SeenStays DEF st
<1>11. Halting'
  BY <1>1, <1>2, <1>3, <1>8, <1>10, HaltKeeps
<1> QED BY <1>8, <1>9, <1>11

(* A worker looks at the switch: its job is skipped, or goes on.           *)
LEMMA CheckHaltKeeps ==
  ASSUME BatchInv, NEW w \in Workers, CheckHalt(w)
  PROVE  BatchInv'
<1> USE DEF BatchInv
<1>1. wk[w].pc = "check" /\ UNCHANGED <<bPlan, bPc, bLevels, bQueue, bHalt, bLate, pn>>
  BY DEF CheckHalt
<1>2. Busy(w) /\ bPc = "run"
  BY <1>1 DEF Busy, Owned
<1>3. CASE bPlan.halt /\ bHalt.level
  <2> DEFINE v == [Idle EXCEPT !.pc = "recv"]
  <2>1. v \in WorkerRecs(bPlan.plan) /\ v.pc = "recv"
    BY DEF WorkerRecs, JobStatuses, Idle
  <2>2. Step(w, v) /\ bRes' = Record(bRes, {wk[w].job}, "SKIPPED") /\ "SKIPPED" \in JobStatuses
    BY <1>3 DEF CheckHalt, JobStatuses
  <2> HIDE DEF v
  <2>3. wk'[w] = v
    BY <2>1, <2>2, WorkerMoves
  <2>4. ~Busy(w)'
    BY <2>1, <2>3 DEF Busy
  <2>5. /\ Asked' /\ Accounted' /\ Owned' /\ PanelInv'
        /\ wk' \in [Workers -> WorkerRecs(bPlan.plan)]
        /\ wk'[w] = v /\ \A u \in Workers : u # w => wk'[u] = wk[u]
        /\ bRes' \in [bPlan.plan.jobs -> JobResults]
        /\ wk[w].job \in Head(bLevels) /\ wk[w].job \in bPlan.plan.jobs
        /\ bRes[wk[w].job].n = 0 /\ bRes'[wk[w].job].n = 1 /\ bRes'[wk[w].job].st = "SKIPPED"
        /\ \A i \in bPlan.plan.jobs : i # wk[w].job => bRes'[i] = bRes[i]
    BY <1>1, <1>2, <2>1, <2>2, <2>4, CountKeeps
  <2>6. BatchTypes'
    BY <1>1, <2>5 DEF BatchTypes
  <2>7. QuarantineSeen => QuarantineSeen'
    BY <1>1, <1>2, <2>5, SeenStays
  <2>8. Halting'
    BY <1>1, <1>2, <2>1, <2>5, <2>7, HaltKeeps
  <2> QED BY <2>5, <2>6, <2>8
<1>4. CASE ~(bPlan.halt /\ bHalt.level)
  <2> DEFINE v == [wk[w] EXCEPT !.pc = "reserve"]
  <2>1. wk[w] \in WorkerRecs(bPlan.plan)
    BY DEF BatchTypes
  <2>2. v \in WorkerRecs(bPlan.plan) /\ v.pc = "reserve" /\ v.job = wk[w].job
    BY <2>1 DEF WorkerRecs
  <2>3. Step(w, v) /\ UNCHANGED bRes
    BY <1>4 DEF CheckHalt
  <2> HIDE DEF v
  <2>4. wk'[w] = v
    BY <2>2, <2>3, WorkerMoves
  <2>5. Busy(w)'
    BY <2>2, <2>4 DEF Busy
  <2>6. /\ Asked' /\ Accounted' /\ Owned' /\ PanelInv'
        /\ bQueue' \in SUBSET bPlan.plan.jobs /\ wk' \in [Workers -> WorkerRecs(bPlan.plan)]
        /\ wk'[w] = v /\ \A u \in Workers : u # w => wk'[u] = wk[u]
    BY <1>1, <1>2, <2>2, <2>3, <2>5, HandsKeep
  <2>7. BatchTypes'
    BY <1>1, <2>3, <2>6 DEF BatchTypes
  <2>8. QuarantineSeen => QuarantineSeen'
    BY <1>1, <2>3, <2>6 DEF QuarantineSeen
  <2>9. ~bHalt.level
    BY <1>4 DEF Halting
  <2>10. Halting'
    BY <1>1, <1>2, <2>6, <2>8, <2>9, HaltKeeps
  <2> QED BY <2>6, <2>7, <2>10
<1> QED BY <1>3, <1>4

(* A job is launched, or the accountant refuses it.                        *)
LEMMA LaunchKeeps ==
  ASSUME BatchInv, NEW w \in Workers, Launch(w)
  PROVE  BatchInv'
<1> USE DEF BatchInv
<1>1. wk[w].pc = "reserve" /\ UNCHANGED <<bPlan, bPc, bLevels, bQueue, bHalt, bRes, pn>>
  BY DEF Launch
<1>2. Busy(w) /\ bPc = "run"
  BY <1>1 DEF Busy, Owned
<1>3. wk[w] \in WorkerRecs(bPlan.plan)
  BY DEF BatchTypes
<1>4. CASE Step(w, [wk[w] EXCEPT !.pc = "send", !.st = "SKIPPED"]) /\ UNCHANGED bLate
  <2> DEFINE v == [wk[w] EXCEPT !.pc = "send", !.st = "SKIPPED"]
  <2>1. v \in WorkerRecs(bPlan.plan) /\ v.pc = "send" /\ v.job = wk[w].job
    BY <1>3 DEF WorkerRecs, JobStatuses
  <2>2. Step(w, v)
    BY <1>4
  <2> HIDE DEF v
  <2>3. wk'[w] = v
    BY <2>1, <2>2, WorkerMoves
  <2>4. Busy(w)'
    BY <2>1, <2>3 DEF Busy
  <2>5. /\ Asked' /\ Accounted' /\ Owned' /\ PanelInv'
        /\ bQueue' \in SUBSET bPlan.plan.jobs /\ wk' \in [Workers -> WorkerRecs(bPlan.plan)]
        /\ wk'[w] = v /\ \A u \in Workers : u # w => wk'[u] = wk[u]
    BY <1>1, <1>2, <2>1, <2>2, <2>4, HandsKeep
  <2>6. BatchTypes'
    BY <1>1, <1>4, <2>5 DEF BatchTypes
  <2>7. QuarantineSeen => QuarantineSeen'
    BY <1>1, <2>5 DEF QuarantineSeen
  <2>8. Halting'
    BY <1>1, <1>2, <1>4, <2>1, <2>5, <2>7, HaltKeeps
  <2> QED BY <2>5, <2>6, <2>8
<1>5. CASE /\ Step(w, [wk[w] EXCEPT !.pc = "running"])
           /\ bLate' = IF bPlan.halt /\ (bHalt.level \/ bHalt.all) THEN bLate + 1 ELSE bLate
  <2> DEFINE v == [wk[w] EXCEPT !.pc = "running"]
  <2>1. v \in WorkerRecs(bPlan.plan) /\ v.pc = "running" /\ v.job = wk[w].job
    BY <1>3 DEF WorkerRecs
  <2>2. Step(w, v)
    BY <1>5
  <2> HIDE DEF v
  <2>3. wk'[w] = v
    BY <2>1, <2>2, WorkerMoves
  <2>4. Busy(w)'
    BY <2>1, <2>3 DEF Busy
  <2>5. /\ Asked' /\ Accounted' /\ Owned' /\ PanelInv'
        /\ bQueue' \in SUBSET bPlan.plan.jobs /\ wk' \in [Workers -> WorkerRecs(bPlan.plan)]
        /\ wk'[w] = v /\ \A u \in Workers : u # w => wk'[u] = wk[u]
    BY <1>1, <1>2, <2>1, <2>2, <2>4, HandsKeep
  <2>6. bLate \in Nat /\ bHalt.level \in BOOLEAN /\ bHalt.all = FALSE /\ bPlan.halt \in BOOLEAN
    BY <1>2 DEF BatchTypes, Halting, Asked
  <2>7. bLate' = IF bHalt.level THEN bLate + 1 ELSE bLate
    BY <1>5, <2>6 DEF Halting
  <2>8. BatchTypes'
    <3>1. bLate' \in Nat
      BY <2>6, <2>7
    <3> QED BY <1>1, <2>5, <3>1 DEF BatchTypes
  <2>9. QuarantineSeen => QuarantineSeen'
    BY <1>1, <2>5 DEF QuarantineSeen
  <2>10. \A u \in Workers : u > bPlan.par => wk'[u].pc = "off"
    BY <1>1, <2>5 DEF Halting
  <2>11. ASSUME bHalt.level
         PROVE  bLate' + Cardinality(Reserving') <= bPlan.par - 1 /\ bLate' <= bPlan.par - 1
    <3>1. Reserving' = Reserving \ {w} /\ w \in Reserving
      BY <1>1, <2>1, <2>5 DEF Reserving
    <3>2. IsFiniteSet(Reserving)
      BY ReservingFinite
    <3>3. Cardinality(Reserving) \in Nat /\ Cardinality(Reserving') = Cardinality(Reserving) - 1
      BY <3>1, <3>2, FS_CardinalityType, FS_RemoveElement
    <3>4. IsFiniteSet(Reserving') /\ Cardinality(Reserving') \in Nat
      BY <3>1, <3>2, FS_Subset, FS_CardinalityType
    <3>5. bLate + Cardinality(Reserving) <= bPlan.par - 1 /\ bPlan.par \in Nat
      BY <1>2, <2>11 DEF Halting, Asked, Workers
    <3>6. bLate' = bLate + 1
      BY <2>7, <2>11
    <3> QED BY <2>6, <3>3, <3>4, <3>5, <3>6
  <2>12. Halting'
    <3>1. /\ ~bHalt.all /\ (~bPlan.halt => ~bHalt.level) /\ (~bHalt.level => bLate = 0)
          /\ bLate <= bPlan.par - 1 /\ (bHalt.level => QuarantineSeen)
      BY <1>2 DEF Halting
    <3>2. ~bHalt.level => bLate' = 0 /\ bLate' <= bPlan.par - 1
      BY <2>7, <3>1
    <3>3. ~bPlan.halt => bLate' = 0
      BY <3>1, <3>2
    <3> QED BY <1>1, <1>2, <2>9, <2>10, <2>11, <3>1, <3>2, <3>3 DEF Halting
  <2> QED BY <2>5, <2>8, <2>12
<1> QED BY <1>4, <1>5 DEF Launch

(* A job ends; a first quarantine sets the switch while its own worker is  *)
(* not among those that may still launch.                                  *)
LEMMA FinishKeeps ==
  ASSUME BatchInv, NEW w \in Workers, Finish(w)
  PROVE  BatchInv'
<1> USE DEF BatchInv
<1>1. wk[w].pc = "running" /\ UNCHANGED <<bPlan, bPc, bLevels, bQueue, bRes, bLate, pn>>
  BY DEF Finish
<1>2. Busy(w) /\ bPc = "run"
  BY <1>1 DEF Busy, Owned
<1>3. wk[w] \in WorkerRecs(bPlan.plan) /\ bHalt \in [level : BOOLEAN, all : BOOLEAN] /\ bLate \in Nat
  BY DEF BatchTypes
<1>4. PICK st \in Outcomes :
        /\ Step(w, [wk[w] EXCEPT !.pc = "send", !.st = st])
        /\ bHalt' = [bHalt EXCEPT !.level = @ \/ (bPlan.halt /\ st = "QUARANTINED")]
  BY DEF Finish
<1> DEFINE v == [wk[w] EXCEPT !.pc = "send", !.st = st]
           now == bHalt.level \/ (bPlan.halt /\ st = "QUARANTINED")
<1>5. v \in WorkerRecs(bPlan.plan) /\ v.pc = "send" /\ v.job = wk[w].job /\ v.st = st
  BY <1>3 DEF WorkerRecs, JobStatuses
<1>6. Step(w, v)
  BY <1>4
<1>7. bHalt' \in [level : BOOLEAN, all : BOOLEAN] /\ (bHalt'.level <=> now) /\ bHalt'.all = bHalt.all
  <2>1. now \in BOOLEAN
    BY <1>3
  <2>2. bHalt' = [bHalt EXCEPT !.level = now]
    BY <1>4
  <2> HIDE DEF now
  <2> QED BY <1>3, <2>1, <2>2
<1> HIDE DEF v
<1>8. wk'[w] = v
  BY <1>5, <1>6, WorkerMoves
<1>9. Busy(w)'
  BY <1>5, <1>8 DEF Busy
<1>10. /\ Asked' /\ Accounted' /\ Owned' /\ PanelInv'
       /\ bQueue' \in SUBSET bPlan.plan.jobs /\ wk' \in [Workers -> WorkerRecs(bPlan.plan)]
       /\ wk'[w] = v /\ \A u \in Workers : u # w => wk'[u] = wk[u]
  BY <1>1, <1>2, <1>5, <1>6, <1>9, HandsKeep
<1>11. BatchTypes'
  BY <1>1, <1>7, <1>10 DEF BatchTypes
<1>12. /\ ~bHalt.all /\ (~bPlan.halt => ~bHalt.level /\ bLate = 0) /\ (~bHalt.level => bLate = 0)
       /\ bLate <= bPlan.par - 1 /\ (bHalt.level => QuarantineSeen)
       /\ (bHalt.level => bLate + Cardinality(Reserving) <= bPlan.par - 1)
       /\ bPlan.par \in Nat /\ w <= bPlan.par
  BY <1>1, <1>2 DEF Halting, Asked, Workers
<1>13. Reserving' = Reserving
  BY <1>1, <1>5, <1>10 DEF Reserving
<1>14. \A u \in Workers : u > bPlan.par => wk'[u].pc = "off"
  BY <1>1, <1>10 DEF Halting
<1>15. now => QuarantineSeen'
  <2>1. CASE bHalt.level
    <3>1. QuarantineSeen
      BY <1>12, <2>1
    <3> QED BY <1>1, <1>10, <3>1 DEF QuarantineSeen
  <2>2. CASE st = "QUARANTINED"
    BY <1>5, <1>10, <2>2 DEF QuarantineSeen
  <2> QED BY <2>1, <2>2
<1>16. now => bLate + Cardinality(Reserving') <= bPlan.par - 1
  <2>1. CASE bHalt.level
    BY <1>12, <1>13, <2>1
  <2>2. CASE ~bHalt.level
    <3> DEFINE P == 1..bPlan.par
    <3>1. Reserving \subseteq P \ {w} /\ w \in P
      BY <1>1, <1>12 DEF Reserving, Workers, Halting
    <3>2. IsFiniteSet(P) /\ Cardinality(P) = bPlan.par
      <4>1. bPlan.par \in Nat
        BY <1>12
      <4> HIDE DEF P
      <4>2. IsFiniteSet(P) /\ Cardinality(P) = IF 1 > bPlan.par THEN 0 ELSE bPlan.par - 1 + 1
        BY <4>1, FS_Interval DEF P
      <4> QED BY <4>1, <4>2
    <3> HIDE DEF P
    <3>3. IsFiniteSet(P \ {w}) /\ Cardinality(P \ {w}) = bPlan.par - 1
      BY <3>1, <3>2, FS_RemoveElement
    <3>4. Cardinality(Reserving) <= bPlan.par - 1 /\ Cardinality(Reserving) \in Nat
      BY <3>1, <3>3, FS_Subset, FS_CardinalityType
    <3> QED BY <1>12, <1>13, <2>2, <3>4
  <2> QED BY <2>1, <2>2
<1>17. Halting'
  <2> HIDE DEF now
  <2>1. ~bPlan.halt => ~now
    BY <1>12 DEF now
  <2>2. ~now => bLate = 0
    BY <1>12 DEF now
  <2> QED BY <1>1, <1>2, <1>7, <1>12, <1>14, <1>15, <1>16, <2>1, <2>2 DEF Halting
<1> QED BY <1>10, <1>11, <1>17

-----------------------------------------------------------------------------
(* The theorems                                                            *)

(* Where every job of a plan is, in every interleaving of the workers: in  *)
(* a later level, in the channel, in one worker's hands, or counted once.  *)
THEOREM BatchInvariance == BatchSpec => []BatchInv
<1>1. BatchInv /\ [BatchNext]_bVars => BatchInv'
  <2> SUFFICES ASSUME BatchInv, [BatchNext]_bVars PROVE BatchInv'
    OBVIOUS
  <2>1. CASE MemberTimesOut
    BY <2>1, MemberKeeps DEF MemberTimesOut, JobStatuses
  <2>2. CASE MemberSkipped
    BY <2>2, MemberKeeps DEF MemberSkipped, JobStatuses
  <2>3. CASE MemberRuns
    BY <2>3, MemberKeeps DEF MemberRuns, JobStatuses
  <2>4. CASE BatchStep
    BY <2>1, <2>2, <2>3, <2>4, ValidateKeeps, SkipKeeps, OpenKeeps, OverKeeps, CloseKeeps, AssignKeeps,
       MembersOverKeeps DEF BatchStep
  <2>5. ASSUME NEW w \in Workers, WorkerStep(w) PROVE BatchInv'
    BY <2>5, ReceiveKeeps, CheckHaltKeeps, LaunchKeeps, FinishKeeps, SendKeeps, LeaveKeeps DEF WorkerStep
  <2>6. CASE UNCHANGED bVars
    BY <2>6 DEF bVars, BatchInv, Asked, BatchTypes, Accounted, Unsettled, Held, Owned, Busy, Halting, Reserving,
       QuarantineSeen, PanelInv, Quorate, Approved, OnlyMembersFirst, PanelSound, IsPanel
  <2> QED BY <2>4, <2>5, <2>6 DEF BatchNext
<1> QED BY <1>1, BatchBegins, PTL DEF BatchSpec

(* A plan that ran to its end has exactly one result for every job, no job *)
(* ever has two, and the levels put each after what it depends on: for any *)
(* plans, panels, numbers of workers and token ceiling.                    *)
THEOREM EveryJobHasOneResult == BatchSpec => []OneResult
<1>1. BatchInv => OneResult
  BY DEF BatchInv, Accounted, OneResult
<1> QED BY <1>1, BatchInvariance, PTL

(* Once a quarantine is known fewer jobs are launched than there are       *)
(* workers, in this level and in all that follow.                          *)
THEOREM HaltIsBounded == BatchSpec => []HaltBounds
<1>1. BatchInv => HaltBounds
  BY DEF BatchInv, Halting, HaltBounds
<1> QED BY <1>1, BatchInvariance, PTL

(* A comparison consumes the approved members' artifacts and no other's,   *)
(* and a panel whose first level is its members compares at least two and  *)
(* names itself degraded when quorum or diversity was missed.              *)
THEOREM PanelsAreSound == BatchSpec => []PanelSound
<1>1. BatchInv => PanelSound
  <2> SUFFICES ASSUME BatchInv PROVE PanelSound
    OBVIOUS
  <2>1. CASE IsPanel /\ bPc \in {"level", "run"}
    BY <2>1 DEF BatchInv, PanelInv, Quorate, PanelSound
  <2>2. CASE IsPanel /\ bPc \in {"assign", "member"}
    BY <2>2 DEF BatchInv, PanelInv, PanelSound
  <2>3. CASE ~IsPanel \/ bPc \in {"validate", "refused"}
    BY <2>3 DEF PanelSound
  <2>4. CASE IsPanel /\ bPc \in {"done", "failed"}
    BY <2>4 DEF BatchInv, PanelInv
  <2> QED BY <2>1, <2>2, <2>3, <2>4 DEF BatchInv, BatchTypes
<1> QED BY <1>1, BatchInvariance, PTL

-----------------------------------------------------------------------------
(* The docker launch                                                       *)

(* A launch alone, without the fairness its ending needs.                  *)
DockerSpec == DockerInit /\ [][DockerNext]_dkVars

(* The steps before anything is asked of the daemon in the container's     *)
(* name, and those after the launch is given up or proved over.            *)
BeforeLaunch == {"prepare", "provision", "seed", "copy", "launch"}
AfterProof == {"observe", "verifyVolume", "destroy", "abort", "removeVolume", "abortDestroy", "done", "aborted"}
AfterClient == {"waitClient", "prove"} \cup AfterProof
DockerSteps == BeforeLaunch \cup {"verify", "select", "stop", "killClient"} \cup AfterClient
YesNo == {"yes", "no"}

Containers ==
    [st : {"none", "created", "running", "exited"}, who : {"own", "stale"}, image : {"ok", "other"}, hard : {"ok", "weak"}]
Clients == [st : {"no", "run", "dying", "ok", "failed"}, req : {"none", "create", "start"}]
Answered ==
    [code : {"zero", "nonzero", "minus"}, gone : {"yes", "no", "early"},
     err : {"none", "provision", "volume", "launch", "mismatch", "notObserved", "timeout", "extinction"},
     obs : {"none", "plain", "hardened", "stale", "error"}]
Volumes == [st : {"none", "partial", "full", "changed"}, seed : YesNo, reader : YesNo]

DockerTypes ==
    /\ dkPc \in DockerSteps
    /\ cont \in Containers /\ cli \in Clients /\ dkRes \in Answered /\ vol \in Volumes
    /\ tree \in {"none", "there", "removed"} /\ dkFault \in YesNo

(* One create request is sent, by a client that is told to stop before the *)
(* run ends; a container of this launch is the answer to it.               *)
OneRequest ==
    /\ dkPc \in BeforeLaunch => cli = [st |-> "no", req |-> "none"]
    /\ cli.st = "no" => cli.req = "none" /\ ~(Exists /\ cont.who = "own")
    /\ dkPc \in AfterClient => cli.st # "run"
    /\ Exists /\ cont.who = "own" => cli.req # "create"
    /\ cli.req = "start" => ~Exists \/ cont.who = "own"

(* What the executor's answers and the observation rest on.                *)
Answers ==
    /\ dkRes.gone # "no" => dkPc \in AfterProof
    /\ dkRes.gone = "yes" => cli.req = "none" /\ cont.st # "running"
    /\ dkPc = "select" => Exists /\ Mine
    /\ dkRes.obs # "none" => dkPc \in AfterProof \ {"observe"}
    /\ dkPc \in {"stop", "killClient", "waitClient"} => dkRes.err # "none"
    /\ dkPc \in {"prove", "observe"} /\ dkRes.err = "none" => Exists /\ Mine
    /\ dkRes.obs = "hardened" =>
         cli.req # "create" /\ (Exists => cont.who = "own" /\ cont.hard = "ok" /\ (dkRes.err = "none" => Mine))
    /\ dkRes.obs = "stale" => dkRes.err # "none" /\ (Exists /\ cont.who = "stale" => cont.hard = "ok")

(* Once the worktree is gone no container of this launch can start.        *)
Outlived ==
    tree = "removed" =>
      /\ dkPc \in {"removeVolume", "done", "aborted"}
      /\ cont.st # "running"
      /\ cont.st = "created" => cli.req # "start"

(* Who still holds the volume when no removal has failed.                  *)
Volume ==
    /\ dkPc \in {"prepare", "provision"} => vol = [st |-> "none", seed |-> "no", reader |-> "no"]
    /\ dkPc = "seed" => vol.seed = "no" /\ vol.reader = "no"
    /\ dkPc = "copy" => vol.reader = "no"
    /\ dkPc \in {"seed", "copy", "launch"} => vol.reader = "no"
    /\ dkFault = "no" /\ dkRes.err = "provision" => vol.st = "none"
    /\ dkRes.err = "provision" => dkPc \in {"destroy", "done"}
    /\ dkFault = "no" /\ dkPc \in {"removeVolume", "done"} => tree = "removed"
    /\ dkFault = "no" /\ dkPc \in {"removeVolume", "done"} /\ Exists => cont.who = "own"
    /\ dkFault = "no" /\ dkPc = "done" /\ ~Exists => vol.st = "none"

DockerInv == DockerTypes /\ OneRequest /\ Answers /\ Outlived /\ Volume

-----------------------------------------------------------------------------

(* A launch starts with no request, no volume and no worktree.             *)
LEMMA DockerInitInv == DockerInit => DockerInv
BY DEF DockerInit, DockerInv, DockerTypes, DockerSteps, Containers, Clients, Answered, Volumes, YesNo,
  OneRequest, Answers, Outlived, Volume, BeforeLaunch, AfterClient, AfterProof, NoCont, Exists

(* The removals of RemoveConsumedVolume leave a volume a volume.           *)
LEMMA VolumeTypes ==
  \A v \in Volumes, f \in BOOLEAN : VolumeRm(v, f) \in Volumes /\ SeedRm(v, f) \in Volumes /\ ReaderRm(v, f) \in Volumes
BY DEF VolumeRm, SeedRm, ReaderRm, Volumes, YesNo

(* No step of the controller, of the daemon or of a replayed operation     *)
(* breaks the invariant.  A request outstanding after its client was told  *)
(* to stop is a create request, so it makes a container that never starts. *)
LEMMA DockerStep == DockerInv /\ [DockerNext]_dkVars => DockerInv'
<1> SUFFICES ASSUME DockerInv, [DockerNext]_dkVars PROVE DockerInv'
  OBVIOUS
<1> USE DEF DockerInv, DockerTypes, DockerSteps, Containers, Clients, Answered, Volumes, YesNo, OneRequest,
  Answers, Outlived, Volume, BeforeLaunch, AfterClient, AfterProof, NoCont, Exists, To, Only, Faulted, Outside, Mine
<1>1. CASE Prepare
  BY <1>1 DEF Prepare
<1>2. CASE ProvisionCreates
  BY <1>2 DEF ProvisionCreates
<1>3. CASE ProvisionSeeds
  BY <1>3 DEF ProvisionSeeds, VolumeRm
<1>4. CASE ProvisionCopies
  BY <1>4 DEF ProvisionCopies, SeedRm, VolumeRm, ProvisionCleanup
<1>5. CASE VerifyConsumedVolume
  BY <1>5 DEF VerifyConsumedVolume
<1>6. CASE LaunchRefused
  BY <1>6 DEF LaunchRefused
<1>7. CASE LaunchStarts
  BY <1>7 DEF LaunchStarts
<1>8. CASE VerifyPasses
  BY <1>8 DEF VerifyPasses
<1>9. CASE VerifyFails
  <2>1. DockerTypes'
    <3>1. dkRes' \in Answered
      BY <1>9 DEF VerifyFails
    <3> QED BY <3>1, <1>9 DEF VerifyFails
  <2>2. OneRequest'
    BY <1>9 DEF VerifyFails
  <2>3. Answers'
    BY <1>9 DEF VerifyFails
  <2>4. Outlived'
    BY <1>9 DEF VerifyFails
  <2>5. Volume'
    BY <1>9 DEF VerifyFails
  <2> QED BY <2>1, <2>2, <2>3, <2>4, <2>5
<1>10. CASE DockerDone
  BY <1>10 DEF DockerDone, ClientOver
<1>11. CASE DockerTimeout
  <2>1. DockerTypes'
    <3>1. dkRes' \in Answered
      BY <1>11 DEF DockerTimeout
    <3> QED BY <3>1, <1>11 DEF DockerTimeout
  <2>2. OneRequest'
    BY <1>11 DEF DockerTimeout
  <2>3. Answers'
    BY <1>11 DEF DockerTimeout
  <2>4. Outlived'
    BY <1>11 DEF DockerTimeout
  <2>5. Volume'
    BY <1>11 DEF DockerTimeout
  <2> QED BY <2>1, <2>2, <2>3, <2>4, <2>5
<1>12. CASE ForceStop
  BY <1>12 DEF ForceStop
<1>13. CASE KillClient
  BY <1>13 DEF KillClient
<1>14. CASE WaitClient
  <2>1. dkPc = "waitClient" /\ dkPc' = "prove" /\ UNCHANGED <<cont, cli, dkRes, vol, tree, dkFault>>
    BY <1>14 DEF WaitClient
  <2>2. dkRes.err # "none"
    BY <2>1
  <2> QED BY <2>1, <2>2
<1>15. CASE ProveExtinction
  <2>1. DockerTypes'
    <3>1. dkRes' \in Answered
      BY <1>15 DEF ProveExtinction, Gone
    <3> QED BY <3>1, <1>15 DEF ProveExtinction
  <2>2. OneRequest'
    BY <1>15 DEF ProveExtinction, Gone
  <2>3. Answers'
    BY <1>15 DEF ProveExtinction, Gone
  <2>4. Outlived'
    BY <1>15 DEF ProveExtinction, Gone
  <2>5. Volume'
    BY <1>15 DEF ProveExtinction, Gone
  <2> QED BY <2>1, <2>2, <2>3, <2>4, <2>5
<1>16. CASE Observe
  BY <1>16 DEF Observe, Vouched
<1>17. CASE Destroy
  BY <1>17 DEF Destroy, DestroyBody
<1>18. CASE RemoveVolume
  <2>1. DockerTypes'
    <3>1. vol' \in Volumes
      <4>1. PICK f \in BOOLEAN : vol' = VolumeRm(ReaderRm(SeedRm(vol, f), f), f)
        BY <1>18 DEF RemoveVolume, RemoveConsumedVolume
      <4>2. SeedRm(vol, f) \in Volumes
        BY VolumeTypes
      <4>3. ReaderRm(SeedRm(vol, f), f) \in Volumes
        BY <4>2, VolumeTypes
      <4> QED BY <4>1, <4>3, VolumeTypes
    <3>2. dkFault' \in YesNo
      BY <1>18 DEF RemoveVolume, RemoveConsumedVolume
    <3> QED BY <3>1, <3>2, <1>18 DEF RemoveVolume, RemoveConsumedVolume
  <2>2. OneRequest'
    BY <1>18 DEF RemoveVolume, RemoveConsumedVolume, VolumeRm, SeedRm, ReaderRm
  <2>3. Answers'
    BY <1>18 DEF RemoveVolume, RemoveConsumedVolume, VolumeRm, SeedRm, ReaderRm
  <2>4. Outlived'
    BY <1>18 DEF RemoveVolume, RemoveConsumedVolume, VolumeRm, SeedRm, ReaderRm
  <2>5. Volume'
    BY <1>18 DEF RemoveVolume, RemoveConsumedVolume, VolumeRm, SeedRm, ReaderRm
  <2> QED BY <2>1, <2>2, <2>3, <2>4, <2>5
<1>19. CASE AbortVolume
  <2>1. DockerTypes'
    <3>1. vol' \in Volumes
      <4>1. PICK f \in BOOLEAN : vol' = VolumeRm(ReaderRm(SeedRm(vol, f), f), f)
        BY <1>19 DEF AbortVolume, RemoveConsumedVolume
      <4>2. SeedRm(vol, f) \in Volumes
        BY VolumeTypes
      <4>3. ReaderRm(SeedRm(vol, f), f) \in Volumes
        BY <4>2, VolumeTypes
      <4> QED BY <4>1, <4>3, VolumeTypes
    <3>2. dkFault' \in YesNo
      BY <1>19 DEF AbortVolume, RemoveConsumedVolume
    <3> QED BY <3>1, <3>2, <1>19 DEF AbortVolume, RemoveConsumedVolume
  <2>2. OneRequest'
    BY <1>19 DEF AbortVolume, RemoveConsumedVolume, VolumeRm, SeedRm, ReaderRm
  <2>3. Answers'
    BY <1>19 DEF AbortVolume, RemoveConsumedVolume, VolumeRm, SeedRm, ReaderRm
  <2>4. Outlived'
    BY <1>19 DEF AbortVolume, RemoveConsumedVolume, VolumeRm, SeedRm, ReaderRm
  <2>5. Volume'
    BY <1>19 DEF AbortVolume, RemoveConsumedVolume, VolumeRm, SeedRm, ReaderRm
  <2> QED BY <2>1, <2>2, <2>3, <2>4, <2>5
<1>20. CASE AbortDestroy
  BY <1>20 DEF AbortDestroy, DestroyBody
<1>21. CASE ReplayDestroy
  BY <1>21 DEF ReplayDestroy, DestroyBody
<1>22. CASE DaemonCreates
  <2>1. CASE Exists
    <3>1. cont' = cont /\ dkPc' = dkPc /\ dkRes' = dkRes /\ vol' = vol /\ tree' = tree /\ dkFault' = dkFault
      BY <1>22, <2>1 DEF DaemonCreates
    <3>2. cli' \in Clients /\ cli'.req = "none" /\ cli.req = "create" /\ (cli'.st = cli.st \/ (cli.st = "run" /\ cli'.st = "failed"))
      BY <1>22, <2>1 DEF DaemonCreates
    <3>3. cli.st # "no"
      BY <3>2
    <3> QED BY <2>1, <3>1, <3>2, <3>3
  <2>2. CASE ~Exists
    <3>1. dkPc' = dkPc /\ dkRes' = dkRes /\ vol' = vol /\ tree' = tree /\ dkFault' = dkFault
      BY <1>22, <2>2 DEF DaemonCreates
    <3>2. PICK i \in {"ok", "other"}, h \in {"ok", "weak"} : cont' = [st |-> "created", who |-> "own", image |-> i, hard |-> h]
      BY <1>22, <2>2 DEF DaemonCreates
    <3>3. cont' \in Containers /\ cont'.st = "created" /\ cont'.who = "own"
      BY <3>2
    <3>4. cli' = [cli EXCEPT !.req = IF cli.st = "run" THEN "start" ELSE "none"] /\ cli.req = "create"
      BY <1>22, <2>2 DEF DaemonCreates
    <3>5. cli' \in Clients /\ cli'.st = cli.st /\ cli'.req = IF cli.st = "run" THEN "start" ELSE "none"
      BY <3>4
    <3>6. cli.st # "no" /\ dkPc # "select" /\ dkRes.gone # "yes" /\ dkRes.obs # "hardened"
      BY <2>2, <3>4
    <3>7. DockerTypes' /\ OneRequest'
      BY <2>2, <3>1, <3>3, <3>5, <3>6
    <3>8. Answers' /\ Outlived' /\ Volume'
      BY <2>2, <3>1, <3>3, <3>5, <3>6
    <3> QED BY <3>7, <3>8
  <2> QED BY <2>1, <2>2
<1>23. CASE DaemonStarts
  <2>1. DockerTypes'
    <3>1. cont' \in Containers
      BY <1>23 DEF DaemonStarts
    <3>2. cli' \in Clients
      BY <1>23 DEF DaemonStarts
    <3> QED BY <3>1, <3>2, <1>23 DEF DaemonStarts
  <2>2. OneRequest'
    BY <1>23 DEF DaemonStarts
  <2>3. Answers'
    BY <1>23 DEF DaemonStarts
  <2>4. Outlived'
    BY <1>23 DEF DaemonStarts
  <2>5. Volume'
    BY <1>23 DEF DaemonStarts
  <2> QED BY <2>1, <2>2, <2>3, <2>4, <2>5
<1>24. CASE ContainerExits
  BY <1>24 DEF ContainerExits
<1>25. CASE ClientExits
  BY <1>25 DEF ClientExits
<1>26. CASE Tamper
  BY <1>26 DEF Tamper
<1>27. CASE UNCHANGED dkVars
  BY <1>27 DEF dkVars
<1> QED
  BY <1>1, <1>2, <1>3, <1>4, <1>5, <1>6, <1>7, <1>8, <1>9, <1>10, <1>11, <1>12, <1>13, <1>14,
    <1>15, <1>16, <1>17, <1>18, <1>19, <1>20, <1>21, <1>22, <1>23, <1>24, <1>25, <1>26, <1>27
  DEF DockerNext, Controller, Daemon

(* Whatever the daemon does late, the invariant of a container launch      *)
(* holds.                                                                  *)
THEOREM DockerInvariance == DockerSpec => []DockerInv
<1>1. DockerInit => DockerInv
  BY DockerInitInv
<1>2. DockerInv /\ [DockerNext]_dkVars => DockerInv'
  BY DockerStep
<1> QED BY <1>1, <1>2, PTL DEF DockerSpec

(* proveContainerExtinction, verifyStartedContainer, Observe and the        *)
(* removals: a launch vouches for no running container and for no weaker   *)
(* hardening; a launch without an error waited for, and is vouched for by, *)
(* its own container alone; no worktree goes under a running container; no *)
(* volume stays when nothing failed.                                       *)
THEOREM ContainersAreSound == DockerSpec => []ContainerSound
<1>1. DockerInv => ContainerSound
  BY DEF DockerInv, DockerTypes, OneRequest, Answers, Outlived, Volume, ContainerSound, ContainerExtinct, OwnContainer,
    HardenedIsApplied, WorkspaceOutlives, VolumeReleased, Exists
<1> QED BY <1>1, DockerInvariance, PTL
============================================================================
