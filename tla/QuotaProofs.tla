----------------------------- MODULE QuotaProofs -----------------------------
(***************************************************************************)
(* The books of the quota ledger for any number of runs, any windows,      *)
(* limits and time to live.  BooksInv is inductive.                        *)
(***************************************************************************)
EXTENDS Quota, Sums

-----------------------------------------------------------------------------
(* The invariant                                                           *)

Windows == [limit : Nat, reset : Nat, measured : Nat, reserved : Nat]
States == {"none", "open", "released", "settled"}
Reservations == [state : States, made : Nat, expires : Nat, closed : Nat, measured : Nat]

(* The steps before a run's reservation is booked.                         *)
Before == {"start", "route", "reserve", "expire", "rollover"}
After == {"working", "refused", "unsettled", "hint", "done", "dead"}

(* The two tables: a window exists once it has a reset time, what is       *)
(* charged is settled, and the books are sound.                            *)
Ledger ==
  /\ win \in [Periods -> Windows] /\ resv \in [Runs -> Reservations]
  /\ \A p \in Periods : Present(p) => win[p].reset >= 1
  /\ \A r \in Runs : resv[r].state \in {"none", "open"} => resv[r].measured = 0
  /\ BooksSound

(* The processes.                                                          *)
Processes ==
  /\ clock \in 0..MaxTime
  /\ pc \in [Runs -> Before \cup After] /\ at \in [Runs -> Nat]
  /\ ids \in [Runs -> SUBSET Runs] /\ keys \in [Runs -> SUBSET Periods]
  /\ queued \in [Runs -> SUBSET {"settle", "release"}]

(* Who has not booked yet has no reservation, and nobody gets that far     *)
(* before the configured windows are there.                                *)
Order ==
  /\ \A r \in Runs : pc[r] \in Before => resv[r].state = "none"
  /\ \A r \in Runs, p \in Configured : pc[r] # "start" => Present(p)

BooksInv == Ledger /\ Processes /\ Order

(* What a step that books nothing leaves alone.                            *)
Kept ==
  /\ \A r \in Runs : resv[r].state = "none" => resv'[r].state = "none"
  /\ \A p \in Periods : Present(p) => win'[p] # NoWindow

-----------------------------------------------------------------------------
(* The books                                                               *)

OpenRuns == {r \in Runs : Open(r)}

(* The counts are natural numbers.                                         *)
LEMMA CountType ==
  /\ IsFiniteSet(OpenRuns) /\ Cardinality(OpenRuns) \in Nat
  /\ OpenUsage = Usage * Cardinality(OpenRuns) /\ OpenUsage \in Nat
<1>1. IsFiniteSet(OpenRuns) /\ Cardinality(OpenRuns) \in Nat
  <2>1. OpenRuns \subseteq Runs
    BY DEF OpenRuns
  <2> QED BY <2>1, QuotaAssumption, FS_Subset, FS_CardinalityType
<1>2. OpenUsage = Usage * Cardinality(OpenRuns)
  BY DEF OpenUsage, OpenRuns
<1> DEFINE n == Cardinality(OpenRuns)
<1> HIDE DEF n
<1>3. n \in Nat => Usage * n \in Nat
  BY QuotaAssumption
<1> QED BY <1>1, <1>2, <1>3 DEF n

(* A reservation is closed: its usage leaves every window, and what it is  *)
(* charged is added.                                                       *)
LEMMA Closing ==
  ASSUME Ledger, NEW x \in Runs, Open(x), NEW charge \in Nat,
         rolled' = rolled, win' \in [Periods -> Windows], resv' \in [Runs -> Reservations],
         resv'[x].state \in {"released", "settled"}, resv'[x].measured = charge,
         \A r \in Runs \ {x} : resv'[r] = resv[r],
         \A p \in Periods :
           IF Present(p) THEN /\ win'[p].reset = win[p].reset
                              /\ win'[p].reserved = Lower(win[p].reserved)
                              /\ win'[p].measured = win[p].measured + charge
           ELSE win'[p] = win[p]
  PROVE  Ledger' /\ Kept
<1> DEFINE n == Cardinality(OpenRuns)
<1>1. OpenRuns' = OpenRuns \ {x} /\ x \in OpenRuns
  BY DEF OpenRuns, Open
<1>2. n \in Nat /\ n >= 1 /\ Cardinality(OpenRuns') = n - 1 /\ IsFiniteSet(OpenRuns')
  BY <1>1, CountType, FS_RemoveElement, FS_EmptySet
<1> DEFINE k == Usage * (n - 1)
<1>3. OpenUsage = k + Usage /\ OpenUsage' = k /\ k \in Nat
  <2>1. OpenUsage = Usage * n
    BY CountType
  <2>2. OpenUsage' = Usage * (n - 1)
    BY <1>2 DEF OpenUsage, OpenRuns
  <2> HIDE DEF n
  <2>3. Usage * n = Usage * (n - 1) + Usage /\ Usage * (n - 1) \in Nat
    BY <1>2, QuotaAssumption
  <2> QED BY <2>1, <2>2, <2>3
<1> HIDE DEF k, n
<1>4. SumFunctionOnSet(Charged', Runs) = SumFunctionOnSet(Charged, Runs) + charge
      /\ SumFunctionOnSet(Charged, Runs) \in Nat
  <2>1. Charged \in [Runs -> Nat] /\ Charged' \in [Runs -> Nat]
    BY DEF Ledger, Reservations, Charged
  <2>2. \A y \in Runs \ {x} : Charged[y] = Charged'[y]
    BY DEF Charged
  <2>3. Charged[x] = 0 /\ Charged'[x] = charge
    BY DEF Charged, Ledger, Open
  <2>4. SumFunctionOnSet(Charged, Runs) + Charged'[x] = SumFunctionOnSet(Charged', Runs) + Charged[x]
    BY <2>1, <2>2, QuotaAssumption, SumUpdate
  <2>5. SumFunctionOnSet(Charged, Runs) \in Nat /\ SumFunctionOnSet(Charged', Runs) \in Nat
    BY <2>1, QuotaAssumption, SumNat
  <2> QED BY <2>3, <2>4, <2>5
<1>5. /\ \A p \in Periods : Present(p) => win[p].reset >= 1
      /\ win \in [Periods -> Windows] /\ ReservedHasOwner /\ BooksBalance
  BY DEF Ledger, BooksSound
<1>6. \A p \in Periods : (Present(p) <=> Present(p)') /\ (Present(p)' => win'[p].reset >= 1)
  <2> SUFFICES ASSUME NEW p \in Periods
               PROVE  (Present(p) <=> Present(p)') /\ (Present(p)' => win'[p].reset >= 1)
    OBVIOUS
  <2>1. CASE Present(p)
    BY <1>5, <2>1 DEF Present, NoWindow
  <2>2. CASE ~Present(p)
    BY <2>2 DEF Present
  <2> QED BY <2>1, <2>2
<1>7. \A m \in Nat : m <= k + Usage => Lower(m) <= k
  BY <1>3, QuotaAssumption DEF Lower
<1>8. Lower(k + Usage) = k
  BY <1>3, QuotaAssumption DEF Lower
<1>9. ReservedHasOwner'
  <2> SUFFICES ASSUME NEW p \in Periods PROVE win'[p].reserved <= k
    BY <1>3 DEF ReservedHasOwner
  <2>1. win[p].reserved \in Nat /\ win[p].reserved <= k + Usage
    BY <1>3, <1>5 DEF ReservedHasOwner, Windows
  <2>2. CASE Present(p)
    BY <1>7, <2>1, <2>2
  <2>3. CASE ~Present(p)
    BY <1>3, <2>3 DEF Present, NoWindow
  <2> QED BY <2>2, <2>3
<1>10. BooksBalance'
  <2> SUFFICES ASSUME NEW p \in Configured, Present(p)', p \notin rolled
               PROVE  /\ win'[p].reserved = k
                      /\ win'[p].measured = SumFunctionOnSet(Charged', Runs)
    BY <1>3 DEF BooksBalance
  <2>1. p \in Periods /\ Present(p)
    BY <1>6, QuotaAssumption
  <2>2. win[p].reserved = k + Usage /\ win[p].measured = SumFunctionOnSet(Charged, Runs)
    BY <1>3, <1>5, <2>1 DEF BooksBalance
  <2> QED BY <1>4, <1>8, <2>1, <2>2
<1>11. Kept
  BY <1>6 DEF Kept, Present, Open
<1>12. \A r \in Runs : resv'[r].state \in {"none", "open"} => resv'[r].measured = 0
  BY DEF Ledger
<1> QED BY <1>6, <1>9, <1>10, <1>11, <1>12 DEF Ledger, BooksSound

(* Release closes an open reservation, or does nothing.                    *)
LEMMA ReleaseEffect ==
  ASSUME Ledger, NEW x \in Runs, NEW now \in Nat, Release(x, now), rolled' = rolled
  PROVE  Ledger' /\ Kept
<1>1. CASE Open(x)
  <2>1. /\ resv' = [resv EXCEPT ![x].state = "released", ![x].closed = now]
        /\ win' = [p \in Periods |->
                     IF Present(p) THEN [win[p] EXCEPT !.reserved = Lower(@)] ELSE win[p]]
    BY <1>1 DEF Release, Claim
  <2>2. win \in [Periods -> Windows] /\ resv \in [Runs -> Reservations] /\ resv[x].measured = 0
    BY <1>1 DEF Ledger, Open
  <2>3. ASSUME NEW w \in Windows
        PROVE  LET v == [w EXCEPT !.reserved = Lower(@)]
               IN  /\ v \in Windows /\ v.reset = w.reset /\ v.measured = w.measured
                   /\ v.reserved = Lower(w.reserved)
    <3>1. Lower(w.reserved) \in Nat
      BY QuotaAssumption DEF Lower, Windows
    <3> QED BY <3>1 DEF Windows
  <2>4. win' \in [Periods -> Windows]
        /\ \A p \in Periods :
             IF Present(p) THEN /\ win'[p].reset = win[p].reset
                                /\ win'[p].reserved = Lower(win[p].reserved)
                                /\ win'[p].measured = win[p].measured
             ELSE win'[p] = win[p]
    BY <2>1, <2>2, <2>3
  <2>5. \A p \in Periods : win[p].measured = win[p].measured + 0
    BY <2>2 DEF Windows
  <2>6. /\ resv' \in [Runs -> Reservations] /\ resv'[x].state = "released" /\ resv'[x].measured = 0
        /\ \A r \in Runs \ {x} : resv'[r] = resv[r]
    BY <2>1, <2>2 DEF Reservations, States
  <2> QED BY <1>1, <2>4, <2>5, <2>6, Closing
<1>2. CASE ~Open(x)
  BY <1>2 DEF Release, Ledger, Kept, BooksSound, ReservedHasOwner, BooksBalance, OpenUsage, Open,
     Charged, Present
<1> QED BY <1>1, <1>2

(* So does Settle, with a charge.                                          *)
LEMMA SettleEffect ==
  ASSUME Ledger, NEW x \in Runs, NEW m \in Measures, NEW now \in Nat, Settle(x, m, now),
         rolled' = rolled
  PROVE  Ledger' /\ Kept
<1> DEFINE charge == IF m = 0 THEN Usage ELSE m
<1>1. charge \in Nat
  BY QuotaAssumption
<1>2. CASE Open(x)
  <2>1. /\ resv' = [resv EXCEPT ![x].state = "settled", ![x].closed = now, ![x].measured = charge]
        /\ win' = [p \in Periods |->
                     IF Present(p) THEN [win[p] EXCEPT !.reserved = Lower(@), !.measured = @ + charge]
                     ELSE win[p]]
    BY <1>2 DEF Settle
  <2> HIDE DEF charge
  <2>2. win \in [Periods -> Windows] /\ resv \in [Runs -> Reservations]
    BY DEF Ledger
  <2>3. ASSUME NEW w \in Windows
        PROVE  LET v == [w EXCEPT !.reserved = Lower(@), !.measured = @ + charge]
               IN  /\ v \in Windows /\ v.reset = w.reset /\ v.measured = w.measured + charge
                   /\ v.reserved = Lower(w.reserved)
    <3>1. Lower(w.reserved) \in Nat /\ w.measured + charge \in Nat
      BY <1>1, QuotaAssumption DEF Lower, Windows
    <3> QED BY <3>1 DEF Windows
  <2>4. win' \in [Periods -> Windows]
        /\ \A p \in Periods :
             IF Present(p) THEN /\ win'[p].reset = win[p].reset
                                /\ win'[p].reserved = Lower(win[p].reserved)
                                /\ win'[p].measured = win[p].measured + charge
             ELSE win'[p] = win[p]
    BY <2>1, <2>2, <2>3
  <2>5. /\ resv' \in [Runs -> Reservations] /\ resv'[x].state = "settled"
        /\ resv'[x].measured = charge
        /\ \A r \in Runs \ {x} : resv'[r] = resv[r]
    BY <1>1, <2>1, <2>2 DEF Reservations, States
  <2> QED BY <1>1, <1>2, <2>4, <2>5, Closing
<1>3. CASE ~Open(x)
  BY <1>3 DEF Settle, Ledger, Kept, BooksSound, ReservedHasOwner, BooksBalance, OpenUsage, Open,
     Charged, Present
<1> QED BY <1>2, <1>3

(* A step that touches neither table.                                      *)
LEMMA QuietEffect ==
  ASSUME Ledger, UNCHANGED <<win, resv, rolled>>
  PROVE  Ledger' /\ Kept
BY DEF Ledger, Kept, BooksSound, ReservedHasOwner, BooksBalance, OpenUsage, Open, Charged, Present

(* The end of a period is never at time 0.                                 *)
LEMMA NextResetType ==
  ASSUME NEW p \in Periods, NEW now \in Nat
  PROVE  NextReset(p, now) \in Nat /\ NextReset(p, now) >= 1
<1>1. p \in Nat /\ p >= 1
  BY QuotaAssumption
<1>2. now % p \in 0..p - 1
  BY <1>1
<1> DEFINE m == now % p
<1>3. NextReset(p, now) = now - m + p
  BY DEF NextReset, WindowStart
<1> HIDE DEF m
<1>4. m \in Nat /\ m <= p - 1
  BY <1>1, <1>2 DEF m
<1> QED BY <1>1, <1>3, <1>4

(* What has a reset time is a window.                                      *)
LEMMA ResetIsPresent == \A w : w.reset >= 1 => w # NoWindow
<1>1. NoWindow.reset = 0
  BY DEF NoWindow
<1> QED BY <1>1

(* A window begins a new period with nothing in it.                        *)
LEMMA RolloverEffect ==
  ASSUME Ledger, NEW p \in Periods, NEW now \in Nat, UNCHANGED resv, rolled' = rolled \cup {p},
         win' = [win EXCEPT ![p].reset = NextReset(p, now), ![p].measured = 0, ![p].reserved = 0]
  PROVE  Ledger' /\ Kept
<1> DEFINE reset == NextReset(p, now)
<1>1. reset \in Nat /\ reset >= 1
  BY NextResetType
<1> HIDE DEF reset
<1>2. win \in [Periods -> Windows]
  BY DEF Ledger
<1>3. /\ win' \in [Periods -> Windows] /\ win'[p].reset = reset /\ win'[p].reserved = 0
      /\ \A q \in Periods \ {p} : win'[q] = win[q]
  BY <1>1, <1>2 DEF Windows, reset
<1>4. OpenUsage' = OpenUsage /\ OpenUsage \in Nat /\ Charged' = Charged
  BY CountType DEF OpenUsage, Open, Charged
<1>5. \A q \in Periods : (Present(q) => Present(q)') /\ (Present(q)' => win'[q].reset >= 1)
  <2> SUFFICES ASSUME NEW q \in Periods
               PROVE  (Present(q) => Present(q)') /\ (Present(q)' => win'[q].reset >= 1)
    OBVIOUS
  <2>1. CASE q = p
    BY <1>1, <1>3, <2>1, ResetIsPresent DEF Present
  <2>2. CASE q # p
    BY <1>3, <2>2 DEF Present, Ledger
  <2> QED BY <2>1, <2>2
<1>6. ReservedHasOwner'
  <2> SUFFICES ASSUME NEW q \in Periods PROVE win'[q].reserved <= OpenUsage
    BY <1>4 DEF ReservedHasOwner
  <2>1. CASE q = p
    BY <1>3, <1>4, <2>1
  <2>2. CASE q # p
    BY <1>3, <2>2 DEF Ledger, BooksSound, ReservedHasOwner
  <2> QED BY <2>1, <2>2
<1>7. BooksBalance'
  <2> SUFFICES ASSUME NEW q \in Configured, Present(q)', q \notin rolled \cup {p}
               PROVE  /\ win'[q].reserved = OpenUsage
                      /\ win'[q].measured = SumFunctionOnSet(Charged, Runs)
    BY <1>4 DEF BooksBalance
  <2>1. q \in Periods \ {p}
    BY QuotaAssumption
  <2> QED BY <1>3, <2>1 DEF Ledger, BooksSound, BooksBalance, Present
<1>8. Kept
  BY <1>5 DEF Kept, Present
<1> QED BY <1>3, <1>5, <1>6, <1>7, <1>8 DEF Ledger, BooksSound

(* A window gets another reset time, and perhaps a limit, or is created    *)
(* while nothing is booked.                                                *)
LEMMA ResetEffect ==
  ASSUME Ledger, UNCHANGED <<resv, rolled>>, win' \in [Periods -> Windows],
         \A p \in Periods :
           \/ win'[p] = win[p]
           \/ /\ win'[p].reset >= 1
              /\ win'[p].measured = win[p].measured /\ win'[p].reserved = win[p].reserved,
         \A p \in Configured : Present(p) \/ (OpenUsage = 0 /\ SumFunctionOnSet(Charged, Runs) = 0)
  PROVE  Ledger' /\ Kept
<1>1. OpenUsage' = OpenUsage /\ OpenUsage \in Nat /\ Charged' = Charged
  BY CountType DEF OpenUsage, Open, Charged
<1>2. \A p \in Periods : /\ win'[p].measured = win[p].measured /\ win'[p].reserved = win[p].reserved
                         /\ Present(p) => Present(p)'
                         /\ Present(p)' => win'[p].reset >= 1
  BY DEF Present, NoWindow, Ledger
<1>3. ReservedHasOwner'
  BY <1>1, <1>2 DEF Ledger, BooksSound, ReservedHasOwner
<1>4. BooksBalance'
  <2> SUFFICES ASSUME NEW p \in Configured, Present(p)', p \notin rolled
               PROVE  /\ win[p].reserved = OpenUsage
                      /\ win[p].measured = SumFunctionOnSet(Charged, Runs)
    BY <1>1, <1>2, QuotaAssumption DEF BooksBalance
  <2>1. CASE Present(p)
    BY <2>1 DEF Ledger, BooksSound, BooksBalance
  <2>2. CASE ~Present(p)
    BY <2>2 DEF Present, NoWindow
  <2> QED BY <2>1, <2>2
<1> QED BY <1>2, <1>3, <1>4 DEF Ledger, BooksSound, Kept, Present

(* The transaction books a reservation in every window.                    *)
LEMMA BookingEffect ==
  ASSUME Ledger, NEW r \in Runs, resv[r].state = "none", NEW made \in Nat, UNCHANGED rolled,
         win' = [p \in Periods |->
                   IF Present(p) THEN [win[p] EXCEPT !.reserved = @ + Usage] ELSE win[p]],
         resv' = [resv EXCEPT ![r] = [NoReservation EXCEPT !.state = "open", !.made = made,
                                                           !.expires = made + TTL]]
  PROVE  /\ Ledger'
         /\ \A x \in Runs \ {r} : resv'[x].state = resv[x].state
         /\ \A p \in Periods : Present(p) => Present(p)'
<1> DEFINE n == Cardinality(OpenRuns)
           row == [NoReservation EXCEPT !.state = "open", !.made = made, !.expires = made + TTL]
<1>1. row \in Reservations /\ row.state = "open" /\ row.measured = 0
  <2>1. row = [state |-> "open", made |-> made, expires |-> made + TTL, closed |-> 0, measured |-> 0]
    <3> DEFINE u == [NoReservation EXCEPT !.state = "open"]
               v == [u EXCEPT !.made = made]
    <3>1. u = [state |-> "open", made |-> 0, expires |-> 0, closed |-> 0, measured |-> 0]
      BY DEF NoReservation
    <3>2. row = [v EXCEPT !.expires = made + TTL]
      OBVIOUS
    <3> HIDE DEF u, row
    <3>3. v = [state |-> "open", made |-> made, expires |-> 0, closed |-> 0, measured |-> 0]
      BY <3>1
    <3> HIDE DEF v
    <3> QED BY <3>2, <3>3
  <2> HIDE DEF row
  <2>2. made + TTL \in Nat
    BY QuotaAssumption
  <2> QED BY <2>1, <2>2 DEF Reservations, States
<1> HIDE DEF row
<1>2. /\ win \in [Periods -> Windows] /\ resv \in [Runs -> Reservations] /\ resv[r].measured = 0
      /\ \A p \in Periods : Present(p) => win[p].reset >= 1
  BY DEF Ledger
<1>3. /\ resv' \in [Runs -> Reservations] /\ resv'[r] = row
      /\ \A x \in Runs \ {r} : resv'[x] = resv[x]
  BY <1>1, <1>2 DEF row
<1>4. ASSUME NEW w \in Windows
      PROVE  LET v == [w EXCEPT !.reserved = @ + Usage]
             IN  /\ v \in Windows /\ v.reset = w.reset /\ v.measured = w.measured
                 /\ v.reserved = w.reserved + Usage
  BY QuotaAssumption DEF Windows
<1>5. win' \in [Periods -> Windows]
      /\ \A p \in Periods :
           IF Present(p) THEN /\ win'[p].reset = win[p].reset
                              /\ win'[p].reserved = win[p].reserved + Usage
                              /\ win'[p].measured = win[p].measured
           ELSE win'[p] = win[p]
  BY <1>2, <1>4
<1>6. OpenRuns' = OpenRuns \cup {r} /\ r \notin OpenRuns
  BY <1>1, <1>3 DEF OpenRuns, Open
<1>7. n \in Nat /\ Cardinality(OpenRuns') = n + 1
  BY <1>6, CountType, FS_AddElement
<1>8. OpenUsage' = OpenUsage + Usage /\ OpenUsage \in Nat
  <2>1. OpenUsage = Usage * n /\ OpenUsage \in Nat
    BY CountType
  <2>2. OpenUsage' = Usage * (n + 1)
    BY <1>7 DEF OpenUsage, OpenRuns
  <2> HIDE DEF n
  <2>3. Usage * (n + 1) = Usage * n + Usage
    BY <1>7, QuotaAssumption
  <2> QED BY <2>1, <2>2, <2>3
<1>9. Charged' = Charged
  BY <1>1, <1>2, <1>3 DEF Charged
<1>10. \A p \in Periods : (Present(p) <=> Present(p)') /\ (Present(p)' => win'[p].reset >= 1)
  <2> SUFFICES ASSUME NEW p \in Periods
               PROVE  (Present(p) <=> Present(p)') /\ (Present(p)' => win'[p].reset >= 1)
    OBVIOUS
  <2>1. CASE Present(p)
    BY <1>2, <1>5, <2>1, ResetIsPresent DEF Present
  <2>2. CASE ~Present(p)
    BY <1>5, <2>2 DEF Present
  <2> QED BY <2>1, <2>2
<1>11. ReservedHasOwner'
  <2> SUFFICES ASSUME NEW p \in Periods PROVE win'[p].reserved <= OpenUsage + Usage
    BY <1>8 DEF ReservedHasOwner
  <2>1. win[p].reserved \in Nat /\ win[p].reserved <= OpenUsage
    BY <1>2 DEF Ledger, BooksSound, ReservedHasOwner, Windows
  <2> QED BY <1>5, <1>8, <2>1, QuotaAssumption
<1>12. BooksBalance'
  <2> SUFFICES ASSUME NEW p \in Configured, Present(p)', p \notin rolled
               PROVE  /\ win'[p].reserved = OpenUsage + Usage
                      /\ win'[p].measured = SumFunctionOnSet(Charged, Runs)
    BY <1>8, <1>9 DEF BooksBalance
  <2>1. p \in Periods /\ Present(p)
    BY <1>10, QuotaAssumption
  <2>2. win[p].reserved = OpenUsage /\ win[p].measured = SumFunctionOnSet(Charged, Runs)
    BY <2>1 DEF Ledger, BooksSound, BooksBalance
  <2> QED BY <1>5, <2>1, <2>2
<1>13. \A x \in Runs : resv'[x].state \in {"none", "open"} => resv'[x].measured = 0
  BY <1>1, <1>3 DEF Ledger
<1> QED BY <1>3, <1>5, <1>10, <1>11, <1>12, <1>13 DEF Ledger, BooksSound

-----------------------------------------------------------------------------
(* The steps                                                               *)

(* A step of a run that is past its seed: the order of things stays.       *)
LEMMA OrderKeeps ==
  ASSUME BooksInv, Ledger' /\ Kept, Processes',
         \A r \in Runs : (pc'[r] \in Before => pc[r] \in Before) /\ (pc[r] = "start" => pc'[r] = "start")
  PROVE  BooksInv'
<1>1. \A r \in Runs : (pc[r] \in Before => resv[r].state = "none")'
  BY DEF BooksInv, Order, Kept
<1>2. \A r \in Runs, p \in Configured : (pc[r] # "start" => Present(p))'
  BY QuotaAssumption DEF BooksInv, Order, Kept, Present
<1> QED BY <1>1, <1>2 DEF BooksInv, Order

(* The process moves on.                                                   *)
LEMMA StepTypes ==
  ASSUME Processes, NEW r \in Runs, NEW step \in Before \cup After
  PROVE  [pc EXCEPT ![r] = step] \in [Runs -> Before \cup After]
BY DEF Processes

(* Whatever the first Reserve of all does, the windows are there.          *)
LEMMA SeedKeeps ==
  ASSUME BooksInv, NEW r \in Runs, SeedFromConfig(r)
  PROVE  BooksInv'
<1>1. /\ win \in [Periods -> Windows] /\ clock \in Nat /\ UNCHANGED <<resv, rolled>>
      /\ win' = [p \in Periods |-> IF p \in Configured THEN Seeded(p, clock) ELSE win[p]]
      /\ resv \in [Runs -> Reservations]
  BY QuotaAssumption DEF BooksInv, Ledger, Processes, SeedFromConfig
<1>2. ASSUME NEW p \in Periods
      PROVE  LET w == Seeded(p, clock)
             IN  /\ w \in Windows /\ w.reset >= 1
                 /\ w.measured = win[p].measured /\ w.reserved = win[p].reserved
  <2> DEFINE reset == NextReset(p, clock)
  <2>1. reset \in Nat /\ reset >= 1 /\ Limit \in Nat
    BY <1>1, NextResetType, QuotaAssumption
  <2> HIDE DEF reset
  <2>2. NoWindow \in Windows /\ win[p] \in Windows
    BY <1>1 DEF NoWindow, Windows
  <2>3. ASSUME NEW w \in Windows
        PROVE  LET v == [w EXCEPT !.limit = Limit, !.reset = reset]
               IN  /\ v \in Windows /\ v.reset = reset
                   /\ v.measured = w.measured /\ v.reserved = w.reserved
    BY <2>1 DEF Windows
  <2>4. CASE Present(p)
    BY <2>1, <2>2, <2>3, <2>4 DEF Seeded, reset
  <2>5. CASE ~Present(p)
    BY <2>1, <2>2, <2>3, <2>5 DEF Seeded, Present, reset
  <2> QED BY <2>4, <2>5
<1>3. /\ win' \in [Periods -> Windows]
      /\ \A p \in Periods :
           \/ win'[p] = win[p]
           \/ /\ win'[p].reset >= 1
              /\ win'[p].measured = win[p].measured /\ win'[p].reserved = win[p].reserved
  BY <1>1, <1>2
<1>4. \A p \in Configured : Present(p) \/ (OpenUsage = 0 /\ SumFunctionOnSet(Charged, Runs) = 0)
  <2> SUFFICES ASSUME NEW p \in Configured, ~Present(p)
               PROVE  OpenUsage = 0 /\ SumFunctionOnSet(Charged, Runs) = 0
    OBVIOUS
  <2>1. \A x \in Runs : resv[x].state = "none" /\ resv[x].measured = 0
    BY DEF BooksInv, Order, Before, Ledger
  <2>2. OpenRuns = {}
    BY <2>1 DEF OpenRuns, Open
  <2>3. OpenUsage = 0
    BY <2>2, CountType, FS_EmptySet, QuotaAssumption
  <2>4. Charged \in [Runs -> Nat] /\ \A x \in Runs : Charged[x] = 0
    BY <2>1 DEF Charged
  <2>5. SumFunctionOnSet(Charged, Runs) = 0 * Cardinality({}) + SumFunctionOnSet(Charged, {})
    <3> DEFINE f == Charged
    <3>1. f \in [Runs -> Nat] /\ \A x \in Runs : f[x] = IF x \in {} THEN 0 ELSE IF x \in {} THEN f[x] ELSE 0
      BY <2>4
    <3> HIDE DEF f
    <3>2. SumFunctionOnSet(f, Runs) = 0 * Cardinality({}) + SumFunctionOnSet(f, {})
      BY <3>1, QuotaAssumption, SumOfShares
    <3> QED BY <3>2 DEF f
  <2> QED BY <2>3, <2>5, SumEmpty, FS_EmptySet
<1>5. Ledger' /\ Kept
  BY <1>1, <1>3, <1>4, ResetEffect DEF BooksInv
<1>6. \A p \in Configured : Present(p)'
  <2> SUFFICES ASSUME NEW p \in Configured PROVE win'[p] # NoWindow
    BY DEF Present
  <2>1. win'[p].reset >= 1
    BY <1>1, <1>2, QuotaAssumption
  <2> QED BY <2>1, ResetIsPresent
<1>7. Processes'
  BY DEF BooksInv, Processes, SeedFromConfig, Before
<1>8. \A x \in Runs : pc'[x] \in Before => pc[x] \in Before
  BY DEF BooksInv, Processes, SeedFromConfig, Before
<1>9. Order'
  BY <1>1, <1>6, <1>8 DEF BooksInv, Order
<1> QED BY <1>5, <1>7, <1>9 DEF BooksInv

(* The steps that touch neither table.                                     *)
LEMMA QuietKeeps ==
  ASSUME BooksInv, \/ Tick
                   \/ \E r \in Runs : \/ Route(r) \/ ReserveBegin(r) \/ SelectExpired(r)
                                     \/ SettleFails(r) \/ Crash(r)
  PROVE  BooksInv'
<1>1. UNCHANGED <<win, resv, rolled>>
  BY Zenon DEF Tick, Route, ReserveBegin, SelectExpired, SettleFails, Crash
<1>2. Ledger' /\ Kept
  BY <1>1, QuietEffect DEF BooksInv
<1> DEFINE Order0 ==
      \A r \in Runs : (pc'[r] \in Before => pc[r] \in Before) /\ (pc[r] = "start" => pc'[r] = "start")
<1>3. ASSUME NEW now \in Nat PROVE Expired(now) \in SUBSET Periods /\ Stale(now) \in SUBSET Runs
  BY DEF Expired, Stale
<1>4. clock \in Nat /\ \A r \in Runs : at[r] \in Nat
  BY QuotaAssumption DEF BooksInv, Processes
<1>5. CASE Tick
  <2>1. Processes' /\ Order0
    BY <1>5, QuotaAssumption DEF Tick, BooksInv, Processes
  <2> QED BY <1>2, <2>1, OrderKeeps
<1>6. ASSUME NEW r \in Runs, Route(r) PROVE Processes' /\ Order0
  <2>1. at' \in [Runs -> Nat] /\ keys' \in [Runs -> SUBSET Periods]
    BY <1>3, <1>4, <1>6 DEF Route, BooksInv, Processes
  <2> QED BY <1>6, <2>1 DEF Route, BooksInv, Processes, Before
<1>7. ASSUME NEW r \in Runs, ReserveBegin(r) PROVE Processes' /\ Order0
  <2>1. at' \in [Runs -> Nat] /\ ids' \in [Runs -> SUBSET Runs]
    BY <1>3, <1>4, <1>7 DEF ReserveBegin, BooksInv, Processes
  <2> QED BY <1>7, <2>1 DEF ReserveBegin, BooksInv, Processes, Before
<1>8. ASSUME NEW r \in Runs, SelectExpired(r) PROVE Processes' /\ Order0
  <2>1. keys' \in [Runs -> SUBSET Periods]
    BY <1>3, <1>4, <1>8 DEF SelectExpired, BooksInv, Processes
  <2> QED BY <1>8, <2>1 DEF SelectExpired, BooksInv, Processes, Before
<1>9. ASSUME NEW r \in Runs, SettleFails(r) PROVE Processes' /\ Order0
  <2>1. queued' \in [Runs -> SUBSET {"settle", "release"}]
    BY <1>9 DEF SettleFails, BooksInv, Processes
  <2> QED BY <1>9, <2>1 DEF SettleFails, BooksInv, Processes, Before, After
<1>10. ASSUME NEW r \in Runs, Crash(r) PROVE Processes' /\ Order0
  BY <1>10 DEF Crash, BooksInv, Processes, Before, After
<1> QED BY <1>2, <1>5, <1>6, <1>7, <1>8, <1>9, <1>10, OrderKeeps

(* The steps that release or expire a reservation, and those that settle.  *)
LEMMA ClosingKeeps ==
  ASSUME BooksInv, NEW r \in Runs,
         \/ \E x \in Runs : ExpireOne(r, x)
         \/ (\E m \in Measures : SettleRun(r, m)) \/ ReleaseRun(r) \/ ReleaseForRun(r) \/ ExpireStale(r)
         \/ \E kind \in {"settle", "release"} : Replay(r, kind)
  PROVE  BooksInv'
<1> DEFINE Order0 ==
      \A x \in Runs : (pc'[x] \in Before => pc[x] \in Before) /\ (pc[x] = "start" => pc'[x] = "start")
<1>1. clock \in Nat /\ \A x \in Runs : at[x] \in Nat
  BY QuotaAssumption DEF BooksInv, Processes
<1>2. ASSUME NEW x \in Runs, ExpireOne(r, x) PROVE BooksInv'
  <2>1. Release(x, at[r]) /\ rolled' = rolled
    BY <1>2 DEF ExpireOne
  <2>2. Processes' /\ Order0
    BY <1>2 DEF ExpireOne, BooksInv, Processes
  <2>3. Ledger' /\ Kept
    BY <1>1, <2>1, ReleaseEffect DEF BooksInv
  <2> QED BY <2>2, <2>3, OrderKeeps
<1>3. ASSUME NEW m \in Measures, SettleRun(r, m) PROVE BooksInv'
  <2>1. Settle(r, m, clock) /\ rolled' = rolled
    BY <1>3 DEF SettleRun
  <2>2. Processes' /\ Order0
    BY <1>3 DEF SettleRun, BooksInv, Processes, Before, After
  <2>3. Ledger' /\ Kept
    BY <1>1, <2>1, SettleEffect DEF BooksInv
  <2> QED BY <2>2, <2>3, OrderKeeps
<1>4. CASE ReleaseRun(r)
  <2>1. queued' \in [Runs -> SUBSET {"settle", "release"}]
    BY <1>4 DEF ReleaseRun, BooksInv, Processes
  <2>2. Processes' /\ Order0
    BY <1>4, <2>1 DEF ReleaseRun, BooksInv, Processes, Before, After
  <2>3. CASE Release(r, clock)
    <3>1. Ledger' /\ Kept
      BY <1>1, <1>4, <2>3, ReleaseEffect DEF BooksInv, ReleaseRun
    <3> QED BY <2>2, <3>1, OrderKeeps
  <2>4. CASE UNCHANGED <<resv, win>>
    <3>1. Ledger' /\ Kept
      BY <1>4, <2>4, QuietEffect DEF BooksInv, ReleaseRun
    <3> QED BY <2>2, <3>1, OrderKeeps
  <2> QED BY <1>4, <2>3, <2>4 DEF ReleaseRun
<1>5. CASE ReleaseForRun(r)
  <2>1. Processes' /\ Order0
    BY <1>5 DEF ReleaseForRun, BooksInv, Processes, Before, After
  <2>2. Ledger' /\ Kept
    BY <1>1, <1>5, ReleaseEffect DEF BooksInv, ReleaseForRun
  <2> QED BY <2>1, <2>2, OrderKeeps
<1>6. CASE ExpireStale(r)
  <2>1. Processes' /\ Order0
    BY <1>6 DEF ExpireStale, BooksInv, Processes
  <2>2. Ledger' /\ Kept
    BY <1>1, <1>6, ReleaseEffect DEF BooksInv, ExpireStale
  <2> QED BY <2>1, <2>2, OrderKeeps
<1>7. ASSUME NEW kind \in {"settle", "release"}, Replay(r, kind) PROVE BooksInv'
  <2>1. Processes' /\ Order0
    BY <1>7 DEF Replay, BooksInv, Processes
  <2>2. CASE Release(r, clock)
    <3>1. Ledger' /\ Kept
      BY <1>1, <1>7, <2>2, ReleaseEffect DEF BooksInv, Replay
    <3> QED BY <2>1, <3>1, OrderKeeps
  <2>3. ASSUME NEW m \in Measures, Settle(r, m, clock) PROVE BooksInv'
    <3>1. Ledger' /\ Kept
      BY <1>1, <1>7, <2>3, SettleEffect DEF BooksInv, Replay
    <3> QED BY <2>1, <3>1, OrderKeeps
  <2> QED BY <1>7, <2>2, <2>3 DEF Replay
<1> QED BY <1>2, <1>3, <1>4, <1>5, <1>6, <1>7

(* The steps that give a window another period or another reset time.      *)
LEMMA WindowKeeps ==
  ASSUME BooksInv, \/ \E r \in Runs : ApplyResetHint(r) \/ \E p \in Periods : RolloverOne(r, p)
                   \/ \E p \in Periods : GovRoute(p)
  PROVE  BooksInv'
<1> DEFINE Order0 ==
      \A r \in Runs : (pc'[r] \in Before => pc[r] \in Before) /\ (pc[r] = "start" => pc'[r] = "start")
<1>1. clock \in Nat /\ \A r \in Runs : at[r] \in Nat
  BY QuotaAssumption DEF BooksInv, Processes
<1>2. ASSUME NEW r \in Runs, NEW p \in Periods, RolloverOne(r, p) PROVE BooksInv'
  <2>1. Processes' /\ Order0
    BY <1>2 DEF RolloverOne, BooksInv, Processes
  <2>2. Ledger' /\ Kept
    BY <1>1, <1>2, RolloverEffect DEF BooksInv, RolloverOne
  <2> QED BY <2>1, <2>2, OrderKeeps
<1>3. ASSUME NEW p \in Periods, GovRoute(p) PROVE BooksInv'
  <2>1. Processes' /\ Order0
    BY <1>3 DEF GovRoute, BooksInv, Processes
  <2>2. Ledger' /\ Kept
    BY <1>1, <1>3, RolloverEffect DEF BooksInv, GovRoute
  <2> QED BY <2>1, <2>2, OrderKeeps
<1>4. ASSUME NEW r \in Runs, ApplyResetHint(r) PROVE BooksInv'
  <2>1. Processes' /\ Order0
    BY <1>4 DEF ApplyResetHint, BooksInv, Processes, Before, After
  <2>2. UNCHANGED <<resv, rolled>> /\ \A p \in Configured : Present(p)
    BY <1>4 DEF ApplyResetHint, BooksInv, Order
  <2>3. win \in [Periods -> Windows]
    BY DEF BooksInv, Ledger
  <2>4. CASE UNCHANGED win
    <3>1. Ledger' /\ Kept
      BY <2>2, <2>4, QuietEffect DEF BooksInv
    <3> QED BY <2>1, <3>1, OrderKeeps
  <2>5. ASSUME NEW p \in Periods, NEW t \in 1..MaxTime, win' = [win EXCEPT ![p].reset = t]
        PROVE  BooksInv'
    <3>1. t \in Nat /\ t >= 1
      BY QuotaAssumption
    <3>2. /\ win' \in [Periods -> Windows] /\ win'[p].reset = t
          /\ win'[p].measured = win[p].measured /\ win'[p].reserved = win[p].reserved
          /\ \A q \in Periods \ {p} : win'[q] = win[q]
      BY <2>3, <2>5, <3>1 DEF Windows
    <3>3. \A q \in Periods :
            \/ win'[q] = win[q]
            \/ /\ win'[q].reset >= 1
               /\ win'[q].measured = win[q].measured /\ win'[q].reserved = win[q].reserved
      BY <3>1, <3>2
    <3>4. Ledger' /\ Kept
      BY <2>2, <3>2, <3>3, ResetEffect DEF BooksInv
    <3> QED BY <2>1, <3>4, OrderKeeps
  <2> QED BY <1>4, <2>4, <2>5 DEF ApplyResetHint
<1> QED BY <1>2, <1>3, <1>4

(* The transaction of Reserve books, or refuses.                           *)
LEMMA AdmitKeeps ==
  ASSUME BooksInv, NEW r \in Runs, Admit(r)
  PROVE  BooksInv'
<1>1. Processes'
  <2>1. at' \in [Runs -> Nat] /\ pc' \in [Runs -> Before \cup After]
    BY DEF Admit, BooksInv, Processes, After
  <2> QED BY <2>1 DEF Admit, BooksInv, Processes
<1>2. /\ \A x \in Runs : (pc'[x] \in Before => pc[x] \in Before) /\ (pc[x] = "start" => pc'[x] = "start")
      /\ pc'[r] \notin Before /\ pc[r] = "rollover" /\ rolled' = rolled
  BY DEF Admit, BooksInv, Processes, Before
<1>3. CASE UNCHANGED <<win, resv>>
  <2>1. Ledger' /\ Kept
    BY <1>2, <1>3, QuietEffect DEF BooksInv
  <2> QED BY <1>1, <1>2, <2>1, OrderKeeps
<1>4. CASE /\ win' = [p \in Periods |->
                IF Present(p) THEN [win[p] EXCEPT !.reserved = @ + Usage] ELSE win[p]]
           /\ resv' = [resv EXCEPT ![r] = [NoReservation EXCEPT !.state = "open",
                         !.made = at[r], !.expires = at[r] + TTL]]
  <2>1. resv[r].state = "none" /\ at[r] \in Nat
    BY <1>2 DEF BooksInv, Order, Processes, Before
  <2>2. /\ Ledger'
        /\ \A x \in Runs \ {r} : resv'[x].state = resv[x].state
        /\ \A p \in Periods : Present(p) => Present(p)'
    BY <1>2, <1>4, <2>1, BookingEffect DEF BooksInv
  <2>3. Order'
    <3>1. (\A x \in Runs : pc[x] \in Before => resv[x].state = "none")'
      BY <1>2, <2>2 DEF BooksInv, Order
    <3>2. (\A x \in Runs, p \in Configured : pc[x] # "start" => Present(p))'
      BY <1>2, <2>2, QuotaAssumption DEF BooksInv, Order
    <3> QED BY <3>1, <3>2 DEF Order
  <2> QED BY <1>1, <2>2, <2>3 DEF BooksInv
<1> QED BY <1>3, <1>4 DEF Admit

(* The books before anything has happened.                                 *)
LEMMA BooksBegin == Init => BooksInv
<1> SUFFICES ASSUME Init PROVE BooksInv
  OBVIOUS
<1>1. win \in [Periods -> Windows] /\ resv \in [Runs -> Reservations]
  BY DEF Init, NoWindow, NoReservation, Windows, Reservations, States
<1>2. \A p \in Periods : ~Present(p) /\ win[p].reserved = 0
  BY DEF Init, Present, NoWindow
<1>3. \A r \in Runs : resv[r].state = "none" /\ resv[r].measured = 0 /\ pc[r] = "start"
  BY DEF Init, NoReservation
<1>4. ReservedHasOwner /\ BooksBalance
  <2>1. OpenUsage \in Nat
    BY CountType
  <2>2. \A p \in Configured : ~Present(p)
    BY <1>2, QuotaAssumption
  <2> QED BY <1>2, <2>1, <2>2 DEF ReservedHasOwner, BooksBalance
<1>5. Processes
  BY QuotaAssumption DEF Init, Processes, Before
<1> QED BY <1>1, <1>2, <1>3, <1>4, <1>5 DEF BooksInv, Ledger, BooksSound, Order

(* The invariant of the quota ledger.                                      *)
THEOREM BooksInvariance == Spec => []BooksInv
<1>1. BooksInv /\ [Next]_vars => BooksInv'
  <2> SUFFICES ASSUME BooksInv, [Next]_vars PROVE BooksInv'
    OBVIOUS
  <2>1. CASE UNCHANGED vars
    <3>1. Ledger' /\ Kept
      BY <2>1, QuietEffect DEF BooksInv, vars
    <3>2. Processes'
      BY <2>1 DEF BooksInv, Processes, vars
    <3> QED BY <2>1, <3>1, <3>2, OrderKeeps DEF vars
  <2> QED BY <2>1, SeedKeeps, QuietKeeps, ClosingKeeps, WindowKeeps, AdmitKeeps DEF Next, Step
<1> QED BY <1>1, BooksBegin, PTL DEF Spec

(* The windows account for the reservations that are open: no headroom is  *)
(* held for a run that is gone, in whatever order settlements, releases,   *)
(* expiries, recoveries, replays and rollovers come; and until its first   *)
(* rollover a window's two columns are exact.                              *)
THEOREM BooksAreSound == Spec => []BooksSound
<1>1. BooksInv => BooksSound
  BY DEF BooksInv, Ledger
<1> QED BY <1>1, BooksInvariance, PTL

=============================================================================
