--------------------------- MODULE DecisionProofs --------------------------
(***************************************************************************)
(* Proofs about the decisions of a run: PolicyGate's one-shot overrides,   *)
(* for any rules, evaluations, clock, failures and crashes (GateInv is     *)
(* inductive); the approved runs that Replay answers from, for any inputs, *)
(* edits and number of runs (ReplayInv is inductive); the verdicts         *)
(* Transcript draws in one pass, for any lines of any number, nodes and    *)
(* limits (PassInv is inductive); and, for every input, the route, the     *)
(* demand for containment, the set of changed paths, what a pattern        *)
(* matches, what preflight lets through, and the verdict of the layers.    *)
(***************************************************************************)
EXTENDS PolicyGate, Replay, Transcript, Router, ContainmentPolicy, WriteSet,
        Patterns, PolicyEngine, Sums, NaturalsInduction, WellFoundedInduction, TLAPS

USE PolicyAssumption DEF Never

(* The empty tables satisfy the inductive invariant.                       *)
LEMMA InitInv == Init => GateInv
<1> SUFFICES ASSUME Init PROVE GateInv
  OBVIOUS
<1>1. NoOverride \in Override
  BY DEF NoOverride, Override, Kinds, Verdicts
<1>2. TypeOK
  BY <1>1 DEF Init, TypeOK, Steps
<1>3. \A o \in Overrides : ovr[o].consumed = "no" /\ ovr[o].reserved = Never
  BY DEF Init, NoOverride
<1>4. \A e \in Evals : ~Crossed(e)
  BY DEF Init, Crossed
<1>5. QED
  BY <1>2, <1>3, <1>4 DEF Init, GateInv, BlankIsFree, CrossedIsSpent, HeldIsPending,
     OneLaunchPerApproval, SpentOnlyToCross, ReservedIsOwned, Reserved

(* A row stays a row, and keeps its other columns, when one is written.    *)
LEMMA ConsumedRow ==
  ASSUME NEW w \in Override, NEW c, c = [w EXCEPT !.consumed = "yes"]
  PROVE  /\ c \in Override /\ c.kind = w.kind /\ c.verdict = w.verdict
         /\ c.consumed = "yes" /\ c.reserved = w.reserved
  BY DEF Override

(* So does one that expires,                                               *)
LEMMA ExpiredRow ==
  ASSUME NEW w \in Override, NEW x, x = [w EXCEPT !.expired = "yes"]
  PROVE  /\ x \in Override /\ x.kind = w.kind /\ x.verdict = w.verdict
         /\ x.consumed = w.consumed /\ x.expired = "yes"
  BY DEF Override

(* and one that is reserved or released.                                   *)
LEMMA ReservedRow ==
  ASSUME NEW w \in Override, NEW t \in Int, NEW r, r = [w EXCEPT !.reserved = t]
  PROVE  /\ r \in Override /\ r.kind = w.kind /\ r.verdict = w.verdict
         /\ r.consumed = w.consumed /\ r.reserved = t
  BY DEF Override

(* The columns that no step on an existing row writes.                     *)
Named == \A p \in Overrides : ovr'[p].kind = ovr[p].kind /\ ovr'[p].verdict = ovr[p].verdict

Unspent == \A p \in Overrides : ovr'[p].consumed = ovr[p].consumed

(* A release only makes a reserved override free again.                    *)
Released(o) ==
  /\ ovr' \in [Overrides -> Override] /\ Named /\ Unspent
  /\ \A p \in Overrides : ovr'[p].reserved \in {ovr[p].reserved, Never}
  /\ \A p \in Overrides : Reserved(p)' => Reserved(p) /\ p # o

(* That is what ReleasePolicyOverrideReservation does.                     *)
LEMMA ReleaseEffect ==
  ASSUME TypeOK, NEW o \in Overrides, Release(o)
  PROVE  Released(o)
<1>1. CASE Consumable(o) /\ ovr[o].expired = "no"
  <2>1. ovr' = [ovr EXCEPT ![o] = [ovr[o] EXCEPT !.reserved = Never]]
    BY <1>1 DEF Release
  <2>2. \A p \in Overrides : ovr[p] \in Override
    BY DEF TypeOK
  <2>3. /\ ovr'[o] = [ovr[o] EXCEPT !.reserved = Never]
        /\ \A p \in Overrides : p # o => ovr'[p] = ovr[p]
    BY <2>1 DEF TypeOK
  <2>4. ovr' \in [Overrides -> Override]
    <3>1. ovr'[o] \in Override
      BY <2>2, <2>3, ReservedRow
    <3>2. QED
      BY <2>1, <2>3, <3>1 DEF TypeOK
  <2>5. /\ ovr'[o].kind = ovr[o].kind /\ ovr'[o].verdict = ovr[o].verdict
        /\ ovr'[o].consumed = ovr[o].consumed /\ ovr'[o].reserved = Never
    BY <2>2, <2>3, ReservedRow
  <2>6. QED
    BY <2>3, <2>4, <2>5 DEF Released, Named, Unspent, Reserved, OneShot
<1>2. CASE ~(Consumable(o) /\ ovr[o].expired = "no")
  <2>1. ovr' = ovr
    BY <1>2 DEF Release
  <2>2. QED
    BY <1>2, <2>1 DEF TypeOK, Released, Named, Unspent, Reserved, OneShot, Consumable
<1>3. QED
  BY <1>1, <1>2

(* A consumption only marks what it is given and what is reserved.         *)
Consumed(S) ==
  /\ ovr' \in [Overrides -> Override] /\ Named
  /\ \A p \in Overrides : ovr'[p].reserved = ovr[p].reserved
  /\ \A p \in Overrides : ovr[p].consumed = "yes" => ovr'[p].consumed = "yes"
  /\ \A p \in Overrides \ S : ovr'[p] = ovr[p]
  /\ \A p \in S : Consumable(p) => ovr'[p].consumed = "yes"
  /\ \A p \in S : ~Consumable(p) => ovr'[p] = ovr[p]
  /\ \A p \in Overrides : Reserved(p)' => Reserved(p) /\ p \notin S

(* That is what both Consume statements do.                                *)
LEMMA ConsumeEffect ==
  ASSUME TypeOK, NEW S \in SUBSET Overrides, Consume(S)
  PROVE  Consumed(S)
<1>1. \A p \in Overrides : ovr'[p] = IF p \in S /\ Consumable(p)
                                 THEN [ovr[p] EXCEPT !.consumed = "yes"] ELSE ovr[p]
  BY DEF Consume
<1>2. \A p \in Overrides : ovr[p] \in Override
  BY DEF TypeOK
<1>3. \A p \in Overrides : p \in S /\ Consumable(p) =>
        /\ ovr'[p] \in Override /\ ovr'[p].consumed = "yes"
        /\ ovr'[p].kind = ovr[p].kind /\ ovr'[p].verdict = ovr[p].verdict
        /\ ovr'[p].reserved = ovr[p].reserved
  <2> SUFFICES ASSUME NEW p \in Overrides, p \in S /\ Consumable(p)
               PROVE  /\ ovr'[p] \in Override /\ ovr'[p].consumed = "yes"
                      /\ ovr'[p].kind = ovr[p].kind /\ ovr'[p].verdict = ovr[p].verdict
                      /\ ovr'[p].reserved = ovr[p].reserved
    OBVIOUS
  <2>1. ovr'[p] = [ovr[p] EXCEPT !.consumed = "yes"]
    BY <1>1
  <2>2. ovr[p] \in Override
    BY <1>2
  <2>3. QED
    BY <2>1, <2>2, ConsumedRow
<1>4. \A p \in Overrides : ~(p \in S /\ Consumable(p)) => ovr'[p] = ovr[p]
  BY <1>1
<1>5. ovr' \in [Overrides -> Override]
  <2>1. ovr' = [p \in Overrides |-> ovr'[p]]
    BY DEF Consume
  <2>2. QED
    BY <1>2, <1>3, <1>4, <2>1
<1>6. \A p \in Overrides : Reserved(p)' => Reserved(p) /\ p \notin S
  BY <1>3, <1>4 DEF Reserved, OneShot, Consumable
<1>7. QED
  BY <1>3, <1>4, <1>5, <1>6 DEF Consumed, Named

(* A claim reserves what is available and expires what is stale.           *)
Claims(e) ==
  /\ pc[e] = "idle" /\ pc' = [pc EXCEPT ![e] = "gate"]
  /\ decision' \in [Evals -> {"ALLOW", "ASK", "DENY"}]
  /\ asks' \in [Evals -> SUBSET Rules]
  /\ \A f \in Evals \ {e} : decision'[f] = decision[f]
  /\ UNCHANGED <<clock, cp, pend, held, queued, faults, crashes>>
  /\ ovr' \in [Overrides -> Override] /\ Named /\ Unspent
  /\ \A p \in Overrides : ovr[p].kind = "none" => ovr'[p] = ovr[p]
  /\ \A p \in Overrides : Reserved(p)' => Reserved(p) \/ p \in surplus'[e] \cup applied'[e]
  /\ claimed' \in [Evals -> SUBSET Overrides]
  /\ surplus' \in [Evals -> SUBSET Overrides]
  /\ applied' \in [Evals -> SUBSET Overrides]
  /\ \A f \in Evals \ {e} : surplus'[f] = surplus[f] /\ applied'[f] = applied[f]

(* That is what ClaimActivePolicyOverrides does.                           *)
LEMMA ClaimEffect ==
  ASSUME TypeOK, NEW e \in Evals, Claim(e)
  PROVE  Claims(e)
<1> DEFINE mine == {o \in Overrides : Available(o) /\ OneShot(o)}
<1>1. /\ ovr' = [o \in Overrides |->
             CASE Stale(o) -> [ovr[o] EXCEPT !.expired = "yes"]
               [] o \in mine -> [ovr[o] EXCEPT !.reserved = clock]
               [] OTHER -> ovr[o]]
      /\ claimed' = [claimed EXCEPT ![e] = mine]
      /\ surplus' = [surplus EXCEPT ![e] = mine \ Applied]
      /\ applied' = [applied EXCEPT ![e] = mine \cap Applied]
  BY DEF Claim
<1>2. mine \in SUBSET Overrides
  OBVIOUS
<1>3. \A p \in mine : ~Stale(p) /\ OneShot(p)
  BY DEF Available, Stale
<1>4. \A p \in Overrides : Stale(p) => OneShot(p)
  BY DEF Stale
<1> HIDE DEF mine
<1>5. \A p \in Overrides :
        /\ Stale(p) => ovr'[p] = [ovr[p] EXCEPT !.expired = "yes"]
        /\ p \in mine => ovr'[p] = [ovr[p] EXCEPT !.reserved = clock]
        /\ ~Stale(p) /\ p \notin mine => ovr'[p] = ovr[p]
  BY <1>1, <1>3
<1>6. surplus'[e] \cup applied'[e] = mine
  BY <1>1, <1>2 DEF TypeOK
<1>7. \A p \in Overrides : ovr[p] \in Override /\ clock \in Int
  BY DEF TypeOK
<1>8. \A p \in Overrides :
        /\ ovr'[p] \in Override
        /\ ovr'[p].kind = ovr[p].kind /\ ovr'[p].verdict = ovr[p].verdict
        /\ ovr'[p].consumed = ovr[p].consumed
        /\ Stale(p) => ovr'[p].expired = "yes"
  <2> TAKE p \in Overrides
  <2>1. CASE Stale(p)
    <3>1. ovr'[p] = [ovr[p] EXCEPT !.expired = "yes"]
      BY <1>5, <2>1
    <3>2. ovr[p] \in Override
      BY <1>7
    <3>3. QED
      BY <3>1, <3>2, ExpiredRow
  <2>2. CASE p \in mine
    <3>1. ovr'[p] = [ovr[p] EXCEPT !.reserved = clock] /\ ~Stale(p)
      BY <1>3, <1>5, <2>2
    <3>2. ovr[p] \in Override /\ clock \in Int
      BY <1>7
    <3>3. QED
      BY <3>1, <3>2, ReservedRow
  <2>3. CASE ~Stale(p) /\ p \notin mine
    BY <1>5, <1>7, <2>3
  <2>4. QED
    BY <2>1, <2>2, <2>3
<1>9. ovr' \in [Overrides -> Override]
  <2>1. ovr' = [p \in Overrides |-> ovr'[p]]
    BY <1>1
  <2>2. QED
    BY <1>8, <2>1
<1>10. \A p \in Overrides : Reserved(p)' => Reserved(p) \/ p \in mine
  BY <1>5, <1>8 DEF Reserved, OneShot
<1>11. \A p \in Overrides : ovr[p].kind = "none" => ovr'[p] = ovr[p]
  BY <1>3, <1>4, <1>5 DEF OneShot
<1>12. /\ claimed' \in [Evals -> SUBSET Overrides]
       /\ surplus' \in [Evals -> SUBSET Overrides]
       /\ applied' \in [Evals -> SUBSET Overrides]
       /\ \A f \in Evals \ {e} : surplus'[f] = surplus[f] /\ applied'[f] = applied[f]
  BY <1>1, <1>2 DEF TypeOK
<1>13. Verdict \in {"ALLOW", "ASK", "DENY"}
  BY DEF Verdict
<1>14. /\ decision' \in [Evals -> {"ALLOW", "ASK", "DENY"}]
       /\ \A f \in Evals \ {e} : decision'[f] = decision[f]
  BY <1>13 DEF Claim, TypeOK
<1>15. asks' \in [Evals -> SUBSET Rules]
  BY DEF Claim, TypeOK
<1>16. /\ pc[e] = "idle" /\ pc' = [pc EXCEPT ![e] = "gate"]
       /\ UNCHANGED <<clock, cp, pend, held, queued, faults, crashes>>
  BY DEF Claim, Goto
<1>17. QED
  BY <1>6, <1>8, <1>9, <1>10, <1>11, <1>12, <1>14, <1>15, <1>16 DEF Claims, Named, Unspent

(* A resolution fills a row that was blank.                                *)
Filled(o) ==
  /\ ovr[o].kind = "none" /\ ovr'[o].kind # "none"
  /\ ovr'[o].consumed = "no" /\ ovr'[o].reserved = Never
  /\ ovr' \in [Overrides -> Override]
  /\ \A p \in Overrides \ {o} : ovr'[p] = ovr[p]
  /\ \A p \in Overrides : Reserved(p)' => Reserved(p)

(* That is what AskResolve does to the overrides.                          *)
LEMMA AskEffect ==
  ASSUME TypeOK, NEW c \in Evals \X Rules, NEW v \in Verdicts, NEW kind \in {"oneshot", "rule"},
         NEW life \in Lifetimes, AskResolve(c, v, kind, life)
  PROVE  \E o \in Overrides : Filled(o)
<1> DEFINE until == IF kind = "oneshot" \/ life = Never THEN Never ELSE clock + life
<1>1. PICK o \in Overrides :
        /\ ovr[o].kind = "none"
        /\ ovr' = [ovr EXCEPT ![o] = [NoOverride EXCEPT !.kind = kind, !.rule = c[2], !.verdict = v,
                                                     !.until = until]]
  BY DEF AskResolve
<1>2. until \in Int
  BY DEF TypeOK
<1> HIDE DEF until
<1>3. c[2] \in Rules
  OBVIOUS
<1>4. ovr'[o] = [kind |-> kind, rule |-> c[2], verdict |-> v, until |-> until,
                 reserved |-> Never, consumed |-> "no", expired |-> "no"]
  BY <1>1 DEF NoOverride, TypeOK
<1>5. ovr'[o] \in Override
  BY <1>2, <1>3, <1>4 DEF Override, Kinds
<1>6. \A p \in Overrides \ {o} : ovr'[p] = ovr[p]
  BY <1>1 DEF TypeOK
<1>7. ovr' \in [Overrides -> Override]
  BY <1>1, <1>5, <1>6 DEF TypeOK
<1>8. ovr'[o].kind # "none" /\ ovr'[o].consumed = "no" /\ ovr'[o].reserved = Never
  BY <1>4
<1>9. \A p \in Overrides : Reserved(p)' => Reserved(p)
  BY <1>6, <1>8 DEF Reserved, OneShot
<1>10. QED
  BY <1>1, <1>6, <1>7, <1>8, <1>9 DEF Filled

(* Every step of the gate, of a run, of `gov ask`, of `gov reconcile` and  *)
(* every crash preserves the invariant.                                    *)
LEMMA NextInv == GateInv /\ [Next]_vars => GateInv'
<1> SUFFICES ASSUME GateInv, [Next]_vars PROVE GateInv'
  OBVIOUS
<1> USE DEF evaluation
<1>0. TypeOK
  BY DEF GateInv
<1>1. ASSUME NEW e \in Evals, Claim(e)
      PROVE  GateInv'
  <2>1. Claims(e)
    BY <1>1, <1>0, ClaimEffect
  <2>2. TypeOK'
    BY <1>0, <2>1 DEF TypeOK, Steps, Claims
  <2>3. BlankIsFree'
    BY <2>1, SMTT(30) DEF GateInv, TypeOK, BlankIsFree, Claims, Named, Unspent
  <2>4. CrossedIsSpent'
    BY <2>1 DEF GateInv, TypeOK, CrossedIsSpent, Crossed, BlankIsFree, Claims, Named, Unspent
  <2>5. HeldIsPending'
    BY <2>1 DEF GateInv, TypeOK, HeldIsPending, Claims, Named, Unspent
  <2>6. OneLaunchPerApproval'
    BY <2>1 DEF GateInv, TypeOK, OneLaunchPerApproval, Crossed, CrossedIsSpent, Claims, Named, Unspent
  <2>7. SpentOnlyToCross'
    BY <2>1 DEF GateInv, TypeOK, SpentOnlyToCross, Crossed, Claims, Named, Unspent
  <2>8. ReservedIsOwned'
    BY <2>1 DEF GateInv, TypeOK, ReservedIsOwned, Owns, HeldIsPending, Claims, Named, Unspent
  <2>9. QED
    BY <2>2, <2>3, <2>4, <2>5, <2>6, <2>7, <2>8 DEF GateInv
<1>2. ASSUME NEW e \in Evals, GateReturns(e)
      PROVE  GateInv'
  <2>1. UNCHANGED ovr /\ \A p \in Overrides : Reserved(p)' <=> Reserved(p)
    BY <1>2 DEF GateReturns, Reserved, OneShot
  <2>2. TypeOK'
    BY <1>0, <1>2, <2>1 DEF TypeOK, Steps, GateReturns, Goto
  <2>3. BlankIsFree'
    BY <1>2, <2>1 DEF GateInv, TypeOK, BlankIsFree, GateReturns, Goto
  <2>4. CrossedIsSpent'
    BY <1>2, <2>1 DEF GateInv, TypeOK, CrossedIsSpent, Crossed, BlankIsFree, GateReturns, Goto
  <2>5. HeldIsPending'
    BY <1>2, <2>1 DEF GateInv, TypeOK, HeldIsPending, GateReturns, Goto
  <2>6. OneLaunchPerApproval'
    BY <1>2, <2>1 DEF GateInv, TypeOK, OneLaunchPerApproval, Crossed, CrossedIsSpent, GateReturns, Goto
  <2>7. SpentOnlyToCross'
    BY <1>2, <2>1 DEF GateInv, TypeOK, SpentOnlyToCross, Crossed, GateReturns, Goto
  <2>8. ReservedIsOwned'
    BY <1>2, <2>1 DEF GateInv, TypeOK, ReservedIsOwned, Owns, HeldIsPending, GateReturns, Goto
  <2>9. QED
    BY <2>2, <2>3, <2>4, <2>5, <2>6, <2>7, <2>8 DEF GateInv
<1>3. ASSUME NEW e \in Evals, Quarantine(e)
      PROVE  GateInv'
  <2>1. UNCHANGED ovr /\ \A p \in Overrides : Reserved(p)' <=> Reserved(p)
    BY <1>3 DEF Quarantine, Reserved, OneShot
  <2>2. TypeOK'
    BY <1>0, <1>3, <2>1 DEF TypeOK, Steps, Quarantine, Goto
  <2>3. BlankIsFree'
    BY <1>3, <2>1 DEF GateInv, TypeOK, BlankIsFree, Quarantine, Goto
  <2>4. CrossedIsSpent'
    BY <1>3, <2>1 DEF GateInv, TypeOK, CrossedIsSpent, Crossed, BlankIsFree, Quarantine, Goto
  <2>5. HeldIsPending'
    BY <1>3, <2>1 DEF GateInv, TypeOK, HeldIsPending, Quarantine, Goto
  <2>6. OneLaunchPerApproval'
    BY <1>3, <2>1 DEF GateInv, TypeOK, OneLaunchPerApproval, Crossed, CrossedIsSpent, Quarantine, Goto
  <2>7. SpentOnlyToCross'
    BY <1>3, <2>1 DEF GateInv, TypeOK, SpentOnlyToCross, Crossed, Quarantine, Goto
  <2>8. ReservedIsOwned'
    BY <1>3, <2>1 DEF GateInv, TypeOK, ReservedIsOwned, Owns, HeldIsPending, Quarantine, Goto
  <2>9. QED
    BY <2>2, <2>3, <2>4, <2>5, <2>6, <2>7, <2>8 DEF GateInv
<1>4. ASSUME NEW e \in Evals, GateFails(e)
      PROVE  GateInv'
  <2>1. UNCHANGED ovr /\ \A p \in Overrides : Reserved(p)' <=> Reserved(p)
    BY <1>4 DEF GateFails, Reserved, OneShot
  <2>2. TypeOK'
    BY <1>0, <1>4, <2>1 DEF TypeOK, Steps, GateFails, Fault, Goto
  <2>3. BlankIsFree'
    BY <1>4, <2>1 DEF GateInv, TypeOK, BlankIsFree, GateFails, Fault, Goto
  <2>4. CrossedIsSpent'
    BY <1>4, <2>1 DEF GateInv, TypeOK, CrossedIsSpent, Crossed, BlankIsFree, GateFails, Fault, Goto
  <2>5. HeldIsPending'
    BY <1>4, <2>1 DEF GateInv, TypeOK, HeldIsPending, GateFails, Fault, Goto
  <2>6. OneLaunchPerApproval'
    BY <1>4, <2>1 DEF GateInv, TypeOK, OneLaunchPerApproval, Crossed, CrossedIsSpent, GateFails, Fault, Goto
  <2>7. SpentOnlyToCross'
    BY <1>4, <2>1 DEF GateInv, TypeOK, SpentOnlyToCross, Crossed, GateFails, Fault, Goto
  <2>8. ReservedIsOwned'
    BY <1>4, <2>1 DEF GateInv, TypeOK, ReservedIsOwned, Owns, HeldIsPending, GateFails, Fault, Goto
  <2>9. QED
    BY <2>2, <2>3, <2>4, <2>5, <2>6, <2>7, <2>8 DEF GateInv
<1>5. ASSUME NEW e \in Evals, Abort(e)
      PROVE  GateInv'
  <2>1. UNCHANGED ovr /\ \A p \in Overrides : Reserved(p)' <=> Reserved(p)
    BY <1>5 DEF Abort, Reserved, OneShot
  <2>2. TypeOK'
    BY <1>0, <1>5, <2>1 DEF TypeOK, Steps, Abort, Goto
  <2>3. BlankIsFree'
    BY <1>5, <2>1 DEF GateInv, TypeOK, BlankIsFree, Abort, Goto
  <2>4. CrossedIsSpent'
    BY <1>5, <2>1 DEF GateInv, TypeOK, CrossedIsSpent, Crossed, BlankIsFree, Abort, Goto
  <2>5. HeldIsPending'
    BY <1>5, <2>1 DEF GateInv, TypeOK, HeldIsPending, Abort, Goto
  <2>6. OneLaunchPerApproval'
    BY <1>5, <2>1 DEF GateInv, TypeOK, OneLaunchPerApproval, Crossed, CrossedIsSpent, Abort, Goto
  <2>7. SpentOnlyToCross'
    BY <1>5, <2>1 DEF GateInv, TypeOK, SpentOnlyToCross, Crossed, Abort, Goto
  <2>8. ReservedIsOwned'
    BY <1>5, <2>1 DEF GateInv, TypeOK, ReservedIsOwned, Owns, HeldIsPending, Abort, Goto
  <2>9. QED
    BY <2>2, <2>3, <2>4, <2>5, <2>6, <2>7, <2>8 DEF GateInv
<1>6. ASSUME NEW e \in Evals, ConsumeAll(e)
      PROVE  GateInv'
  <2>0. pend[e] \in SUBSET Overrides
    BY <1>0 DEF TypeOK
  <2>1. CASE \A o \in pend[e] : Consumable(o)
    <3>1. Consumed(pend[e])
      <4>1. Consume(pend[e])
        BY <1>6, <2>1 DEF ConsumeAll
      <4>2. QED
        BY <4>1, <1>0, <2>0, ConsumeEffect
    <3>2. TypeOK'
      <4>1. /\ pc' = [pc EXCEPT ![e] = "crossed"] /\ held' = [held EXCEPT ![e] = {}]
            /\ UNCHANGED <<clock, cp, decision, claimed, surplus, applied, pend, asks, queued, faults, crashes>>
        BY <1>6, <2>1 DEF ConsumeAll, Goto
      <4>2. ovr' \in [Overrides -> Override]
        BY <3>1 DEF Consumed
      <4>3. QED
        BY <1>0, <4>1, <4>2 DEF TypeOK, Steps
    <3>3. BlankIsFree'
      BY <1>6, <2>0, <2>1, <3>1 DEF GateInv, TypeOK, BlankIsFree, Consumed, Named, Consumable, ConsumeAll, Goto
    <3>4. CrossedIsSpent'
      BY <1>6, <2>0, <2>1, <3>1 DEF GateInv, TypeOK, CrossedIsSpent, Crossed, BlankIsFree, Consumed, Named, Consumable, ConsumeAll, Goto
    <3>5. HeldIsPending'
      BY <1>6, <2>0, <2>1, <3>1 DEF GateInv, TypeOK, HeldIsPending, Consumed, Named, Consumable, ConsumeAll, Goto
    <3>6. OneLaunchPerApproval'
      BY <1>6, <2>0, <2>1, <3>1 DEF GateInv, TypeOK, OneLaunchPerApproval, Crossed, CrossedIsSpent, Consumed, Named, Consumable, ConsumeAll, Goto
    <3>7. SpentOnlyToCross'
      BY <1>6, <2>0, <2>1, <3>1 DEF GateInv, TypeOK, SpentOnlyToCross, Crossed, Consumed, Named, Consumable, ConsumeAll, Goto
    <3>8. ReservedIsOwned'
      BY <1>6, <2>0, <2>1, <3>1 DEF GateInv, TypeOK, ReservedIsOwned, Owns, HeldIsPending, Consumed, Named, Consumable, ConsumeAll, Goto
    <3>9. QED
      BY <3>2, <3>3, <3>4, <3>5, <3>6, <3>7, <3>8 DEF GateInv
  <2>2. CASE ~\A o \in pend[e] : Consumable(o)
    <3>1. UNCHANGED <<ovr, held>> /\ \A p \in Overrides : Reserved(p)' <=> Reserved(p)
      BY <1>6, <2>2 DEF ConsumeAll, Reserved, OneShot
    <3>2. TypeOK'
      BY <1>0, <1>6, <2>2, <3>1 DEF TypeOK, Steps, ConsumeAll, Goto
    <3>3. BlankIsFree'
      BY <1>6, <2>2, <3>1 DEF GateInv, TypeOK, BlankIsFree, ConsumeAll, Goto
    <3>4. CrossedIsSpent'
      BY <1>6, <2>2, <3>1 DEF GateInv, TypeOK, CrossedIsSpent, Crossed, BlankIsFree, ConsumeAll, Goto
    <3>5. HeldIsPending'
      BY <1>6, <2>2, <3>1 DEF GateInv, TypeOK, HeldIsPending, ConsumeAll, Goto
    <3>6. OneLaunchPerApproval'
      BY <1>6, <2>2, <3>1 DEF GateInv, TypeOK, OneLaunchPerApproval, Crossed, CrossedIsSpent, ConsumeAll, Goto
    <3>7. SpentOnlyToCross'
      BY <1>6, <2>2, <3>1 DEF GateInv, TypeOK, SpentOnlyToCross, Crossed, ConsumeAll, Goto
    <3>8. ReservedIsOwned'
      BY <1>6, <2>2, <3>1, SMTT(30) DEF GateInv, TypeOK, ReservedIsOwned, Owns, HeldIsPending, ConsumeAll, Goto
    <3>9. QED
      BY <3>2, <3>3, <3>4, <3>5, <3>6, <3>7, <3>8 DEF GateInv
  <2>3. QED
    BY <2>1, <2>2
<1>7. ASSUME NEW e \in Evals, Launch(e)
      PROVE  GateInv'
  <2>1. UNCHANGED ovr /\ \A p \in Overrides : Reserved(p)' <=> Reserved(p)
    BY <1>7 DEF Launch, Reserved, OneShot
  <2>2. TypeOK'
    BY <1>0, <1>7, <2>1 DEF TypeOK, Steps, Launch, Goto
  <2>3. BlankIsFree'
    BY <1>7, <2>1 DEF GateInv, TypeOK, BlankIsFree, Launch, Goto
  <2>4. CrossedIsSpent'
    BY <1>7, <2>1 DEF GateInv, TypeOK, CrossedIsSpent, Crossed, BlankIsFree, Launch, Goto
  <2>5. HeldIsPending'
    BY <1>7, <2>1 DEF GateInv, TypeOK, HeldIsPending, Launch, Goto
  <2>6. OneLaunchPerApproval'
    BY <1>7, <2>1 DEF GateInv, TypeOK, OneLaunchPerApproval, Crossed, CrossedIsSpent, Launch, Goto
  <2>7. SpentOnlyToCross'
    BY <1>7, <2>1 DEF GateInv, TypeOK, SpentOnlyToCross, Crossed, Launch, Goto
  <2>8. ReservedIsOwned'
    BY <1>7, <2>1 DEF GateInv, TypeOK, ReservedIsOwned, Owns, HeldIsPending, Launch, Goto
  <2>9. QED
    BY <2>2, <2>3, <2>4, <2>5, <2>6, <2>7, <2>8 DEF GateInv
<1>8. ASSUME NEW e \in Evals, Leave(e)
      PROVE  GateInv'
  <2>1. UNCHANGED ovr /\ \A p \in Overrides : Reserved(p)' <=> Reserved(p)
    BY <1>8 DEF Leave, Reserved, OneShot
  <2>2. TypeOK'
    BY <1>0, <1>8, <2>1 DEF TypeOK, Steps, Leave, Goto
  <2>3. BlankIsFree'
    BY <1>8, <2>1 DEF GateInv, TypeOK, BlankIsFree, Leave, Goto
  <2>4. CrossedIsSpent'
    BY <1>8, <2>1 DEF GateInv, TypeOK, CrossedIsSpent, Crossed, BlankIsFree, Leave, Goto
  <2>5. HeldIsPending'
    BY <1>8, <2>1 DEF GateInv, TypeOK, HeldIsPending, Leave, Goto
  <2>6. OneLaunchPerApproval'
    BY <1>8, <2>1 DEF GateInv, TypeOK, OneLaunchPerApproval, Crossed, CrossedIsSpent, Leave, Goto
  <2>7. SpentOnlyToCross'
    BY <1>8, <2>1 DEF GateInv, TypeOK, SpentOnlyToCross, Crossed, Leave, Goto
  <2>8. ReservedIsOwned'
    BY <1>8, <2>1 DEF GateInv, TypeOK, ReservedIsOwned, Owns, HeldIsPending, Leave, Goto
  <2>9. QED
    BY <2>2, <2>3, <2>4, <2>5, <2>6, <2>7, <2>8 DEF GateInv
<1>9. ASSUME NEW e \in Evals, Crash(e)
      PROVE  GateInv'
  <2>1. UNCHANGED ovr /\ \A p \in Overrides : Reserved(p)' <=> Reserved(p)
    BY <1>9 DEF Crash, Reserved, OneShot
  <2>2. TypeOK'
    BY <1>0, <1>9, <2>1 DEF TypeOK, Steps, Crash, Goto
  <2>3. BlankIsFree'
    BY <1>9, <2>1 DEF GateInv, TypeOK, BlankIsFree, Crash, Goto
  <2>4. CrossedIsSpent'
    BY <1>9, <2>1 DEF GateInv, TypeOK, CrossedIsSpent, Crossed, BlankIsFree, Crash, Goto
  <2>5. HeldIsPending'
    BY <1>9, <2>1 DEF GateInv, TypeOK, HeldIsPending, Crash, Goto
  <2>6. OneLaunchPerApproval'
    BY <1>9, <2>1 DEF GateInv, TypeOK, OneLaunchPerApproval, Crossed, CrossedIsSpent, Crash, Goto
  <2>7. SpentOnlyToCross'
    BY <1>9, <2>1 DEF GateInv, TypeOK, SpentOnlyToCross, Crossed, Crash, Goto
  <2>8. ReservedIsOwned'
    BY <1>9, <2>1 DEF GateInv, TypeOK, ReservedIsOwned, Owns, HeldIsPending, Crash, Goto
  <2>9. QED
    BY <2>2, <2>3, <2>4, <2>5, <2>6, <2>7, <2>8 DEF GateInv
<1>10. ASSUME NEW e \in Evals, NEW x \in Rules, RecordCheckpoint(e, x)
      PROVE  GateInv'
  <2>1. UNCHANGED ovr /\ \A p \in Overrides : Reserved(p)' <=> Reserved(p)
    BY <1>10 DEF RecordCheckpoint, Reserved, OneShot
  <2>2. TypeOK'
    BY <1>0, <1>10, <2>1 DEF TypeOK, Steps, RecordCheckpoint
  <2>3. BlankIsFree'
    BY <1>10, <2>1 DEF GateInv, TypeOK, BlankIsFree, RecordCheckpoint
  <2>4. CrossedIsSpent'
    BY <1>10, <2>1 DEF GateInv, TypeOK, CrossedIsSpent, Crossed, BlankIsFree, RecordCheckpoint
  <2>5. HeldIsPending'
    BY <1>10, <2>1 DEF GateInv, TypeOK, HeldIsPending, RecordCheckpoint
  <2>6. OneLaunchPerApproval'
    BY <1>10, <2>1 DEF GateInv, TypeOK, OneLaunchPerApproval, Crossed, CrossedIsSpent, RecordCheckpoint
  <2>7. SpentOnlyToCross'
    BY <1>10, <2>1 DEF GateInv, TypeOK, SpentOnlyToCross, Crossed, RecordCheckpoint
  <2>8. ReservedIsOwned'
    BY <1>10, <2>1 DEF GateInv, TypeOK, ReservedIsOwned, Owns, HeldIsPending, RecordCheckpoint
  <2>9. QED
    BY <2>2, <2>3, <2>4, <2>5, <2>6, <2>7, <2>8 DEF GateInv
<1>11. ASSUME NEW e \in Evals, NEW o \in Overrides, ReleaseSurplus(e, o)
      PROVE  GateInv'
  <2>1. Released(o)
    BY <1>11, <1>0, ReleaseEffect DEF ReleaseSurplus
  <2>2. TypeOK'
    BY <1>0, <1>11, <2>1 DEF TypeOK, Steps, Released, Named, Unspent, ReleaseSurplus
  <2>3. BlankIsFree'
    BY <1>11, <2>1 DEF GateInv, TypeOK, BlankIsFree, Released, Named, Unspent, ReleaseSurplus
  <2>4. CrossedIsSpent'
    BY <1>11, <2>1 DEF GateInv, TypeOK, CrossedIsSpent, Crossed, BlankIsFree, Released, Named, Unspent, ReleaseSurplus
  <2>5. HeldIsPending'
    BY <1>11, <2>1 DEF GateInv, TypeOK, HeldIsPending, Released, Named, Unspent, ReleaseSurplus
  <2>6. OneLaunchPerApproval'
    BY <1>11, <2>1 DEF GateInv, TypeOK, OneLaunchPerApproval, Crossed, CrossedIsSpent, Released, Named, Unspent, ReleaseSurplus
  <2>7. SpentOnlyToCross'
    BY <1>11, <2>1 DEF GateInv, TypeOK, SpentOnlyToCross, Crossed, Released, Named, Unspent, ReleaseSurplus
  <2>8. ReservedIsOwned'
    BY <1>11, <2>1 DEF GateInv, TypeOK, ReservedIsOwned, Owns, HeldIsPending, Released, Named, Unspent, ReleaseSurplus
  <2>9. QED
    BY <2>2, <2>3, <2>4, <2>5, <2>6, <2>7, <2>8 DEF GateInv
<1>12. ASSUME NEW e \in Evals, NEW o \in Overrides, ApplyOneShot(e, o)
      PROVE  GateInv'
  <2>1. CASE ovr[o].verdict = "DENY"
    <3>1. Consumed({o})
      BY <1>12, <1>0, <2>1, ConsumeEffect DEF ApplyOneShot
    <3>2. TypeOK'
      BY <1>0, <1>12, <2>1, <3>1 DEF TypeOK, Steps, Consumed, Named, Consumable, ApplyOneShot
    <3>3. BlankIsFree'
      BY <1>12, <2>1, <3>1 DEF GateInv, TypeOK, BlankIsFree, Consumed, Named, Consumable, ApplyOneShot
    <3>4. CrossedIsSpent'
      BY <1>12, <2>1, <3>1 DEF GateInv, TypeOK, CrossedIsSpent, Crossed, BlankIsFree, Consumed, Named, Consumable, ApplyOneShot
    <3>5. HeldIsPending'
      BY <1>12, <2>1, <3>1 DEF GateInv, TypeOK, HeldIsPending, Consumed, Named, Consumable, ApplyOneShot
    <3>6. OneLaunchPerApproval'
      BY <1>12, <2>1, <3>1 DEF GateInv, TypeOK, OneLaunchPerApproval, Crossed, CrossedIsSpent, Consumed, Named, Consumable, ApplyOneShot
    <3>7. SpentOnlyToCross'
      BY <1>12, <2>1, <3>1 DEF GateInv, TypeOK, SpentOnlyToCross, Crossed, Consumed, Named, Consumable, ApplyOneShot
    <3>8. ReservedIsOwned'
      BY <1>12, <2>1, <3>1 DEF GateInv, TypeOK, ReservedIsOwned, Owns, HeldIsPending, Consumed, Named, Consumable, ApplyOneShot
    <3>9. QED
      BY <3>2, <3>3, <3>4, <3>5, <3>6, <3>7, <3>8 DEF GateInv
  <2>2. CASE ovr[o].verdict = "ALLOW" /\ decision[e] # "ALLOW"
    <3>1. Released(o)
      BY <1>12, <1>0, <2>2, ReleaseEffect DEF ApplyOneShot
    <3>2. TypeOK'
      BY <1>0, <1>12, <2>2, <3>1 DEF TypeOK, Steps, Released, Named, Unspent, ApplyOneShot
    <3>3. BlankIsFree'
      BY <1>12, <2>2, <3>1 DEF GateInv, TypeOK, BlankIsFree, Released, Named, Unspent, ApplyOneShot
    <3>4. CrossedIsSpent'
      BY <1>12, <2>2, <3>1 DEF GateInv, TypeOK, CrossedIsSpent, Crossed, BlankIsFree, Released, Named, Unspent, ApplyOneShot
    <3>5. HeldIsPending'
      BY <1>12, <2>2, <3>1 DEF GateInv, TypeOK, HeldIsPending, Released, Named, Unspent, ApplyOneShot
    <3>6. OneLaunchPerApproval'
      BY <1>12, <2>2, <3>1 DEF GateInv, TypeOK, OneLaunchPerApproval, Crossed, CrossedIsSpent, Released, Named, Unspent, ApplyOneShot
    <3>7. SpentOnlyToCross'
      BY <1>12, <2>2, <3>1 DEF GateInv, TypeOK, SpentOnlyToCross, Crossed, Released, Named, Unspent, ApplyOneShot
    <3>8. ReservedIsOwned'
      BY <1>12, <2>2, <3>1 DEF GateInv, TypeOK, ReservedIsOwned, Owns, HeldIsPending, Released, Named, Unspent, ApplyOneShot
    <3>9. QED
      BY <3>2, <3>3, <3>4, <3>5, <3>6, <3>7, <3>8 DEF GateInv
  <2>3. CASE ovr[o].verdict = "ALLOW" /\ decision[e] = "ALLOW"
    <3>1. UNCHANGED ovr /\ \A p \in Overrides : Reserved(p)' <=> Reserved(p)
      BY <1>12, <1>0, <2>3 DEF ApplyOneShot, Reserved, OneShot
    <3>2. TypeOK'
      BY <1>0, <1>12, <2>3, <3>1 DEF TypeOK, Steps, ApplyOneShot
    <3>3. BlankIsFree'
      BY <1>12, <2>3, <3>1 DEF GateInv, TypeOK, BlankIsFree, ApplyOneShot
    <3>4. CrossedIsSpent'
      BY <1>12, <2>3, <3>1 DEF GateInv, TypeOK, CrossedIsSpent, Crossed, BlankIsFree, ApplyOneShot
    <3>5. HeldIsPending'
      BY <1>12, <2>3, <3>1 DEF GateInv, TypeOK, HeldIsPending, ApplyOneShot
    <3>6. OneLaunchPerApproval'
      BY <1>12, <2>3, <3>1 DEF GateInv, TypeOK, OneLaunchPerApproval, Crossed, CrossedIsSpent, ApplyOneShot
    <3>7. SpentOnlyToCross'
      BY <1>12, <2>3, <3>1 DEF GateInv, TypeOK, SpentOnlyToCross, Crossed, ApplyOneShot
    <3>8. ReservedIsOwned'
      BY <1>12, <2>3, <3>1 DEF GateInv, TypeOK, ReservedIsOwned, Owns, HeldIsPending, ApplyOneShot
    <3>9. QED
      BY <3>2, <3>3, <3>4, <3>5, <3>6, <3>7, <3>8 DEF GateInv
  <2>4. QED
    BY <1>12, <2>1, <2>2, <2>3 DEF ApplyOneShot
<1>13. ASSUME NEW e \in Evals, NEW o \in Overrides, ReleasePending(e, o)
      PROVE  GateInv'
  <2>1. Released(o)
    BY <1>13, <1>0, ReleaseEffect DEF ReleasePending
  <2>2. TypeOK'
    BY <1>0, <1>13, <2>1 DEF TypeOK, Steps, Released, Named, Unspent, ReleasePending
  <2>3. BlankIsFree'
    BY <1>13, <2>1 DEF GateInv, TypeOK, BlankIsFree, Released, Named, Unspent, ReleasePending
  <2>4. CrossedIsSpent'
    BY <1>13, <2>1 DEF GateInv, TypeOK, CrossedIsSpent, Crossed, BlankIsFree, Released, Named, Unspent, ReleasePending
  <2>5. HeldIsPending'
    BY <1>13, <2>1 DEF GateInv, TypeOK, HeldIsPending, Released, Named, Unspent, ReleasePending
  <2>6. OneLaunchPerApproval'
    BY <1>13, <2>1 DEF GateInv, TypeOK, OneLaunchPerApproval, Crossed, CrossedIsSpent, Released, Named, Unspent, ReleasePending
  <2>7. SpentOnlyToCross'
    BY <1>13, <2>1 DEF GateInv, TypeOK, SpentOnlyToCross, Crossed, Released, Named, Unspent, ReleasePending
  <2>8. ReservedIsOwned'
    BY <1>13, <2>1 DEF GateInv, TypeOK, ReservedIsOwned, Owns, HeldIsPending, Released, Named, Unspent, ReleasePending
  <2>9. QED
    BY <2>2, <2>3, <2>4, <2>5, <2>6, <2>7, <2>8 DEF GateInv
<1>14. ASSUME NEW e \in Evals, NEW o \in Overrides, ReleaseFails(e, o)
      PROVE  GateInv'
  <2>1. UNCHANGED ovr /\ \A p \in Overrides : Reserved(p)' <=> Reserved(p)
    BY <1>14 DEF ReleaseFails, Reserved, OneShot
  <2>2. TypeOK'
    BY <1>0, <1>14, <2>1 DEF TypeOK, Steps, ReleaseFails, Fault, Goto
  <2>3. BlankIsFree'
    BY <1>14, <2>1 DEF GateInv, TypeOK, BlankIsFree, ReleaseFails, Fault, Goto
  <2>4. CrossedIsSpent'
    BY <1>14, <2>1 DEF GateInv, TypeOK, CrossedIsSpent, Crossed, BlankIsFree, ReleaseFails, Fault, Goto
  <2>5. HeldIsPending'
    BY <1>14, <2>1 DEF GateInv, TypeOK, HeldIsPending, ReleaseFails, Fault, Goto
  <2>6. OneLaunchPerApproval'
    BY <1>14, <2>1 DEF GateInv, TypeOK, OneLaunchPerApproval, Crossed, CrossedIsSpent, ReleaseFails, Fault, Goto
  <2>7. SpentOnlyToCross'
    BY <1>14, <2>1 DEF GateInv, TypeOK, SpentOnlyToCross, Crossed, ReleaseFails, Fault, Goto
  <2>8. ReservedIsOwned'
    BY <1>14, <2>1 DEF GateInv, TypeOK, ReservedIsOwned, Owns, HeldIsPending, ReleaseFails, Fault, Goto
  <2>9. QED
    BY <2>2, <2>3, <2>4, <2>5, <2>6, <2>7, <2>8 DEF GateInv
<1>15. ASSUME NEW o \in Overrides, Replay(o)
      PROVE  GateInv'
  <2>1. Released(o)
    BY <1>15, <1>0, ReleaseEffect DEF Replay
  <2>2. TypeOK'
    BY <1>0, <1>15, <2>1 DEF TypeOK, Steps, Released, Named, Unspent, Replay
  <2>3. BlankIsFree'
    BY <1>15, <2>1 DEF GateInv, TypeOK, BlankIsFree, Released, Named, Unspent, Replay
  <2>4. CrossedIsSpent'
    BY <1>15, <2>1 DEF GateInv, TypeOK, CrossedIsSpent, Crossed, BlankIsFree, Released, Named, Unspent, Replay
  <2>5. HeldIsPending'
    BY <1>15, <2>1 DEF GateInv, TypeOK, HeldIsPending, Released, Named, Unspent, Replay
  <2>6. OneLaunchPerApproval'
    BY <1>15, <2>1 DEF GateInv, TypeOK, OneLaunchPerApproval, Crossed, CrossedIsSpent, Released, Named, Unspent, Replay
  <2>7. SpentOnlyToCross'
    BY <1>15, <2>1 DEF GateInv, TypeOK, SpentOnlyToCross, Crossed, Released, Named, Unspent, Replay
  <2>8. ReservedIsOwned'
    BY <1>15, <2>1 DEF GateInv, TypeOK, ReservedIsOwned, Owns, HeldIsPending, Released, Named, Unspent, Replay
  <2>9. QED
    BY <2>2, <2>3, <2>4, <2>5, <2>6, <2>7, <2>8 DEF GateInv
<1>16. ASSUME NEW c \in Evals \X Rules, NEW v \in Verdicts,
             NEW kind \in {"oneshot", "rule"}, NEW life \in Lifetimes,
             AskResolve(c, v, kind, life)
      PROVE  GateInv'
  <2>1. PICK o \in Overrides : Filled(o)
    BY <1>16, <1>0, AskEffect
  <2>2. TypeOK'
    BY <1>0, <1>16, <2>1 DEF TypeOK, Steps, Filled, AskResolve
  <2>3. BlankIsFree'
    BY <1>16, <2>1 DEF GateInv, TypeOK, BlankIsFree, Filled, AskResolve
  <2>4. CrossedIsSpent'
    BY <1>16, <2>1 DEF GateInv, TypeOK, CrossedIsSpent, Crossed, BlankIsFree, Filled, AskResolve
  <2>5. HeldIsPending'
    BY <1>16, <2>1 DEF GateInv, TypeOK, HeldIsPending, Filled, AskResolve
  <2>6. OneLaunchPerApproval'
    BY <1>16, <2>1 DEF GateInv, TypeOK, OneLaunchPerApproval, Crossed, CrossedIsSpent, Filled, AskResolve
  <2>7. SpentOnlyToCross'
    BY <1>16, <2>1 DEF GateInv, TypeOK, SpentOnlyToCross, Crossed, Filled, AskResolve
  <2>8. ReservedIsOwned'
    BY <1>16, <2>1 DEF GateInv, TypeOK, ReservedIsOwned, Owns, HeldIsPending, Filled, AskResolve
  <2>9. QED
    BY <2>2, <2>3, <2>4, <2>5, <2>6, <2>7, <2>8 DEF GateInv
<1>17. ASSUME Tick
      PROVE  GateInv'
  <2>1. UNCHANGED ovr /\ \A p \in Overrides : Reserved(p)' <=> Reserved(p)
    BY <1>17 DEF Tick, Reserved, OneShot
  <2>2. TypeOK'
    BY <1>0, <1>17, <2>1 DEF TypeOK, Steps, Tick
  <2>3. BlankIsFree'
    BY <1>17, <2>1 DEF GateInv, TypeOK, BlankIsFree, Tick
  <2>4. CrossedIsSpent'
    BY <1>17, <2>1 DEF GateInv, TypeOK, CrossedIsSpent, Crossed, BlankIsFree, Tick
  <2>5. HeldIsPending'
    BY <1>17, <2>1 DEF GateInv, TypeOK, HeldIsPending, Tick
  <2>6. OneLaunchPerApproval'
    BY <1>17, <2>1 DEF GateInv, TypeOK, OneLaunchPerApproval, Crossed, CrossedIsSpent, Tick
  <2>7. SpentOnlyToCross'
    BY <1>17, <2>1 DEF GateInv, TypeOK, SpentOnlyToCross, Crossed, Tick
  <2>8. ReservedIsOwned'
    BY <1>17, <2>1 DEF GateInv, TypeOK, ReservedIsOwned, Owns, HeldIsPending, Tick
  <2>9. QED
    BY <2>2, <2>3, <2>4, <2>5, <2>6, <2>7, <2>8 DEF GateInv
<1>18. CASE UNCHANGED vars
  BY <1>18 DEF vars, GateInv, TypeOK, BlankIsFree, CrossedIsSpent, HeldIsPending,
         OneLaunchPerApproval, SpentOnlyToCross, ReservedIsOwned, Crossed, Reserved, Owns, OneShot
<1>19. QED
  BY <1>1, <1>2, <1>3, <1>4, <1>5, <1>6, <1>7, <1>8, <1>9, <1>10, <1>11, <1>12, <1>13, <1>14, <1>15, <1>16, <1>17, <1>18 DEF Next, Eval

(* GateInv holds in every reachable state.                                 *)
THEOREM GateInvariance == Spec => []GateInv
  BY InitInv, NextInv, PTL DEF Spec

(* The tables and every process keep their types.                          *)
THEOREM TypeCorrectness == Spec => []TypeOK
<1>1. GateInv => TypeOK
  BY DEF GateInv
<1>2. QED
  BY <1>1, GateInvariance, PTL

(* One approval never takes two runs across the execution boundary,        *)
(* although a reservation does not say whose it is: the consumption that   *)
(* precedes a launch is the only claim that counts.                        *)
THEOREM ApprovalsAreSingleUse == Spec => []OneLaunchPerApproval
<1>1. GateInv => OneLaunchPerApproval
  BY DEF GateInv
<1>2. QED
  BY <1>1, GateInvariance, PTL

(* No approval is burned by an evaluation or an aborted launch.            *)
THEOREM ApprovalsAreSpentToCross == Spec => []SpentOnlyToCross
<1>1. GateInv => SpentOnlyToCross
  BY DEF GateInv
<1>2. QED
  BY <1>1, GateInvariance, PTL

(* Without failures every reservation has an evaluation that will resolve  *)
(* it, so none is left when all have returned.                             *)
THEOREM ApprovalsSurvive == Spec => []ApprovalSurvives
<1>1. GateInv => ApprovalSurvives
  <2> SUFFICES ASSUME GateInv, faults = 0, crashes = 0, \A e \in Evals : AtRest(e),
                      NEW o \in Overrides, Reserved(o)
               PROVE  FALSE
    BY DEF GateInv, TypeOK, Override, ApprovalSurvives, Reserved
  <2>1. PICK e \in Evals : Owns(e, o)
    BY DEF GateInv, ReservedIsOwned
  <2>2. QED
    BY <2>1 DEF Owns, AtRest
<1>2. QED
  BY <1>1, GateInvariance, PTL

-----------------------------------------------------------------------------
(* Answers from the table of runs                                          *)

HIDE PolicyAssumption DEF Never

ReplaySpec == ReplayInit /\ [][ReplayNext]_rpVars

Views == [Inputs -> [v : Nat, hidden : BOOLEAN]]
RunIds == [head : Nat, inputs : [Inputs -> Nat], eligible : BOOLEAN]
Marks == {"RUNNING", "QUARANTINED", "APPROVED", "MERGED_LEDGER_PENDING", "ROLLED_BACK"}
Rows == [status : Marks, id : RunIds, view : Views, made : Nat, tree : Nat, payload : BOOLEAN,
         raced : BOOLEAN]
Places == {"idle", "freeze", "resolve", "gate", "identity", "probe", "running", "merged"}

ReplayTypes ==
  /\ world \in Views
  /\ root \in [git : BOOLEAN, head : Nat, tree : Nat, last : Nat]
  /\ runs \in Seq(Rows)
  /\ rp \in [pc : Places, view : Views, head : Nat, tree : Nat, id : RunIds \cup {<<>>}]

(* An identity says what was observed, and whether anything was hidden.    *)
Identifies(id, view) ==
  id \in RunIds /\ id.inputs = Observed(view) /\ id.eligible = StrictReplayEligible(view)

(* A row that is approved, or will be by reconcile, has the head it made.  *)
Stands(row) ==
  \/ row.status = "APPROVED"
  \/ row.status = "MERGED_LEDGER_PENDING" /\ row.payload
RowSound(row) ==
  /\ Identifies(row.id, row.view)
  /\ Stands(row) /\ root.git /\ ~row.raced => row.made = row.id.head

(* The run under way owns the newest row.                                  *)
OwnRow ==
  rp.pc \in {"running", "merged"} =>
    /\ Cur >= 1 /\ runs[Cur].status = "RUNNING" /\ runs[Cur].view = rp.view
    /\ Identifies(rp.id, rp.view)

ReplayInv ==
  /\ ReplayTypes
  /\ \A k \in 1..Len(runs) : RowSound(runs[k])
  /\ OwnRow
  /\ ReplaySound

-----------------------------------------------------------------------------
(* A nonempty set of row numbers has a largest.                            *)
LEMMA LatestRow ==
  ASSUME NEW n \in Nat, NEW M \in SUBSET (1..n), M # {}
  PROVE  \E k \in M : \A j \in M : j <= k
<1> DEFINE D == {d \in Nat : n - d \in M}
           P == {p \in Nat \X Nat : p[1] < p[2]}
<1>1. PICK m \in M : TRUE
  OBVIOUS
<1>2. D # {}
  <2>1. n - m \in Nat /\ n - (n - m) = m
    BY <1>1
  <2> QED BY <1>1, <2>1
<1>3. PICK d \in D : \A e \in D : ~(e < d)
  <2>1. IsWellFoundedOn(OpToRel(<, Nat), Nat)
    BY NatLessThanWellFounded
  <2>2. PICK d \in D : \A e \in D : ~(<<e, d>> \in OpToRel(<, Nat))
    BY <1>2, <2>1, WFMin
  <2> QED BY <2>2 DEF OpToRel
<1>4. n - d \in M
  BY <1>3
<1>5. ASSUME NEW j \in M PROVE j <= n - d
  <2>1. n - j \in Nat /\ n - (n - j) = j /\ j \in Nat /\ d \in Nat
    BY <1>3
  <2>2. n - j \in D
    BY <2>1
  <2>3. ~(n - j < d)
    BY <1>3, <2>2
  <2> QED BY <2>1, <2>3
<1> QED BY <1>4, <1>5

(* replayMatch answers with an approved row of exactly this identity.      *)
LEMMA MatchIsApproved ==
  ASSUME runs \in Seq(Rows), NEW id, replayMatch(id) # 0
  PROVE  /\ id.eligible
         /\ replayMatch(id) \in 1..Len(runs)
         /\ runs[replayMatch(id)].status = "APPROVED" /\ runs[replayMatch(id)].id = id
<1>1. id.eligible /\ Matches(id) # {}
  BY DEF replayMatch
<1>2. Matches(id) \in SUBSET (1..Len(runs)) /\ Len(runs) \in Nat
  BY DEF Matches
<1>3. \E k \in Matches(id) : \A j \in Matches(id) : j <= k
  BY <1>1, <1>2, LatestRow
<1>4. replayMatch(id) \in Matches(id)
  BY <1>1, <1>3 DEF replayMatch
<1> QED BY <1>1, <1>4 DEF Matches

(* Two views of one identity from which nothing is hidden are the same.    *)
LEMMA SameIdentitySameInputs ==
  ASSUME NEW u \in Views, NEW w \in Views, NEW id, Identifies(id, u), Identifies(id, w), id.eligible
  PROVE  \A i \in Inputs : u[i].v = w[i].v
<1> SUFFICES ASSUME NEW i \in Inputs PROVE u[i].v = w[i].v
  OBVIOUS
<1>1. ~u[i].hidden /\ ~w[i].hidden
  BY DEF Identifies, StrictReplayEligible
<1>2. Observed(u)[i] = Observed(w)[i]
  BY DEF Identifies
<1> QED BY <1>1, <1>2 DEF Observed

(* What the identity of a view is.                                         *)
LEMMA IdentityOfView ==
  ASSUME NEW view \in Views, NEW head \in Nat
  PROVE  /\ Identifies(computeExecutionIdentity(view, head), view)
         /\ computeExecutionIdentity(view, head).head = head
<1>1. Observed(view) \in [Inputs -> Nat]
  BY DEF Observed, Views
<1>2. StrictReplayEligible(view) \in BOOLEAN
  BY DEF StrictReplayEligible
<1> QED BY <1>1, <1>2 DEF computeExecutionIdentity, Identifies, RunIds

(* The head of an identity does not matter for what it says of the inputs. *)
LEMMA FinalIdentifies ==
  ASSUME ReplayTypes, NEW id, NEW view, Identifies(id, view)
  PROVE  Identifies(FinalIdentity(id), view) /\ FinalIdentity(id).head = HeadOf(root)
<1>1. HeadOf(root) \in Nat
  BY DEF HeadOf, ReplayTypes
<1> QED BY <1>1 DEF Identifies, FinalIdentity, RunIds

-----------------------------------------------------------------------------
(* One row changes.                                                        *)
LEMMA RowChanged ==
  ASSUME runs \in Seq(Rows), NEW k \in 1..Len(runs), NEW row \in Rows, runs' = [runs EXCEPT ![k] = row]
  PROVE  /\ runs' \in Seq(Rows) /\ Len(runs') = Len(runs) /\ runs'[k] = row
         /\ \A j \in 1..Len(runs) : j # k => runs'[j] = runs[j]
OBVIOUS

(* A row changes that stays sound, and the run under way may end.          *)
LEMMA RowKeeps ==
  ASSUME ReplayInv, NEW k \in 1..Len(runs), NEW row \in Rows, runs' = [runs EXCEPT ![k] = row],
         row.view = runs[k].view, RowSound(row), UNCHANGED <<world, replays>>,
         rp' = Idle \/ row.status = runs[k].status \/ runs[k].status # "RUNNING",
         root' \in [git : BOOLEAN, head : Nat, tree : Nat, last : Nat], root'.git = root.git,
         rp' = rp \/ rp' = Idle \/ (rp.pc = "running" /\ rp' = [rp EXCEPT !.pc = "merged"])
  PROVE  ReplayInv'
<1>1. /\ runs' \in Seq(Rows) /\ Len(runs') = Len(runs) /\ runs'[k] = row
      /\ \A j \in 1..Len(runs) : j # k => runs'[j] = runs[j]
  BY RowChanged DEF ReplayInv, ReplayTypes
<1>2. /\ rp' \in [pc : Places, view : Views, head : Nat, tree : Nat, id : RunIds \cup {<<>>}]
      /\ rp'.pc = "idle" \/ (rp'.view = rp.view /\ rp'.id = rp.id)
      /\ rp'.pc \in {"running", "merged"} => rp.pc \in {"running", "merged"}
  <2>1. Idle \in [pc : Places, view : Views, head : Nat, tree : Nat, id : RunIds \cup {<<>>}]
    BY DEF Idle, NoView, Plain, Views, Places
  <2>2. Idle.pc = "idle"
    BY DEF Idle
  <2>3. rp \in [pc : Places, view : Views, head : Nat, tree : Nat, id : RunIds \cup {<<>>}]
    BY DEF ReplayInv, ReplayTypes
  <2> QED BY <2>1, <2>2, <2>3 DEF Places
<1>3. ReplayTypes'
  BY <1>1, <1>2 DEF ReplayInv, ReplayTypes
<1>4. (\A j \in 1..Len(runs) : RowSound(runs[j]))'
  BY <1>1 DEF ReplayInv, RowSound, Identifies, Stands
<1>5. OwnRow'
  <2> SUFFICES ASSUME rp'.pc \in {"running", "merged"}
               PROVE  /\ Len(runs) >= 1 /\ runs'[Len(runs)].status = "RUNNING"
                      /\ runs'[Len(runs)].view = rp'.view /\ Identifies(rp.id, rp.view)
    BY <1>1, <1>2 DEF OwnRow, Cur, Identifies
  <2>1. /\ Len(runs) >= 1 /\ runs[Len(runs)].status = "RUNNING"
        /\ runs[Len(runs)].view = rp.view /\ Identifies(rp.id, rp.view) /\ rp'.view = rp.view
    BY <1>2 DEF ReplayInv, OwnRow, Cur
  <2>2. rp' # Idle
    BY DEF Idle
  <2>3. CASE k = Len(runs)
    BY <1>1, <2>1, <2>2, <2>3
  <2>4. CASE k # Len(runs)
    BY <1>1, <2>1, <2>4
  <2> QED BY <2>1, <2>3, <2>4
<1>6. ReplaySound'
  BY DEF ReplayInv, ReplaySound
<1> QED BY <1>1, <1>3, <1>4, <1>5, <1>6 DEF ReplayInv

(* No row changes.                                                         *)
LEMMA NoRowKeeps ==
  ASSUME ReplayInv, UNCHANGED <<runs, replays>>, world' \in Views,
         root' \in [git : BOOLEAN, head : Nat, tree : Nat, last : Nat], root'.git = root.git,
         rp' \in [pc : Places, view : Views, head : Nat, tree : Nat, id : RunIds \cup {<<>>}],
         rp' = rp \/ rp'.pc \notin {"running", "merged"}
  PROVE  ReplayInv'
<1>1. ReplayTypes'
  BY DEF ReplayInv, ReplayTypes
<1>2. (\A k \in 1..Len(runs) : RowSound(runs[k]))'
  BY DEF ReplayInv, RowSound, Identifies, Stands
<1>3. OwnRow'
  BY DEF ReplayInv, OwnRow, Cur
<1>4. ReplaySound'
  BY DEF ReplayInv, ReplaySound
<1> QED BY <1>1, <1>2, <1>3, <1>4 DEF ReplayInv

(* Commits keep what the root is.                                          *)
LEMMA CommittedRoot ==
  ASSUME ReplayTypes
  PROVE  /\ Committed(root) \in [git : BOOLEAN, head : Nat, tree : Nat, last : Nat]
         /\ Committed(root).git = root.git
<1>1. Committed(root) = [git |-> root.git, head |-> IF root.git THEN root.last + 1 ELSE root.head,
                         tree |-> root.last + 1, last |-> root.last + 1]
  <2> DEFINE u == [root EXCEPT !.tree = root.last + 1]
             v == [u EXCEPT !.last = root.last + 1]
             h == IF root.git THEN root.last + 1 ELSE root.head
  <2>1. root = [git |-> root.git, head |-> root.head, tree |-> root.tree, last |-> root.last]
    BY DEF ReplayTypes
  <2>2. u = [git |-> root.git, head |-> root.head, tree |-> root.last + 1, last |-> root.last]
    BY <2>1
  <2> HIDE DEF u
  <2>3. v = [git |-> root.git, head |-> root.head, tree |-> root.last + 1, last |-> root.last + 1]
    BY <2>2
  <2> HIDE DEF v
  <2>4. [v EXCEPT !.head = h] = [git |-> root.git, head |-> h, tree |-> root.last + 1,
                                 last |-> root.last + 1]
    BY <2>3
  <2>5. Committed(root) = [v EXCEPT !.head = h]
    BY <2>2, <2>3 DEF Committed, u, v
  <2> QED BY <2>4, <2>5
<1> QED BY <1>1 DEF ReplayTypes

(* A row is inserted, or an earlier one is the answer.                     *)
LEMMA ProbeKeeps ==
  ASSUME ReplayInv, Probe
  PROVE  ReplayInv'
<1> DEFINE id == computeExecutionIdentity(rp.view, rp.head)
           prior == replayMatch(id)
           row == [status |-> "RUNNING", id |-> id, view |-> rp.view, made |-> 0, tree |-> 0,
                   payload |-> FALSE, raced |-> FALSE]
<1>1. /\ rp \in [pc : Places, view : Views, head : Nat, tree : Nat, id : RunIds \cup {<<>>}]
      /\ runs \in Seq(Rows) /\ Len(runs) \in Nat /\ UNCHANGED <<world, root, edits>>
  BY DEF Probe, ReplayInv, ReplayTypes
<1>2. Identifies(id, rp.view) /\ id.head = rp.head
  BY <1>1, IdentityOfView
<1> HIDE DEF id
<1>3. CASE /\ prior # 0 /\ rp' = Idle /\ UNCHANGED runs
           /\ replays' = replays \cup {[of |-> prior, was |-> runs[prior], view |-> rp.view,
                                       head |-> rp.head, tree |-> rp.tree]}
  <2>1. id.eligible /\ prior \in 1..Len(runs) /\ runs[prior].status = "APPROVED" /\ runs[prior].id = id
    BY <1>1, <1>3, MatchIsApproved
  <2> HIDE DEF prior
  <2>2. runs[prior] \in Rows /\ RowSound(runs[prior])
    BY <1>1, <2>1 DEF ReplayInv
  <2>3. \A i \in Inputs : rp.view[i].v = runs[prior].view[i].v
    <3>1. runs[prior].view \in Views /\ rp.view \in Views
      BY <1>1, <2>2 DEF Rows
    <3>2. Identifies(id, runs[prior].view)
      BY <2>1, <2>2 DEF RowSound
    <3> QED BY <1>2, <2>1, <3>1, <3>2, SameIdentitySameInputs
  <2>4. root.git /\ ~runs[prior].raced => runs[prior].made = rp.head
    <3>1. Stands(runs[prior])
      BY <2>1 DEF Stands
    <3>2. root.git /\ ~runs[prior].raced => runs[prior].made = runs[prior].id.head
      BY <2>2, <3>1 DEF RowSound
    <3> QED BY <1>2, <2>1, <3>2
  <2> DEFINE a == [of |-> prior, was |-> runs[prior], view |-> rp.view, head |-> rp.head,
                   tree |-> rp.tree]
  <2>5. /\ a.was.status = "APPROVED" /\ a.was.id.head = a.head
        /\ \A i \in Inputs : a.view[i].v = a.was.view[i].v
        /\ root.git /\ ~a.was.raced => a.was.made = a.head
    BY <1>2, <2>1, <2>3, <2>4
  <2>6. replays' = replays \cup {a}
    BY <1>3
  <2> HIDE DEF a
  <2>7. ReplaySound'
    BY <1>1, <2>5, <2>6 DEF ReplayInv, ReplaySound
  <2>8. Idle \in [pc : Places, view : Views, head : Nat, tree : Nat, id : RunIds \cup {<<>>}]
        /\ Idle.pc = "idle"
    BY DEF Idle, NoView, Plain, Views, Places
  <2>9. ReplayTypes'
    BY <1>1, <1>3, <2>8 DEF ReplayInv, ReplayTypes
  <2>10. OwnRow' /\ (\A k \in 1..Len(runs) : RowSound(runs[k]))'
    BY <1>1, <1>3, <2>8 DEF ReplayInv, OwnRow, RowSound, Identifies, Stands
  <2> QED BY <2>7, <2>9, <2>10 DEF ReplayInv
<1>4. CASE /\ runs' = Append(runs, row) /\ UNCHANGED replays
           /\ rp' = [rp EXCEPT !.pc = "running", !.id = id]
  <2>1. row \in Rows /\ row.view = rp.view /\ RowSound(row)
    BY <1>1, <1>2 DEF Rows, Marks, RowSound, Stands, Identifies
  <2> HIDE DEF row
  <2>2. /\ runs' \in Seq(Rows) /\ Len(runs') = Len(runs) + 1 /\ runs'[Len(runs) + 1] = row
        /\ \A k \in 1..Len(runs) : runs'[k] = runs[k]
    BY <1>1, <1>4, <2>1
  <2>3. /\ rp' \in [pc : Places, view : Views, head : Nat, tree : Nat, id : RunIds \cup {<<>>}]
        /\ rp'.view = rp.view /\ rp'.id = id
    <3>1. rp' = [pc |-> "running", view |-> rp.view, head |-> rp.head, tree |-> rp.tree, id |-> id]
      BY <1>1, <1>4
    <3> QED BY <1>1, <1>2, <3>1 DEF Places, Identifies
  <2>4. ReplayTypes'
    BY <1>1, <2>2, <2>3 DEF ReplayInv, ReplayTypes
  <2>5. (\A k \in 1..Len(runs) : RowSound(runs[k]))'
    <3>1. \A k \in 1..Len(runs) + 1 : k \in 1..Len(runs) \/ k = Len(runs) + 1
      BY <1>1
    <3>2. \A k \in 1..Len(runs) + 1 : RowSound(runs'[k])
      BY <2>1, <2>2, <3>1 DEF ReplayInv
    <3> QED BY <1>1, <2>2, <3>2 DEF RowSound, Identifies, Stands
  <2>6. OwnRow'
    <3>1. row.status = "RUNNING"
      BY DEF row
    <3> QED BY <1>1, <1>2, <2>1, <2>2, <2>3, <3>1 DEF OwnRow, Cur, Identifies
  <2>7. ReplaySound'
    BY <1>1, <1>4 DEF ReplayInv, ReplaySound
  <2> QED BY <2>4, <2>5, <2>6, <2>7 DEF ReplayInv
<1> QED BY <1>3, <1>4 DEF Probe, id

(* The steps that touch no row: edits, and what a run reads.               *)
LEMMA AroundKeeps ==
  ASSUME ReplayInv, \/ \E i \in Inputs : EditInput(i)
                    \/ OperatorWrites \/ Start \/ ReadFails
                    \/ \E k \in 1..4 : Read(k)
  PROVE  ReplayInv'
<1>1. /\ world \in Views /\ root \in [git : BOOLEAN, head : Nat, tree : Nat, last : Nat]
      /\ rp \in [pc : Places, view : Views, head : Nat, tree : Nat, id : RunIds \cup {<<>>}]
  BY DEF ReplayInv, ReplayTypes
<1>2. Idle \in [pc : Places, view : Views, head : Nat, tree : Nat, id : RunIds \cup {<<>>}]
  BY DEF Idle, NoView, Plain, Views, Places
<1>3. ASSUME NEW i \in Inputs, EditInput(i) PROVE ReplayInv'
  <2>1. PICK v \in 1..2, h \in BOOLEAN : world' = [world EXCEPT ![i] = [v |-> v, hidden |-> h]]
    BY <1>3 DEF EditInput
  <2>2. world' \in Views
    BY <1>1, <2>1 DEF Views
  <2> QED BY <1>1, <1>3, <2>2, NoRowKeeps DEF EditInput
<1>4. CASE OperatorWrites
  <2>1. root' \in [git : BOOLEAN, head : Nat, tree : Nat, last : Nat] /\ root'.git = root.git
    <3>1. CASE root' = Committed(root)
      BY <3>1, CommittedRoot DEF ReplayInv
    <3>2. ASSUME NEW h \in 1..root.last, root' = [root EXCEPT !.head = h, !.tree = h]
          PROVE  root' \in [git : BOOLEAN, head : Nat, tree : Nat, last : Nat] /\ root'.git = root.git
      <4>1. h \in Nat
        BY <1>1
      <4> QED BY <1>1, <3>2, <4>1
    <3> QED BY <1>4, <3>1, <3>2 DEF OperatorWrites
  <2> QED BY <1>1, <1>4, <2>1, NoRowKeeps DEF OperatorWrites
<1>5. CASE Start
  <2>1. /\ rp' \in [pc : Places, view : Views, head : Nat, tree : Nat, id : RunIds \cup {<<>>}]
        /\ rp'.pc = "freeze"
    BY <1>2, <1>5 DEF Start, Places
  <2> QED BY <1>1, <1>5, <2>1, NoRowKeeps DEF Start
<1>6. CASE ReadFails
  <2>1. Idle.pc = "idle"
    BY DEF Idle
  <2> QED BY <1>1, <1>2, <1>6, <2>1, NoRowKeeps DEF ReadFails
<1>7. ASSUME NEW k \in 1..4, Read(k) PROVE ReplayInv'
  <2> DEFINE step == IF k = 4 THEN "probe" ELSE Moments[k + 1]
             head == IF k = 1 THEN HeadOf(root) ELSE rp.head
             tree == IF k = 1 THEN root.tree ELSE rp.tree
  <2>1. step \in Places \ {"running", "merged"}
    BY DEF Moments, Places
  <2>2. ReadInputs(k) \in Views
    BY <1>1 DEF ReadInputs, Views
  <2>3. head \in Nat /\ tree \in Nat
    BY <1>1 DEF HeadOf
  <2>4. rp' = [pc |-> step, view |-> ReadInputs(k), head |-> head, tree |-> tree, id |-> rp.id]
    BY <1>1, <1>7 DEF Read
  <2> HIDE DEF step, head, tree
  <2>5. /\ rp' \in [pc : Places, view : Views, head : Nat, tree : Nat, id : RunIds \cup {<<>>}]
        /\ rp'.pc = step
    BY <1>1, <2>1, <2>2, <2>3, <2>4
  <2> QED BY <1>1, <1>7, <2>1, <2>5, NoRowKeeps DEF Read
<1> QED BY <1>3, <1>4, <1>5, <1>6, <1>7

(* The end of a run: its row is changed.                                   *)
LEMMA EndKeeps ==
  ASSUME ReplayInv, NotApproved \/ Merge \/ Finalize \/ UpdateFails
  PROVE  ReplayInv'
<1>1. /\ rp \in [pc : Places, view : Views, head : Nat, tree : Nat, id : RunIds \cup {<<>>}]
      /\ root \in [git : BOOLEAN, head : Nat, tree : Nat, last : Nat]
      /\ runs \in Seq(Rows) /\ Len(runs) \in Nat /\ UNCHANGED <<world, replays>>
  <2>1. UNCHANGED <<world, replays>>
    BY Zenon DEF NotApproved, Merge, Finalize, UpdateFails
  <2> QED BY <2>1 DEF ReplayInv, ReplayTypes
<1> DEFINE old == runs[Cur]
<1>2. /\ Cur \in 1..Len(runs) /\ old \in Rows /\ old.view = rp.view
      /\ Identifies(rp.id, old.view) /\ RowSound(old) /\ Identifies(old.id, old.view)
      /\ old.status = "RUNNING"
  <2>1. rp.pc \in {"running", "merged"}
    BY Zenon DEF NotApproved, Merge, Finalize, UpdateFails
  <2>2. /\ Cur \in 1..Len(runs) /\ old.view = rp.view /\ Identifies(rp.id, rp.view)
        /\ old.status = "RUNNING"
    BY <1>1, <2>1 DEF ReplayInv, OwnRow, Cur
  <2>3. old \in Rows /\ RowSound(old)
    BY <1>1, <2>2 DEF ReplayInv
  <2> QED BY <2>2, <2>3 DEF RowSound
<1>3. /\ Identifies(FinalIdentity(rp.id), old.view) /\ FinalIdentity(rp.id).head = HeadOf(root)
      /\ FinalIdentity(rp.id) \in RunIds
  BY <1>2, FinalIdentifies DEF ReplayInv, Identifies
<1>4. Raced \in BOOLEAN /\ (root.git /\ ~Raced => old.made = HeadOf(root))
  BY <1>1 DEF Raced, HeadOf
<1>5. old = [status |-> old.status, id |-> old.id, view |-> old.view, made |-> old.made,
             tree |-> old.tree, payload |-> old.payload, raced |-> old.raced]
  BY <1>2 DEF Rows
<1>6. CASE NotApproved
  <2>1. PICK s \in {"QUARANTINED", "RUNNING"} : runs' = [runs EXCEPT ![Cur].status = s]
    BY <1>6 DEF NotApproved, End
  <2> DEFINE row == [old EXCEPT !.status = s]
  <2>2. runs' = [runs EXCEPT ![Cur] = row]
    BY <1>1, <1>2, <2>1
  <2>3. row \in Rows /\ row.view = old.view /\ row.id = old.id /\ row.status = s
    BY <1>2 DEF Rows, Marks
  <2> HIDE DEF row, old
  <2>4. RowSound(row)
    BY <1>2, <2>3 DEF RowSound, Stands
  <2> QED BY <1>1, <1>2, <1>6, <2>2, <2>3, <2>4, RowKeeps DEF NotApproved, old
<1>7. CASE Merge
  <2>1. PICK changed \in BOOLEAN :
          /\ root' = IF changed THEN Committed(root) ELSE root
          /\ runs' = [runs EXCEPT ![Cur].made = IF changed /\ root.git THEN root.last + 1 ELSE rp.head,
                                  ![Cur].tree = IF changed THEN root.last + 1 ELSE rp.tree]
    BY <1>7 DEF Merge
  <2> DEFINE m == IF changed /\ root.git THEN root.last + 1 ELSE rp.head
             t == IF changed THEN root.last + 1 ELSE rp.tree
             mid == [old EXCEPT !.made = m]
             row == [mid EXCEPT !.tree = t]
             half == [runs EXCEPT ![Cur].made = m]
  <2>2. m \in Nat /\ t \in Nat
    BY <1>1
  <2>3. root' \in [git : BOOLEAN, head : Nat, tree : Nat, last : Nat] /\ root'.git = root.git
    BY <1>1, <2>1, CommittedRoot DEF ReplayInv
  <2>4. runs' = [half EXCEPT ![Cur].tree = t]
    BY <2>1
  <2>5. half = [runs EXCEPT ![Cur] = mid]
    BY <1>1, <1>2
  <2>6. row \in Rows /\ mid \in Rows /\ row.view = old.view /\ row.id = old.id /\ row.status = old.status
        /\ row.payload = old.payload
    <3> HIDE DEF m, t
    <3> QED BY <1>2, <2>2 DEF Rows
  <2> HIDE DEF half, m, t
  <2>7. runs' = [runs EXCEPT ![Cur] = row]
    <3>1. half \in Seq(Rows) /\ Cur \in 1..Len(half) /\ half[Cur] = mid
      BY <1>1, <1>2, <2>5, <2>6
    <3>2. [half EXCEPT ![Cur].tree = t] = [half EXCEPT ![Cur] = row]
      BY <3>1
    <3>3. [half EXCEPT ![Cur] = row] = [runs EXCEPT ![Cur] = row]
      BY <1>1, <2>5
    <3> QED BY <2>4, <3>2, <3>3
  <2> HIDE DEF row, mid
  <2>8. RowSound(row)
    BY <1>2, <2>6 DEF RowSound, Stands
  <2> QED BY <1>1, <1>2, <1>7, <2>3, <2>6, <2>7, <2>8, RowKeeps DEF Merge
<1>8. CASE Finalize
  <2> DEFINE id == FinalIdentity(rp.id)
             u == [old EXCEPT !.id = id]
             v == [u EXCEPT !.status = "APPROVED"]
             row == [v EXCEPT !.raced = Raced]
             r1 == [runs EXCEPT ![Cur].id = id]
             r2 == [r1 EXCEPT ![Cur].status = "APPROVED"]
  <2>1. runs' = [r2 EXCEPT ![Cur].raced = Raced]
    BY <1>8 DEF Finalize
  <2>2. u \in Rows /\ v \in Rows /\ row \in Rows
    BY <1>2, <1>3, <1>4 DEF Rows, Marks
  <2>3. row.view = old.view /\ row.id = id /\ row.made = old.made /\ row.raced = Raced
    BY <1>2 DEF Rows
  <2>4. r1 = [runs EXCEPT ![Cur] = u]
    BY <1>1, <1>2
  <2> HIDE DEF r1, id
  <2>5. r1 \in Seq(Rows) /\ Cur \in 1..Len(r1) /\ r1[Cur] = u
    BY <1>1, <1>2, <2>2, <2>4
  <2> HIDE DEF u
  <2>6. r2 = [r1 EXCEPT ![Cur] = v]
    BY <2>5
  <2> HIDE DEF r2
  <2>7. r2 \in Seq(Rows) /\ Cur \in 1..Len(r2) /\ r2[Cur] = v
    BY <2>2, <2>5, <2>6
  <2> HIDE DEF v
  <2>8. runs' = [r2 EXCEPT ![Cur] = row]
    BY <2>1, <2>7
  <2> HIDE DEF row
  <2>9. runs' = [runs EXCEPT ![Cur] = row]
    BY <1>1, <2>4, <2>6, <2>8
  <2>10. RowSound(row)
    BY <1>3, <1>4, <2>3 DEF RowSound, id
  <2> QED BY <1>1, <1>2, <1>8, <2>2, <2>3, <2>9, <2>10, RowKeeps DEF Finalize
<1>9. CASE UpdateFails
  <2>1. CASE UNCHANGED runs
    <3>1. Idle \in [pc : Places, view : Views, head : Nat, tree : Nat, id : RunIds \cup {<<>>}]
          /\ Idle.pc = "idle"
      BY DEF Idle, NoView, Plain, Views, Places
    <3> QED BY <1>1, <1>9, <2>1, <3>1, NoRowKeeps DEF UpdateFails, ReplayInv, ReplayTypes
  <2>2. ASSUME NEW late \in BOOLEAN,
               runs' = [runs EXCEPT ![Cur].status = "MERGED_LEDGER_PENDING", ![Cur].payload = late,
                                    ![Cur].raced = Raced,
                                    ![Cur].id = IF late THEN FinalIdentity(rp.id) ELSE @]
        PROVE  ReplayInv'
    <3> DEFINE id == IF late THEN FinalIdentity(rp.id) ELSE old.id
               u == [old EXCEPT !.status = "MERGED_LEDGER_PENDING"]
               v == [u EXCEPT !.payload = late]
               w == [v EXCEPT !.raced = Raced]
               row == [w EXCEPT !.id = id]
               r1 == [runs EXCEPT ![Cur].status = "MERGED_LEDGER_PENDING"]
               r2 == [r1 EXCEPT ![Cur].payload = late]
               r3 == [r2 EXCEPT ![Cur].raced = Raced]
    <3>1. runs' = [r3 EXCEPT ![Cur].id = IF late THEN FinalIdentity(rp.id) ELSE @]
      BY <2>2
    <3>2. id \in RunIds
      BY <1>2, <1>3 DEF Rows
    <3>3. u \in Rows /\ v \in Rows /\ w \in Rows /\ row \in Rows
      <4> HIDE DEF id
      <4> QED BY <1>2, <1>4, <3>2 DEF Rows, Marks
    <3>4. /\ row.view = old.view /\ row.id = id /\ row.made = old.made /\ row.raced = Raced
          /\ row.payload = late /\ row.status = "MERGED_LEDGER_PENDING" /\ w.id = old.id
      BY <1>2 DEF Rows
    <3>5. r1 = [runs EXCEPT ![Cur] = u]
      BY <1>1, <1>2
    <3> HIDE DEF r1
    <3>6. r1 \in Seq(Rows) /\ Cur \in 1..Len(r1) /\ r1[Cur] = u
      BY <1>1, <1>2, <3>3, <3>5
    <3> HIDE DEF u
    <3>7. r2 = [r1 EXCEPT ![Cur] = v]
      BY <3>6
    <3> HIDE DEF r2
    <3>8. r2 \in Seq(Rows) /\ Cur \in 1..Len(r2) /\ r2[Cur] = v
      BY <3>3, <3>6, <3>7
    <3> HIDE DEF v
    <3>9. r3 = [r2 EXCEPT ![Cur] = w]
      BY <3>8
    <3> HIDE DEF r3
    <3>10. r3 \in Seq(Rows) /\ Cur \in 1..Len(r3) /\ r3[Cur] = w
      BY <3>3, <3>8, <3>9
    <3>11. r3[Cur].id = old.id
      BY <3>4, <3>10
    <3> HIDE DEF w
    <3>12. runs' = [r3 EXCEPT ![Cur].id = id]
      BY <3>1, <3>11
    <3> HIDE DEF id
    <3>13. runs' = [r3 EXCEPT ![Cur] = row]
      BY <3>10, <3>12
    <3> HIDE DEF row
    <3>14. runs' = [runs EXCEPT ![Cur] = row]
      BY <1>1, <3>5, <3>7, <3>9, <3>13
    <3>15. RowSound(row)
      BY <1>2, <1>3, <1>4, <3>4 DEF RowSound, Stands, id
    <3> QED BY <1>1, <1>2, <1>9, <3>3, <3>4, <3>14, <3>15, RowKeeps DEF UpdateFails
  <2> QED BY <1>9, <2>1, <2>2 DEF UpdateFails
<1> QED BY <1>6, <1>7, <1>8, <1>9

(* Reconcile approves a row whose payload waits; a rollback withdraws one. *)
LEMMA LaterKeeps ==
  ASSUME ReplayInv, NEW k \in 1..Len(runs), Reconcile(k) \/ Rollback(k)
  PROVE  ReplayInv'
<1> DEFINE old == runs[k]
<1>1. /\ root \in [git : BOOLEAN, head : Nat, tree : Nat, last : Nat] /\ runs \in Seq(Rows)
      /\ Len(runs) \in Nat /\ old \in Rows /\ RowSound(old)
  BY DEF ReplayInv, ReplayTypes
<1>2. CASE Reconcile(k)
  <2> DEFINE row == [old EXCEPT !.status = "APPROVED"]
  <2>1. runs' = [runs EXCEPT ![k] = row] /\ Stands(old) /\ old.status # "RUNNING"
    BY <1>1, <1>2 DEF Reconcile, Stands
  <2>2. /\ row \in Rows /\ row.view = old.view /\ row.id = old.id /\ row.made = old.made
        /\ row.raced = old.raced
    BY <1>1 DEF Rows, Marks
  <2> HIDE DEF row
  <2>3. RowSound(row)
    BY <1>1, <2>1, <2>2 DEF RowSound
  <2> QED BY <1>1, <1>2, <2>1, <2>2, <2>3, RowKeeps DEF Reconcile
<1>3. CASE Rollback(k)
  <2> DEFINE row == [old EXCEPT !.status = "ROLLED_BACK"]
  <2>1. runs' = [runs EXCEPT ![k] = row] /\ old.status # "RUNNING"
    BY <1>1, <1>3 DEF Rollback
  <2>2. row \in Rows /\ row.view = old.view /\ row.id = old.id /\ row.status = "ROLLED_BACK"
    BY <1>1 DEF Rows, Marks
  <2> HIDE DEF row
  <2>3. RowSound(row)
    BY <1>1, <2>2 DEF RowSound, Stands
  <2>4. root' \in [git : BOOLEAN, head : Nat, tree : Nat, last : Nat] /\ root'.git = root.git
    BY <1>3, CommittedRoot DEF Rollback, ReplayInv
  <2> QED BY <1>1, <1>3, <2>1, <2>2, <2>3, <2>4, RowKeeps DEF Rollback
<1> QED BY <1>2, <1>3

(* What the rows say, and what the run under way is about to write.        *)
THEOREM ReplayInvariance == ReplaySpec => []ReplayInv
<1>1. ReplayInit => ReplayInv
  <2> SUFFICES ASSUME ReplayInit PROVE ReplayInv
    OBVIOUS
  <2>1. PICK g \in GitRoots : root = [git |-> g, head |-> 1, tree |-> 1, last |-> 1]
    BY DEF ReplayInit
  <2>2. ReplayTypes
    BY <2>1, ReplayAssumption DEF ReplayInit, ReplayTypes, NoView, Plain, Views, Idle, Places
  <2>3. runs = <<>> /\ rp.pc = "idle" /\ replays = {}
    BY DEF ReplayInit, Idle
  <2> QED BY <2>2, <2>3 DEF ReplayInv, OwnRow, ReplaySound
<1>2. ReplayInv /\ [ReplayNext]_rpVars => ReplayInv'
  <2> SUFFICES ASSUME ReplayInv, [ReplayNext]_rpVars PROVE ReplayInv'
    OBVIOUS
  <2>1. CASE UNCHANGED rpVars
    BY <2>1, NoRowKeeps DEF rpVars, ReplayInv, ReplayTypes
  <2> QED BY <2>1, AroundKeeps, ProbeKeeps, EndKeeps, LaterKeeps DEF ReplayNext
<1> QED BY <1>1, <1>2, PTL DEF ReplaySpec

(* An answer taken from the table is an approval that still stands, of a   *)
(* run with exactly the inputs of this one, at the commit that run left    *)
(* unless somebody moved HEAD in between: for any inputs, edits and runs.  *)
THEOREM AnswersAreSound == ReplaySpec => []ReplaySound
<1>1. ReplayInv => ReplaySound
  BY DEF ReplayInv
<1> QED BY <1>1, ReplayInvariance, PTL

-----------------------------------------------------------------------------
(* The temporal rules                                                      *)

(* A literal is not known to the provers to be a member of STRING.         *)
Texts == STRING \cup {"", "secret", "src", "misc"}
EventKinds == {"read", "write", "network", "exec", "other", "tool_output"}
Events == [kind : EventKinds, sub : Texts]
TemporalRules == DOMAIN ruleRequiredKinds
RuleStates == [secret : BOOLEAN, oos : BOOLEAN, inj : BOOLEAN, out : SUBSET TemporalRules]

(* An event that arms a rule, one that fires it, and a state in which the  *)
(* rule is armed.  The injection rule disarms itself when it fires.        *)
Arms(r, e, scoped) ==
  CASE r = SecretRule -> e.kind = "read" /\ e.sub \in SecretPaths
    [] r = ScopeRule -> e.kind = "read" /\ scoped /\ e.sub # "" /\ e.sub \notin ScopePaths
    [] r = InjectionRule -> e.kind = "tool_output" /\ LooksLikeInjection(e.sub)
HitsBy(r, e) ==
  CASE r = SecretRule -> e.kind = "network" [] r = ScopeRule -> e.kind = "write" [] r = InjectionRule -> e.kind = "exec"
Armed(r, st) ==
  CASE r = SecretRule -> st.secret [] r = ScopeRule -> st.oos
    [] r = InjectionRule -> st.inj \/ InjectionRule \in st.out

(* There are three rules.                                                  *)
LEMMA RulesAre ==
  /\ TemporalRules = {SecretRule, ScopeRule, InjectionRule}
  /\ SecretRule # ScopeRule /\ SecretRule # InjectionRule /\ ScopeRule # InjectionRule
BY DEF TemporalRules, ruleRequiredKinds, SecretRule, ScopeRule, InjectionRule

(* One event of EvaluateTemporalRules.                                     *)
LEMMA RuleStepIs ==
  ASSUME NEW st \in RuleStates, NEW e \in Events, NEW scoped \in BOOLEAN
  PROVE  /\ RuleStep(scoped, st, e) \in RuleStates
         /\ \A r \in TemporalRules :
              /\ Armed(r, RuleStep(scoped, st, e)) <=> Armed(r, st) \/ Arms(r, e, scoped)
              /\ r \in RuleStep(scoped, st, e).out <=> r \in st.out \/ (Armed(r, st) /\ HitsBy(r, e))
<1> DEFINE b == RuleStep(scoped, st, e)
<1>1. CASE e.kind = "read"
  <2>1. CASE e.sub = ""
    <3>1. b = st
      BY <1>1, <2>1 DEF RuleStep
    <3>2. \A r \in TemporalRules : ~Arms(r, e, scoped) /\ ~HitsBy(r, e)
      BY <1>1, <2>1, RulesAre DEF Arms, HitsBy, SecretPaths
    <3> QED BY <3>1, <3>2
  <2>2. CASE e.sub # ""
    <3>1. b = [st EXCEPT !.secret = @ \/ e.sub \in SecretPaths, !.oos = @ \/ (scoped /\ e.sub \notin ScopePaths)]
      BY <1>1, <2>2 DEF RuleStep
    <3> HIDE DEF b
    <3>2. /\ b \in RuleStates /\ b.secret = (st.secret \/ e.sub \in SecretPaths) /\ b.inj = st.inj /\ b.out = st.out
          /\ b.oos = (st.oos \/ (scoped /\ e.sub \notin ScopePaths))
      BY <3>1 DEF RuleStates
    <3>3. \A r \in TemporalRules : ~HitsBy(r, e)
      BY <1>1, RulesAre DEF HitsBy
    <3>4. \A r \in TemporalRules : Armed(r, b) <=> Armed(r, st) \/ Arms(r, e, scoped)
      BY <1>1, <2>2, <3>2, RulesAre DEF Armed, Arms, RuleStates
    <3> QED BY <3>2, <3>3, <3>4 DEF b
  <2> QED BY <2>1, <2>2
<1>2. CASE e.kind = "network"
  <2>1. \A r \in TemporalRules : ~Arms(r, e, scoped) /\ (HitsBy(r, e) <=> r = SecretRule)
    BY <1>2, RulesAre DEF Arms, HitsBy
  <2>2. b = IF st.secret THEN [st EXCEPT !.out = @ \cup {SecretRule}] ELSE st
    BY <1>2 DEF RuleStep
  <2> HIDE DEF b
  <2>3. /\ b \in RuleStates /\ b.secret = st.secret /\ b.oos = st.oos /\ b.inj = st.inj
        /\ b.out = IF st.secret THEN st.out \cup {SecretRule} ELSE st.out
    BY <2>2, RulesAre DEF RuleStates
  <2>4. \A r \in TemporalRules : Armed(r, b) <=> Armed(r, st)
    BY <2>3, RulesAre DEF Armed
  <2>5. Armed(SecretRule, st) <=> st.secret
    BY RulesAre DEF Armed
  <2> QED BY <2>1, <2>3, <2>4, <2>5 DEF b
<1>3. CASE e.kind = "write"
  <2>1. \A r \in TemporalRules : ~Arms(r, e, scoped) /\ (HitsBy(r, e) <=> r = ScopeRule)
    BY <1>3, RulesAre DEF Arms, HitsBy
  <2>2. b = IF st.oos THEN [st EXCEPT !.out = @ \cup {ScopeRule}] ELSE st
    BY <1>3 DEF RuleStep
  <2> HIDE DEF b
  <2>3. /\ b \in RuleStates /\ b.secret = st.secret /\ b.oos = st.oos /\ b.inj = st.inj
        /\ b.out = IF st.oos THEN st.out \cup {ScopeRule} ELSE st.out
    BY <2>2, RulesAre DEF RuleStates
  <2>4. \A r \in TemporalRules : Armed(r, b) <=> Armed(r, st)
    BY <2>3, RulesAre DEF Armed
  <2>5. Armed(ScopeRule, st) <=> st.oos
    BY RulesAre DEF Armed
  <2> QED BY <2>1, <2>3, <2>4, <2>5 DEF b
<1>4. CASE e.kind = "tool_output"
  <2>1. \A r \in TemporalRules : ~HitsBy(r, e) /\ (Arms(r, e, scoped) <=> r = InjectionRule /\ LooksLikeInjection(e.sub))
    BY <1>4, RulesAre DEF Arms, HitsBy
  <2>2. b = IF LooksLikeInjection(e.sub) THEN [st EXCEPT !.inj = TRUE] ELSE st
    BY <1>4 DEF RuleStep
  <2> HIDE DEF b
  <2>3. /\ b \in RuleStates /\ b.secret = st.secret /\ b.oos = st.oos /\ b.out = st.out
        /\ b.inj <=> LooksLikeInjection(e.sub) \/ st.inj
    BY <2>2 DEF RuleStates
  <2>4. \A r \in TemporalRules : Armed(r, b) <=> Armed(r, st) \/ (r = InjectionRule /\ LooksLikeInjection(e.sub))
    BY <2>3, RulesAre DEF Armed
  <2> QED BY <2>1, <2>3, <2>4 DEF b
<1>5. CASE e.kind = "exec"
  <2>1. \A r \in TemporalRules : ~Arms(r, e, scoped) /\ (HitsBy(r, e) <=> r = InjectionRule)
    BY <1>5, RulesAre DEF Arms, HitsBy
  <2>2. b = IF st.inj THEN [st EXCEPT !.out = @ \cup {InjectionRule}, !.inj = FALSE] ELSE st
    BY <1>5 DEF RuleStep
  <2> HIDE DEF b
  <2>3. /\ b \in RuleStates /\ b.secret = st.secret /\ b.oos = st.oos /\ ~b.inj
        /\ b.out = IF st.inj THEN st.out \cup {InjectionRule} ELSE st.out
    BY <2>2, RulesAre DEF RuleStates
  <2>4. \A r \in TemporalRules : Armed(r, b) <=> Armed(r, st)
    BY <2>3, RulesAre DEF Armed
  <2>5. Armed(InjectionRule, st) <=> st.inj \/ InjectionRule \in st.out
    BY RulesAre DEF Armed
  <2> QED BY <2>1, <2>3, <2>4, <2>5 DEF b
<1>6. CASE e.kind = "other"
  <2>1. b = st
    BY <1>6 DEF RuleStep
  <2>2. \A r \in TemporalRules : ~Arms(r, e, scoped) /\ ~HitsBy(r, e)
    BY <1>6, RulesAre DEF Arms, HitsBy
  <2> QED BY <2>1, <2>2
<1> QED BY <1>1, <1>2, <1>3, <1>4, <1>5, <1>6 DEF Events, EventKinds

(* EvaluateTemporalRules hits a rule exactly if an event that fires it     *)
(* comes after one that arms it.                                           *)
LEMMA HitsAre ==
  ASSUME NEW events \in Seq(Events), NEW scoped \in BOOLEAN
  PROVE  /\ EvaluateTemporalRules(events, scoped) \subseteq TemporalRules
         /\ \A r \in TemporalRules :
              r \in EvaluateTemporalRules(events, scoped) <=>
                \E i, j \in 1..Len(events) : i < j /\ Arms(r, events[i], scoped) /\ HitsBy(r, events[j])
<1> DEFINE N == Len(events)
           step == [p \in RuleStates \X (1..N) |-> RuleStep(scoped, p[1], events[p[2]])]
<1>1. N \in Nat /\ \A i \in 1..N : events[i] \in Events
  OBVIOUS
<1>2. \A t \in RuleStates, i \in 1..N : step[<<t, i>>] = RuleStep(scoped, t, events[i])
  OBVIOUS
<1>3. NoHits \in RuleStates
  BY DEF NoHits, RuleStates
<1>4. PICK g \in [0..N -> RuleStates] : g[0] = NoHits /\ \A i \in 1..N : g[i] = RuleStep(scoped, g[i - 1], events[i])
  <2>1. StaysIn(step, RuleStates, N)
    BY <1>1, <1>2, RuleStepIs DEF StaysIn
  <2> HIDE DEF step, N
  <2>2. PICK g : Iterates(g, step, RuleStates, NoHits, N)
    BY <1>1, <1>3, <2>1, IterationExists
  <2>3. g \in [0..N -> RuleStates] /\ g[0] = NoHits /\ \A i \in 1..N : g[i] = step[<<g[i - 1], i>>]
    BY <2>2 DEF Iterates
  <2>4. \A i \in 1..N : g[i - 1] \in RuleStates
    BY <1>1, <2>3
  <2> QED BY <1>2, <2>3, <2>4
<1> HIDE DEF step
<1>5. \A h : h = [i \in 0..N |-> IF i = 0 THEN NoHits ELSE RuleStep(scoped, h[i - 1], events[i])] => \A i \in 0..N : h[i] = g[i]
  <2> SUFFICES ASSUME NEW h, h = [i \in 0..N |-> IF i = 0 THEN NoHits ELSE RuleStep(scoped, h[i - 1], events[i])] PROVE \A i \in 0..N : h[i] = g[i]
    OBVIOUS
  <2> DEFINE S == {i \in 0..N : h[i] = g[i]}
  <2>1. 0 \in S
    BY <1>1, <1>4
  <2>2. \A i \in 0..N : i \in S /\ i < N => i + 1 \in S
    <3> SUFFICES ASSUME NEW i \in 0..N, i \in S, i < N PROVE i + 1 \in S
      OBVIOUS
    <3>1. i + 1 \in 1..N /\ i + 1 \in 0..N /\ (i + 1) - 1 = i /\ i + 1 # 0
      BY <1>1
    <3>2. h[i + 1] = RuleStep(scoped, h[(i + 1) - 1], events[i + 1])
      BY <3>1
    <3>3. g[i + 1] = RuleStep(scoped, g[(i + 1) - 1], events[i + 1])
      BY <1>4, <3>1
    <3> QED BY <3>1, <3>2, <3>3
  <2> HIDE DEF S, N
  <2>3. \A i \in 0..N : i \in S
    BY <1>1, <2>1, <2>2, UpTo
  <2> QED BY <2>3 DEF S
<1>6. EvaluateTemporalRules(events, scoped) = g[N].out
  <2> DEFINE h == CHOOSE h : h = [i \in 0..N |-> IF i = 0 THEN NoHits ELSE RuleStep(scoped, h[i - 1], events[i])]
  <2>1. g = [i \in 0..N |-> IF i = 0 THEN NoHits ELSE RuleStep(scoped, g[i - 1], events[i])]
    <3> SUFFICES ASSUME NEW i \in 0..N PROVE g[i] = IF i = 0 THEN NoHits ELSE RuleStep(scoped, g[i - 1], events[i])
      OBVIOUS
    <3> QED BY <1>1, <1>4
  <2>2. h = [i \in 0..N |-> IF i = 0 THEN NoHits ELSE RuleStep(scoped, h[i - 1], events[i])]
    BY <2>1
  <2>3. EvaluateTemporalRules(events, scoped) = h[N].out
    BY DEF EvaluateTemporalRules
  <2> HIDE DEF h
  <2> QED BY <1>1, <1>5, <2>2, <2>3
<1> DEFINE Up(n) == \A r \in TemporalRules :
             /\ Armed(r, g[n]) <=> \E i \in 1..n : Arms(r, events[i], scoped)
             /\ r \in g[n].out <=> \E i, j \in 1..n : i < j /\ Arms(r, events[i], scoped) /\ HitsBy(r, events[j])
           S == {n \in 0..N : Up(n)}
<1>7. 0 \in S
  <2>1. \A r \in TemporalRules : ~Armed(r, NoHits) /\ r \notin NoHits.out
    BY RulesAre DEF Armed, NoHits
  <2>2. Up(0)
    BY <1>4, <2>1
  <2> QED BY <1>1, <2>2
<1>8. \A n \in 0..N : n \in S /\ n < N => n + 1 \in S
  <2>0. \A n \in 0..N : n < N => n + 1 \in 0..N
    BY <1>1
  <2> HIDE DEF Up
  <2> SUFFICES ASSUME NEW n \in 0..N, Up(n), n < N PROVE Up(n + 1)
    BY <2>0
  <2> USE DEF Up
  <2>1. n + 1 \in 1..N /\ (n + 1) - 1 = n
    BY <1>1
  <2>2. g[n + 1] = RuleStep(scoped, g[n], events[n + 1]) /\ g[n] \in RuleStates /\ events[n + 1] \in Events
    BY <1>1, <1>4, <2>1
  <2> SUFFICES ASSUME NEW r \in TemporalRules
               PROVE /\ Armed(r, g[n + 1]) <=> \E i \in 1..(n + 1) : Arms(r, events[i], scoped)
                     /\ r \in g[n + 1].out <=> \E i, j \in 1..(n + 1) : i < j /\ Arms(r, events[i], scoped) /\ HitsBy(r, events[j])
    OBVIOUS
  <2>3. /\ Armed(r, g[n + 1]) <=> Armed(r, g[n]) \/ Arms(r, events[n + 1], scoped)
        /\ r \in g[n + 1].out <=> r \in g[n].out \/ (Armed(r, g[n]) /\ HitsBy(r, events[n + 1]))
    BY <2>2, RuleStepIs
  <2> DEFINE A == {i \in 1..N : Arms(r, events[i], scoped)}
             F == {i \in 1..N : HitsBy(r, events[i])}
  <2>4. /\ Armed(r, g[n]) <=> \E i \in 1..n : i \in A
        /\ r \in g[n].out <=> \E i, j \in 1..n : i < j /\ i \in A /\ j \in F
    <3>1. /\ Armed(r, g[n]) <=> \E i \in 1..n : Arms(r, events[i], scoped)
          /\ r \in g[n].out <=> \E i, j \in 1..n : i < j /\ Arms(r, events[i], scoped) /\ HitsBy(r, events[j])
      OBVIOUS
    <3>2. \A i \in 1..n : i \in 1..N
      BY <1>1
    <3> QED BY <3>1, <3>2
  <2>5. Arms(r, events[n + 1], scoped) <=> n + 1 \in A
    BY <2>1
  <2>6. HitsBy(r, events[n + 1]) <=> n + 1 \in F
    BY <2>1
  <2>7. /\ (\E i \in 1..(n + 1) : Arms(r, events[i], scoped)) <=> \E i \in 1..(n + 1) : i \in A
        /\ (\E i, j \in 1..(n + 1) : i < j /\ Arms(r, events[i], scoped) /\ HitsBy(r, events[j])) <=>
           \E i, j \in 1..(n + 1) : i < j /\ i \in A /\ j \in F
    BY <2>1
  <2> HIDE DEF A, F
  <2>8. (\E i \in 1..(n + 1) : i \in A) <=> (\E i \in 1..n : i \in A) \/ n + 1 \in A
    BY <2>1
  <2>9. (\E i, j \in 1..(n + 1) : i < j /\ i \in A /\ j \in F) <=>
        (\E i, j \in 1..n : i < j /\ i \in A /\ j \in F) \/ ((\E i \in 1..n : i \in A) /\ n + 1 \in F)
    BY <2>1
  <2> QED BY <2>3, <2>4, <2>5, <2>6, <2>7, <2>8, <2>9
<1>9. N \in S
  <2> HIDE DEF S, N
  <2>1. \A n \in 0..N : n \in S
    BY <1>1, <1>7, <1>8, UpTo
  <2> QED BY <1>1, <2>1
<1>10. g[N].out \subseteq TemporalRules
  BY <1>1, <1>4 DEF RuleStates
<1> QED BY <1>6, <1>9, <1>10

-----------------------------------------------------------------------------
(* One line                                                                *)

Sessions ==
  [start : BOOLEAN, done : BOOLEAN, turns : Int, sid : Texts, mixed : BOOLEAN, uuids : SUBSET STRING,
   dup : BOOLEAN, uses : SUBSET STRING, results : SUBSET STRING, early : BOOLEAN]
Usages == [byID : UNION {[D -> Nat] : D \in SUBSET STRING}, fallback : Nat, seen : BOOLEAN]
Passes ==
  [json : BOOLEAN, known : BOOLEAN, startup : Nat, bad : SUBSET {"malformed", "startup"}, events : Seq(Events), cmds : Seq(STRING),
   conf : Sessions, use : Usages]

(* A node yields at most one event, and a command that is a string.        *)
LEMMA EventOfNode ==
  ASSUME NEW n \in Nodes, NEW fmt
  PROVE  /\ transcriptEvent(fmt, n) = <<>> \/ \E e \in Events : transcriptEvent(fmt, n) = <<e>>
         /\ transcriptCommand(fmt, n) = "" \/ transcriptCommand(fmt, n) \in STRING
<1>1. n.kind \in STRING /\ n.tool \in STRING /\ n.sub \in STRING
  BY DEF Nodes
<1>2. transcriptCommand(fmt, n) = "" \/ transcriptCommand(fmt, n) \in STRING
  BY <1>1 DEF transcriptCommand
<1>3. \A t : ClassifyEvent(t, n.sub) \in Events
  BY <1>1 DEF ClassifyEvent, Events, EventKinds, NetworkCommand, Texts
<1>4. [kind |-> "tool_output", sub |-> n.sub] \in Events
  BY <1>1 DEF Events, EventKinds, Texts
<1>0. CASE fmt \notin Formats
  BY <1>0, <1>2 DEF transcriptEvent
<1>5. CASE fmt \in Formats /\ n.kind = "result"
  BY <1>2, <1>4, <1>5 DEF transcriptEvent
<1>6. CASE fmt \in Formats /\ n.kind = "use"
  <2>1. \/ transcriptEvent(fmt, n) = <<>>
        \/ transcriptEvent(fmt, n) = <<ClassifyEvent("bash", n.sub)>>
        \/ transcriptEvent(fmt, n) = <<ClassifyEvent(n.tool, n.sub)>>
    BY <1>6 DEF transcriptEvent, transcriptCommand
  <2> QED BY <1>1, <1>2, <1>3, <2>1
<1>7. CASE fmt \in Formats /\ n.kind \notin {"use", "result"}
  BY <1>2, <1>7 DEF transcriptEvent
<1> QED BY <1>0, <1>5, <1>6, <1>7

(* The ids that the first i nodes of a kind carry.                         *)
IdsUpTo(nodes, i, k) == {nodes[m].id : m \in {m \in 1..i : nodes[m].kind = k}} \ {""}
Apart(nodes) == IdsUpTo(nodes, Len(nodes), "use") \cap IdsUpTo(nodes, Len(nodes), "result") = {}

(* The events of b after those of a are the events of the first i nodes.   *)
EventsRead(fmt, a, b, nodes, i) ==
  /\ Len(a.events) <= Len(b.events)
  /\ \A k \in 1..Len(a.events) : b.events[k] = a.events[k]
  /\ \A k \in 1..Len(b.events) : k > Len(a.events) => \E m \in 1..i : transcriptEvent(fmt, nodes[m]) = <<b.events[k]>>
  /\ \A m \in 1..i : transcriptEvent(fmt, nodes[m]) = <<>>
                     \/ \E k \in 1..Len(b.events) : k > Len(a.events) /\ transcriptEvent(fmt, nodes[m]) = <<b.events[k]>>

(* The commands among the first i nodes.                                   *)
CommandsUpTo(fmt, nodes, i) == {m \in 1..i : transcriptCommand(fmt, nodes[m]) # ""}
Said(cmds) == {cmds[k] : k \in 1..Len(cmds)}
GoesOn(cmds, cmd) == IF cmd = "" THEN cmds ELSE Append(cmds, cmd)

(* The commands of b after those of a are those of the first i nodes.      *)
CommandsRead(fmt, a, b, nodes, i) ==
  /\ IsFiniteSet(CommandsUpTo(fmt, nodes, i))
  /\ Len(b.cmds) = Len(a.cmds) + Cardinality(CommandsUpTo(fmt, nodes, i))
  /\ \A c : c \in Said(b.cmds) <=>
              c \in Said(a.cmds) \/ \E m \in CommandsUpTo(fmt, nodes, i) : transcriptCommand(fmt, nodes[m]) = c

(* What the first i nodes add to the session.                              *)
SessionRead(fmt, s, t, nodes, i) ==
  /\ t.start = s.start /\ t.done = s.done /\ t.turns = s.turns /\ t.sid = s.sid
  /\ t.mixed = s.mixed /\ t.uuids = s.uuids /\ t.dup = s.dup
  /\ fmt = "claude" =>
       /\ t.uses = s.uses \cup IdsUpTo(nodes, i, "use")
       /\ t.results = s.results \cup IdsUpTo(nodes, i, "result")
       /\ Apart(nodes) => (t.early <=> s.early \/ \E d \in IdsUpTo(nodes, i, "result") : d \notin s.uses)

(* The rest of the pass is left alone by nodes.                            *)
Untouched(a, b) == b.json = a.json /\ b.known = a.known /\ b.startup = a.startup /\ b.bad = a.bad /\ b.use = a.use

(* The ids of one more node.                                               *)
LEMMA IdsGrow ==
  ASSUME NEW nodes, NEW i \in Nat, NEW k
  PROVE  IdsUpTo(nodes, i + 1, k) = IdsUpTo(nodes, i, k) \cup (IF nodes[i + 1].kind = k THEN {nodes[i + 1].id} \ {""} ELSE {})
<1>1. 1..(i + 1) = (1..i) \cup {i + 1}
  OBVIOUS
<1> QED BY <1>1 DEF IdsUpTo

(* One node.                                                               *)
LEMMA NodeStepIs ==
  ASSUME NEW fmt, NEW b \in Passes, NEW n \in Nodes
  PROVE  LET c == NodeStep(fmt, b, n)
         IN /\ c \in Passes /\ Untouched(b, c) /\ c.events = b.events \o transcriptEvent(fmt, n)
            /\ c.conf = observeNode(fmt, b.conf, n)
            /\ c.cmds = GoesOn(b.cmds, transcriptCommand(fmt, n))
<1> DEFINE c == NodeStep(fmt, b, n)
<1>1. b.conf \in Sessions /\ b.events \in Seq(Events) /\ b.cmds \in Seq(STRING)
  BY DEF Passes
<1>2. n.id \in STRING
  BY DEF Nodes
<1>3. observeNode(fmt, b.conf, n) \in Sessions
  BY <1>1, <1>2 DEF observeNode, Sessions
<1>4. b.events \o transcriptEvent(fmt, n) \in Seq(Events)
  <2>1. transcriptEvent(fmt, n) \in Seq(Events)
    <3>1. \A e \in Events : <<e>> \in Seq(Events)
      OBVIOUS
    <3>2. <<>> \in Seq(Events)
      OBVIOUS
    <3> QED BY <3>1, <3>2, EventOfNode
  <2> QED BY <1>1, <2>1
<1>5. GoesOn(b.cmds, transcriptCommand(fmt, n)) \in Seq(STRING)
  <2> DEFINE cmd == transcriptCommand(fmt, n)
  <2>1. cmd = "" \/ cmd \in STRING
    BY EventOfNode
  <2> HIDE DEF cmd
  <2>2. cmd \in STRING => Append(b.cmds, cmd) \in Seq(STRING)
    BY <1>1
  <2>3. (IF cmd = "" THEN b.cmds ELSE Append(b.cmds, cmd)) \in Seq(STRING)
    BY <1>1, <2>1, <2>2
  <2> QED BY <2>3 DEF cmd, GoesOn
<1>6. c = [b EXCEPT !.conf = observeNode(fmt, b.conf, n),
                    !.cmds = GoesOn(b.cmds, transcriptCommand(fmt, n)),
                    !.events = b.events \o transcriptEvent(fmt, n)]
  BY DEF NodeStep, GoesOn
<1> HIDE DEF c
<1>7. c \in Passes
  BY <1>3, <1>4, <1>5, <1>6 DEF Passes
<1>8. /\ c.events = b.events \o transcriptEvent(fmt, n) /\ c.conf = observeNode(fmt, b.conf, n)
      /\ c.cmds = GoesOn(b.cmds, transcriptCommand(fmt, n))
  BY <1>6 DEF Passes
<1>9. Untouched(b, c)
  BY <1>6 DEF Passes, Untouched
<1> QED BY <1>7, <1>8, <1>9 DEF c

(* NodeStep appends the node's event, if it has one.                       *)
LEMMA EventsGoOn ==
  ASSUME NEW fmt, NEW a \in Passes, NEW b \in Passes, NEW c \in Passes, NEW nodes \in Seq(Nodes), NEW i \in Nat, i < Len(nodes),
         EventsRead(fmt, a, b, nodes, i), c.events = b.events \o transcriptEvent(fmt, nodes[i + 1])
  PROVE  EventsRead(fmt, a, c, nodes, i + 1)
<1>1. nodes[i + 1] \in Nodes /\ i + 1 \in 1..(i + 1) /\ \A m \in 1..(i + 1) : m \in 1..i \/ m = i + 1
  OBVIOUS
<1>2. a.events \in Seq(Events) /\ b.events \in Seq(Events)
  BY DEF Passes
<1>3. CASE transcriptEvent(fmt, nodes[i + 1]) = <<>>
  <2>1. c.events = b.events
    BY <1>2, <1>3
  <2> QED BY <1>1, <1>3, <2>1 DEF EventsRead
<1>4. ASSUME NEW e \in Events, transcriptEvent(fmt, nodes[i + 1]) = <<e>> PROVE EventsRead(fmt, a, c, nodes, i + 1)
  <2> DEFINE L == Len(b.events)
  <2>1. L \in Nat /\ Len(a.events) \in Nat /\ Len(a.events) <= L
    BY <1>2 DEF EventsRead
  <2>2. Len(c.events) = L + 1 /\ c.events[L + 1] = e /\ \A k \in 1..L : c.events[k] = b.events[k]
    BY <1>2, <1>4
  <2> HIDE DEF L
  <2>3. \A k \in 1..Len(a.events) : k \in 1..L /\ b.events[k] = a.events[k]
    BY <2>1 DEF EventsRead
  <2>4. \A k \in 1..(L + 1) : k > Len(a.events) => \E m \in 1..(i + 1) : transcriptEvent(fmt, nodes[m]) = <<c.events[k]>>
    <3> SUFFICES ASSUME NEW k \in 1..(L + 1), k > Len(a.events)
                 PROVE  \E m \in 1..(i + 1) : transcriptEvent(fmt, nodes[m]) = <<c.events[k]>>
      OBVIOUS
    <3>1. CASE k = L + 1
      BY <1>1, <1>4, <2>2, <3>1
    <3>2. CASE k # L + 1
      <4>1. k \in 1..L
        BY <2>1, <3>2
      <4>2. PICK m \in 1..i : transcriptEvent(fmt, nodes[m]) = <<b.events[k]>>
        BY <4>1 DEF EventsRead, L
      <4>3. m \in 1..(i + 1)
        OBVIOUS
      <4> QED BY <2>2, <4>1, <4>2, <4>3
    <3> QED BY <3>1, <3>2
  <2>5. \A m \in 1..(i + 1) : transcriptEvent(fmt, nodes[m]) = <<>>
          \/ \E k \in 1..(L + 1) : k > Len(a.events) /\ transcriptEvent(fmt, nodes[m]) = <<c.events[k]>>
    <3> SUFFICES ASSUME NEW m \in 1..(i + 1), transcriptEvent(fmt, nodes[m]) # <<>>
                 PROVE  \E k \in 1..(L + 1) : k > Len(a.events) /\ transcriptEvent(fmt, nodes[m]) = <<c.events[k]>>
      OBVIOUS
    <3>1. CASE m = i + 1
      <4>1. L + 1 \in 1..(L + 1) /\ L + 1 > Len(a.events)
        BY <2>1
      <4> QED BY <1>4, <2>2, <3>1, <4>1
    <3>2. CASE m \in 1..i
      <4>1. PICK k \in 1..L : k > Len(a.events) /\ transcriptEvent(fmt, nodes[m]) = <<b.events[k]>>
        BY <3>2 DEF EventsRead, L
      <4>2. k \in 1..(L + 1) /\ c.events[k] = b.events[k]
        <5>1. k \in 1..(L + 1)
          BY <2>1
        <5>2. c.events[k] = b.events[k]
          BY <2>2
        <5> QED BY <5>1, <5>2
      <4> QED BY <4>1, <4>2
    <3> QED BY <1>1, <3>1, <3>2
  <2>6. Len(a.events) <= L + 1
    BY <2>1
  <2>7. \A k \in 1..Len(a.events) : c.events[k] = a.events[k]
    BY <2>2, <2>3
  <2> QED BY <2>2, <2>4, <2>5, <2>6, <2>7 DEF EventsRead
<1> QED BY <1>1, <1>3, <1>4, EventOfNode

(* One more element of a sequence is one more of what it holds.            *)
LEMMA SaidGrows ==
  ASSUME NEW q \in Seq(STRING), NEW x \in STRING
  PROVE  Len(Append(q, x)) = Len(q) + 1 /\ \A c : c \in Said(Append(q, x)) <=> c \in Said(q) \/ c = x
<1> DEFINE r == Append(q, x)
           N == Len(q)
<1>1. N \in Nat /\ Len(r) = N + 1 /\ r[N + 1] = x /\ \A k \in 1..N : r[k] = q[k]
  OBVIOUS
<1> HIDE DEF r, N
<1>2. \A k : k \in 1..(N + 1) <=> k \in 1..N \/ k = N + 1
  BY <1>1
<1>3. \A c : c \in Said(r) <=> (\E k \in 1..N : r[k] = c) \/ r[N + 1] = c
  BY <1>1, <1>2 DEF Said
<1>4. \A c : c \in Said(q) <=> \E k \in 1..N : q[k] = c
  BY DEF Said, N
<1>5. \A c : c \in Said(r) <=> c \in Said(q) \/ c = x
  BY <1>1, <1>3, <1>4
<1> QED BY <1>1, <1>5 DEF r, N

(* The next node of a line.                                                *)
LEMMA NextNode ==
  ASSUME NEW nodes \in Seq(Nodes), NEW i \in Nat, i < Len(nodes)
  PROVE  nodes[i + 1] \in Nodes /\ 1..(i + 1) = (1..i) \cup {i + 1} /\ i + 1 \notin 1..i
OBVIOUS

(* NodeStep appends the node's command, if it has one.                     *)
LEMMA CommandsGoOn ==
  ASSUME NEW fmt, NEW a \in Passes, NEW b \in Passes, NEW c \in Passes, NEW nodes \in Seq(Nodes), NEW i \in Nat, i < Len(nodes),
         CommandsRead(fmt, a, b, nodes, i), c.cmds = GoesOn(b.cmds, transcriptCommand(fmt, nodes[i + 1]))
  PROVE  CommandsRead(fmt, a, c, nodes, i + 1)
<1> DEFINE S == CommandsUpTo(fmt, nodes, i)
           T == CommandsUpTo(fmt, nodes, i + 1)
           x == transcriptCommand(fmt, nodes[i + 1])
<1>1. nodes[i + 1] \in Nodes /\ 1..(i + 1) = (1..i) \cup {i + 1} /\ i + 1 \notin 1..i
  BY NextNode
<1>2. x = "" \/ x \in STRING
  BY <1>1, EventOfNode
<1>3. T = IF x = "" THEN S ELSE S \cup {i + 1}
  BY <1>1 DEF CommandsUpTo
<1>4. i + 1 \notin S
  BY <1>1 DEF CommandsUpTo
<1>5. /\ IsFiniteSet(S) /\ Len(b.cmds) = Len(a.cmds) + Cardinality(S)
      /\ \A d : d \in Said(b.cmds) <=> d \in Said(a.cmds) \/ \E m \in S : transcriptCommand(fmt, nodes[m]) = d
  BY DEF CommandsRead
<1>6. Len(a.cmds) \in Nat /\ b.cmds \in Seq(STRING)
  BY DEF Passes
<1> HIDE DEF S, T
<1>7. CASE x = ""
  BY <1>3, <1>5, <1>7 DEF CommandsRead, GoesOn, T
<1>8. CASE x # ""
  <2> HIDE DEF x
  <2>1. x \in STRING /\ c.cmds = Append(b.cmds, x)
    BY <1>2, <1>8 DEF x, GoesOn
  <2>2. Len(c.cmds) = Len(b.cmds) + 1 /\ \A d : d \in Said(c.cmds) <=> d \in Said(b.cmds) \/ d = x
    BY <1>6, <2>1, SaidGrows
  <2>3. IsFiniteSet(T) /\ Cardinality(T) = Cardinality(S) + 1 /\ Cardinality(S) \in Nat
    BY <1>3, <1>4, <1>5, <1>8, FS_AddElement, FS_CardinalityType
  <2>4. Len(c.cmds) = Len(a.cmds) + Cardinality(T)
    <3>1. Len(c.cmds) = Len(b.cmds) + 1 /\ Len(b.cmds) = Len(a.cmds) + Cardinality(S) /\ Cardinality(T) = Cardinality(S) + 1
      BY <1>5, <2>2, <2>3
    <3>2. Len(a.cmds) \in Nat /\ Cardinality(S) \in Nat
      BY <1>6, <2>3
    <3> QED BY ONLY <3>1, <3>2
  <2>5. transcriptCommand(fmt, nodes[i + 1]) = x
    BY DEF x
  <2>6. \A d : (\E m \in T : transcriptCommand(fmt, nodes[m]) = d) <=> (\E m \in S : transcriptCommand(fmt, nodes[m]) = d) \/ d = x
    BY <1>3, <1>8, <2>5
  <2>7. \A d : d \in Said(c.cmds) <=> d \in Said(a.cmds) \/ \E m \in T : transcriptCommand(fmt, nodes[m]) = d
    BY <1>5, <2>2, <2>6
  <2> QED BY <2>3, <2>4, <2>7 DEF CommandsRead, T
<1> QED BY <1>7, <1>8

(* observeNode notes a call, or an answer and whether it came too early.   *)
LEMMA SessionGoesOn ==
  ASSUME NEW fmt, NEW s \in Sessions, NEW t \in Sessions, NEW nodes \in Seq(Nodes), NEW i \in Nat, i < Len(nodes),
         SessionRead(fmt, s, t, nodes, i)
  PROVE  SessionRead(fmt, s, observeNode(fmt, t, nodes[i + 1]), nodes, i + 1)
<1> DEFINE n == nodes[i + 1]
           u == observeNode(fmt, t, n)
<1>1. n \in Nodes /\ n.id \in STRING /\ i + 1 \in 1..Len(nodes)
  <2>1. n \in Nodes /\ i + 1 \in 1..Len(nodes)
    OBVIOUS
  <2> HIDE DEF n
  <2> QED BY <2>1 DEF Nodes
<1>2. /\ IdsUpTo(nodes, i + 1, "use") = IdsUpTo(nodes, i, "use") \cup (IF n.kind = "use" THEN {n.id} \ {""} ELSE {})
      /\ IdsUpTo(nodes, i + 1, "result") = IdsUpTo(nodes, i, "result") \cup (IF n.kind = "result" THEN {n.id} \ {""} ELSE {})
  BY IdsGrow
<1>3. IdsUpTo(nodes, i, "use") \subseteq IdsUpTo(nodes, Len(nodes), "use")
  <2>1. \A m \in 1..i : m \in 1..Len(nodes)
    OBVIOUS
  <2> QED BY <2>1 DEF IdsUpTo
<1>4. n.kind = "result" /\ n.id # "" => n.id \in IdsUpTo(nodes, Len(nodes), "result")
  BY <1>1 DEF IdsUpTo
<1>5. CASE fmt # "claude"
  <2>1. u = t
    <3>1. \A m : observeNode(fmt, t, m) = t
      BY <1>5 DEF observeNode
    <3> QED BY <3>1
  <2> QED BY <1>5, <2>1 DEF SessionRead
<1>6. CASE fmt = "claude" /\ (n.id = "" \/ n.kind \notin {"use", "result"})
  <2>1. u = t
    <3> HIDE DEF n
    <3>1. CASE n.id = ""
      BY <3>1 DEF observeNode
    <3>2. CASE n.id # ""
      BY <1>6, <3>2 DEF observeNode
    <3> QED BY <3>1, <3>2
  <2>2. IdsUpTo(nodes, i + 1, "use") = IdsUpTo(nodes, i, "use") /\ IdsUpTo(nodes, i + 1, "result") = IdsUpTo(nodes, i, "result")
    BY <1>2, <1>6
  <2> QED BY <2>1, <2>2 DEF SessionRead
<1>7. CASE fmt = "claude" /\ n.id # "" /\ n.kind = "use"
  <2>1. u = [t EXCEPT !.uses = @ \cup {n.id}]
    BY <1>7 DEF observeNode
  <2>2. IdsUpTo(nodes, i + 1, "use") = IdsUpTo(nodes, i, "use") \cup {n.id} /\ IdsUpTo(nodes, i + 1, "result") = IdsUpTo(nodes, i, "result")
    BY <1>2, <1>7
  <2> HIDE DEF u, n
  <2>3. /\ u.uses = t.uses \cup {n.id} /\ u.results = t.results /\ u.early = t.early
        /\ u.start = t.start /\ u.done = t.done /\ u.turns = t.turns /\ u.sid = t.sid
        /\ u.mixed = t.mixed /\ u.uuids = t.uuids /\ u.dup = t.dup
    BY <2>1 DEF Sessions
  <2>4. SessionRead(fmt, s, u, nodes, i + 1)
    BY <2>2, <2>3 DEF SessionRead
  <2> QED BY <2>4 DEF u, n
<1>8. CASE fmt = "claude" /\ n.id # "" /\ n.kind = "result"
  <2>1. u = [t EXCEPT !.early = @ \/ n.id \notin t.uses, !.results = @ \cup {n.id}]
    BY <1>8 DEF observeNode
  <2>2. IdsUpTo(nodes, i + 1, "use") = IdsUpTo(nodes, i, "use") /\ IdsUpTo(nodes, i + 1, "result") = IdsUpTo(nodes, i, "result") \cup {n.id}
    BY <1>2, <1>8
  <2> HIDE DEF u, n
  <2>3. /\ u.uses = t.uses /\ u.results = t.results \cup {n.id} /\ u.early = (t.early \/ n.id \notin t.uses)
        /\ u.start = t.start /\ u.done = t.done /\ u.turns = t.turns /\ u.sid = t.sid
        /\ u.mixed = t.mixed /\ u.uuids = t.uuids /\ u.dup = t.dup
    BY <2>1 DEF Sessions
  <2>4. t.uses = s.uses \cup IdsUpTo(nodes, i, "use") /\ (Apart(nodes) => n.id \notin IdsUpTo(nodes, i, "use"))
    BY <1>3, <1>4, <1>8 DEF SessionRead, Apart
  <2>5. SessionRead(fmt, s, u, nodes, i + 1)
    BY <1>8, <2>2, <2>3, <2>4 DEF SessionRead
  <2> QED BY <2>5 DEF u, n
<1> QED BY <1>5, <1>6, <1>7, <1>8

(* All nodes of a line, in the order they are walked.                      *)
LEMMA NodesRead ==
  ASSUME NEW fmt, NEW a \in Passes, NEW nodes \in Seq(Nodes)
  PROVE  LET b == NodeSteps(fmt, a, nodes)
         IN /\ b \in Passes /\ Untouched(a, b)
            /\ EventsRead(fmt, a, b, nodes, Len(nodes)) /\ SessionRead(fmt, a.conf, b.conf, nodes, Len(nodes))
            /\ CommandsRead(fmt, a, b, nodes, Len(nodes))
<1> DEFINE N == Len(nodes)
           step == [p \in Passes \X (1..N) |-> NodeStep(fmt, p[1], nodes[p[2]])]
<1>1. N \in Nat /\ \A i \in 1..N : nodes[i] \in Nodes
  OBVIOUS
<1>2. \A t \in Passes, i \in 1..N : step[<<t, i>>] = NodeStep(fmt, t, nodes[i])
  OBVIOUS
<1>3. PICK g \in [0..N -> Passes] : g[0] = a /\ \A i \in 1..N : g[i] = NodeStep(fmt, g[i - 1], nodes[i])
  <2>1. StaysIn(step, Passes, N)
    BY <1>1, <1>2, NodeStepIs DEF StaysIn
  <2> HIDE DEF step, N
  <2>2. PICK g : Iterates(g, step, Passes, a, N)
    BY <1>1, <2>1, IterationExists
  <2>3. g \in [0..N -> Passes] /\ g[0] = a /\ \A i \in 1..N : g[i] = step[<<g[i - 1], i>>]
    BY <2>2 DEF Iterates
  <2>4. \A i \in 1..N : g[i - 1] \in Passes
    BY <1>1, <2>3
  <2> QED BY <1>2, <2>3, <2>4, ZenonT(30)
<1> HIDE DEF step
<1>4. NodeSteps(fmt, a, nodes) = g[N]
  <2> DEFINE Fits(h) == h = [i \in 0..N |-> IF i = 0 THEN a ELSE NodeStep(fmt, h[i - 1], nodes[i])]
             h == CHOOSE h : Fits(h)
  <2>1. Fits(g)
    <3> SUFFICES ASSUME NEW i \in 0..N PROVE g[i] = IF i = 0 THEN a ELSE NodeStep(fmt, g[i - 1], nodes[i])
      OBVIOUS
    <3> QED BY <1>1, <1>3, SMTT(30)
  <2>2. Fits(h)
    BY <2>1
  <2>3. NodeSteps(fmt, a, nodes) = h[N]
    BY DEF NodeSteps
  <2> HIDE DEF h
  <2> DEFINE S == {i \in 0..N : h[i] = g[i]}
  <2>4. 0 \in S
    BY <1>1, <1>3, <2>2
  <2>5. \A i \in 0..N : i \in S /\ i < N => i + 1 \in S
    <3> SUFFICES ASSUME NEW i \in 0..N, i \in S, i < N PROVE i + 1 \in S
      OBVIOUS
    <3>1. i + 1 \in 1..N /\ i + 1 \in 0..N /\ (i + 1) - 1 = i /\ i + 1 # 0
      BY <1>1
    <3>2. h[i + 1] = NodeStep(fmt, h[(i + 1) - 1], nodes[i + 1])
      BY <2>2, <3>1
    <3>3. g[i + 1] = NodeStep(fmt, g[(i + 1) - 1], nodes[i + 1])
      BY <1>3, <3>1
    <3> QED BY <3>1, <3>2, <3>3
  <2>6. \A i \in 0..N : i \in S
    <3> HIDE DEF S, N
    <3> QED BY <1>1, <2>4, <2>5, UpTo
  <2> QED BY <1>1, <2>3, <2>6
<1> DEFINE Up(i) == Untouched(a, g[i]) /\ EventsRead(fmt, a, g[i], nodes, i) /\ SessionRead(fmt, a.conf, g[i].conf, nodes, i)
                    /\ CommandsRead(fmt, a, g[i], nodes, i)
           S == {i \in 0..N : Up(i)}
<1>5. 0 \in S
  <2>0. CommandsRead(fmt, a, a, nodes, 0)
    <3>1. CommandsUpTo(fmt, nodes, 0) = {}
      BY DEF CommandsUpTo
    <3>2. Len(a.cmds) \in Nat
      BY DEF Passes
    <3> QED BY <3>1, <3>2, FS_EmptySet DEF CommandsRead
  <2>1. EventsRead(fmt, a, a, nodes, 0)
    <3>1. Len(a.events) \in Nat
      BY DEF Passes
    <3> QED BY <3>1 DEF EventsRead
  <2>2. SessionRead(fmt, a.conf, a.conf, nodes, 0)
    BY DEF SessionRead, IdsUpTo
  <2>3. Untouched(a, a)
    BY DEF Untouched
  <2> QED BY <1>1, <1>3, <2>0, <2>1, <2>2, <2>3
<1>6. \A i \in 0..N : i \in S /\ i < N => i + 1 \in S
  <2> SUFFICES ASSUME NEW i \in 0..N, Up(i), i < N PROVE Up(i + 1)
    BY <1>1
  <2>1. i + 1 \in 1..N /\ (i + 1) - 1 = i /\ i \in Nat /\ i < Len(nodes)
    BY <1>1
  <2>2. g[i + 1] = NodeStep(fmt, g[i], nodes[i + 1]) /\ g[i] \in Passes /\ nodes[i + 1] \in Nodes /\ g[i + 1] \in Passes
    BY <1>1, <1>3, <2>1
  <2>3. /\ Untouched(g[i], g[i + 1]) /\ g[i + 1].events = g[i].events \o transcriptEvent(fmt, nodes[i + 1])
        /\ g[i + 1].conf = observeNode(fmt, g[i].conf, nodes[i + 1])
        /\ g[i + 1].cmds = GoesOn(g[i].cmds, transcriptCommand(fmt, nodes[i + 1]))
    <3> DEFINE b == g[i]
               n == nodes[i + 1]
               c == NodeStep(fmt, b, n)
    <3>1. b \in Passes /\ n \in Nodes /\ g[i + 1] = c
      BY <2>2
    <3> HIDE DEF b, n
    <3>2. /\ Untouched(b, c) /\ c.events = b.events \o transcriptEvent(fmt, n)
          /\ c.conf = observeNode(fmt, b.conf, n) /\ c.cmds = GoesOn(b.cmds, transcriptCommand(fmt, n))
      BY <3>1, NodeStepIs
    <3> HIDE DEF c
    <3>3. /\ Untouched(b, g[i + 1]) /\ g[i + 1].events = b.events \o transcriptEvent(fmt, n)
          /\ g[i + 1].conf = observeNode(fmt, b.conf, n) /\ g[i + 1].cmds = GoesOn(b.cmds, transcriptCommand(fmt, n))
      BY <3>1, <3>2
    <3> QED BY <3>3 DEF b, n
  <2>4. g[i].conf \in Sessions /\ a.conf \in Sessions
    BY <2>2 DEF Passes
  <2>5. EventsRead(fmt, a, g[i + 1], nodes, i + 1)
    BY <2>1, <2>2, <2>3, EventsGoOn
  <2>6. SessionRead(fmt, a.conf, g[i + 1].conf, nodes, i + 1)
    BY <2>1, <2>3, <2>4, SessionGoesOn
  <2>7. Untouched(a, g[i + 1])
    BY <2>3 DEF Untouched
  <2>8. CommandsRead(fmt, a, g[i + 1], nodes, i + 1)
    BY <2>1, <2>2, <2>3, CommandsGoOn
  <2> QED BY <2>5, <2>6, <2>7, <2>8
<1>7. N \in S
  <2> HIDE DEF S, N
  <2>1. \A n \in 0..N : n \in S
    BY <1>1, <1>5, <1>6, UpTo
  <2> QED BY <1>1, <2>1
<1>8. g[N] \in Passes
  BY <1>1, <1>3
<1> QED BY <1>4, <1>7, <1>8

(* The nodes of a line, whatever the order they were walked in.            *)
LineNodes(fmt, a, b, l) ==
  /\ Untouched(a, b)
  /\ EventsRead(fmt, a, b, l.nodes, Len(l.nodes))
  /\ SessionRead(fmt, a.conf, b.conf, l.nodes, Len(l.nodes))
  /\ CommandsRead(fmt, a, b, l.nodes, Len(l.nodes))

(* What holds of the nodes of a line read backwards holds of the line: the *)
(* order in which Go walks a map makes no difference to what is kept.      *)
LEMMA AnyOrder ==
  ASSUME NEW fmt, NEW a \in Passes, NEW b \in Passes, NEW nodes \in Seq(Nodes), NEW other, other = Reverse(nodes)
  PROVE  /\ other \in Seq(Nodes)
         /\ EventsRead(fmt, a, b, other, Len(other)) => EventsRead(fmt, a, b, nodes, Len(nodes))
         /\ SessionRead(fmt, a.conf, b.conf, other, Len(other)) => SessionRead(fmt, a.conf, b.conf, nodes, Len(nodes))
         /\ CommandsRead(fmt, a, b, other, Len(other)) => CommandsRead(fmt, a, b, nodes, Len(nodes))
<1> DEFINE N == Len(nodes)
           turn(m) == (N - m) + 1
<1>1. N \in Nat /\ other = [m \in 1..N |-> nodes[turn(m)]]
  BY DEF Reverse
<1>2. \A m \in 1..N : turn(m) \in 1..N /\ turn(turn(m)) = m
  BY <1>1
<1>3. other \in Seq(Nodes) /\ Len(other) = N
  <2>1. \A m \in 1..N : nodes[m] \in Nodes
    OBVIOUS
  <2>2. other \in [1..N -> Nodes]
    BY <1>1, <1>2, <2>1
  <2> QED BY <1>1, <2>2
<1>4. \A m \in 1..N : other[m] = nodes[turn(m)] /\ nodes[m] = other[turn(m)]
  BY <1>1, <1>2
<1> HIDE DEF turn, N
<1>5. \A k : IdsUpTo(other, N, k) = IdsUpTo(nodes, N, k)
  <2> SUFFICES ASSUME NEW k PROVE IdsUpTo(other, N, k) = IdsUpTo(nodes, N, k)
    OBVIOUS
  <2>1. \A d : (\E m \in 1..N : other[m].kind = k /\ other[m].id = d) <=> (\E m \in 1..N : nodes[m].kind = k /\ nodes[m].id = d)
    BY <1>2, <1>4
  <2>2. \A s, d : d \in IdsUpTo(s, N, k) <=> d # "" /\ \E m \in 1..N : s[m].kind = k /\ s[m].id = d
    BY DEF IdsUpTo
  <2> DEFINE P == IdsUpTo(other, N, k)
             Q == IdsUpTo(nodes, N, k)
  <2>3. \A d : d \in P <=> d \in Q
    <3>1. \A d : d \in P <=> d # "" /\ \E m \in 1..N : other[m].kind = k /\ other[m].id = d
      BY <2>2
    <3>2. \A d : d \in Q <=> d # "" /\ \E m \in 1..N : nodes[m].kind = k /\ nodes[m].id = d
      BY <2>2
    <3> HIDE DEF P, Q
    <3> QED BY <2>1, <3>1, <3>2
  <2> HIDE DEF P, Q
  <2>4. P = Q
    BY <2>3
  <2> QED BY <2>4 DEF P, Q
<1>6. EventsRead(fmt, a, b, other, N) => EventsRead(fmt, a, b, nodes, N)
  <2> SUFFICES ASSUME EventsRead(fmt, a, b, other, N) PROVE EventsRead(fmt, a, b, nodes, N)
    OBVIOUS
  <2>1. \A k \in 1..Len(b.events) : k > Len(a.events) => \E m \in 1..N : transcriptEvent(fmt, nodes[m]) = <<b.events[k]>>
    BY <1>2, <1>4 DEF EventsRead
  <2>2. \A m \in 1..N : transcriptEvent(fmt, nodes[m]) = <<>>
                     \/ \E k \in 1..Len(b.events) : k > Len(a.events) /\ transcriptEvent(fmt, nodes[m]) = <<b.events[k]>>
    BY <1>2, <1>4 DEF EventsRead
  <2> QED BY <2>1, <2>2 DEF EventsRead
<1>7. SessionRead(fmt, a.conf, b.conf, other, N) => SessionRead(fmt, a.conf, b.conf, nodes, N)
  <2>1. Apart(other) <=> Apart(nodes)
    BY <1>3, <1>5 DEF Apart, N
  <2> QED BY <1>5, <2>1 DEF SessionRead
<1>8. CommandsRead(fmt, a, b, other, N) => CommandsRead(fmt, a, b, nodes, N)
  <2> SUFFICES ASSUME CommandsRead(fmt, a, b, other, N) PROVE CommandsRead(fmt, a, b, nodes, N)
    OBVIOUS
  <2> DEFINE S == CommandsUpTo(fmt, other, N)
             T == CommandsUpTo(fmt, nodes, N)
             f == [m \in S |-> turn(m)]
  <2>1. /\ \A m : m \in S <=> m \in 1..N /\ transcriptCommand(fmt, other[m]) # ""
        /\ \A m : m \in T <=> m \in 1..N /\ transcriptCommand(fmt, nodes[m]) # ""
    BY DEF CommandsUpTo
  <2>2. IsFiniteSet(S)
    BY DEF CommandsRead
  <2>3. f \in Bijection(S, T)
    <3>1. \A m \in S : turn(m) \in T /\ turn(turn(m)) = m
      <4> HIDE DEF S, T
      <4> QED BY <1>2, <1>4, <2>1
    <3>2. \A m \in T : turn(m) \in S /\ turn(turn(m)) = m
      <4> HIDE DEF S, T
      <4> QED BY <1>2, <1>4, <2>1
    <3> HIDE DEF S, T
    <3>3. f \in [S -> T] /\ \A m \in S : f[m] = turn(m)
      BY <3>1
    <3> HIDE DEF f
    <3>4. \A m, k \in S : f[m] = f[k] => m = k
      BY <3>1, <3>3
    <3>5. \A k \in T : \E m \in S : f[m] = k
      BY <3>2, <3>3
    <3>6. f \in Injection(S, T)
      BY <3>3, <3>4 DEF Injection, IsInjective
    <3>7. f \in Surjection(S, T)
      BY <3>3, <3>5 DEF Surjection
    <3> QED BY <3>6, <3>7 DEF Bijection
  <2>4. IsFiniteSet(T) /\ Cardinality(T) = Cardinality(S)
    <3> HIDE DEF S, T, f
    <3>1. ExistsBijection(S, T)
      BY <2>3 DEF ExistsBijection
    <3> QED BY <2>2, <3>1, FS_Bijection
  <2>5. \A d : (\E m \in S : transcriptCommand(fmt, other[m]) = d) <=> (\E m \in T : transcriptCommand(fmt, nodes[m]) = d)
    <3> HIDE DEF S, T
    <3> SUFFICES ASSUME NEW d
                 PROVE  (\E m \in S : transcriptCommand(fmt, other[m]) = d) <=> (\E m \in T : transcriptCommand(fmt, nodes[m]) = d)
      OBVIOUS
    <3>1. ASSUME NEW m \in S, transcriptCommand(fmt, other[m]) = d PROVE \E k \in T : transcriptCommand(fmt, nodes[k]) = d
      <4>1. m \in 1..N /\ turn(m) \in 1..N /\ other[m] = nodes[turn(m)] /\ transcriptCommand(fmt, other[m]) # ""
        BY <1>2, <1>4, <2>1, <3>1
      <4>2. turn(m) \in T
        BY <2>1, <4>1
      <4> QED BY <3>1, <4>1, <4>2
    <3>2. ASSUME NEW m \in T, transcriptCommand(fmt, nodes[m]) = d PROVE \E k \in S : transcriptCommand(fmt, other[k]) = d
      <4>1. m \in 1..N /\ turn(m) \in 1..N /\ nodes[m] = other[turn(m)] /\ transcriptCommand(fmt, nodes[m]) # ""
        BY <1>2, <1>4, <2>1, <3>2
      <4>2. turn(m) \in S
        BY <2>1, <4>1
      <4> QED BY <3>2, <4>1, <4>2
    <3> QED BY <3>1, <3>2
  <2> HIDE DEF S, T
  <2>6. Len(b.cmds) = Len(a.cmds) + Cardinality(S)
        /\ \A c : c \in Said(b.cmds) <=> c \in Said(a.cmds) \/ \E m \in S : transcriptCommand(fmt, other[m]) = c
    BY DEF CommandsRead, S
  <2>7. Len(b.cmds) = Len(a.cmds) + Cardinality(T)
        /\ \A c : c \in Said(b.cmds) <=> c \in Said(a.cmds) \/ \E m \in T : transcriptCommand(fmt, nodes[m]) = c
    BY <2>4, <2>5, <2>6
  <2> QED BY <2>4, <2>7 DEF CommandsRead, T
<1> QED BY <1>3, <1>6, <1>7, <1>8 DEF N

(* What JSONLine feeds the pass before the nodes.                          *)
Opened(l) ==
  [acc EXCEPT !.json = TRUE, !.known = @ \/ recognizedTranscriptEvent(scen.fmt, l),
              !.conf = observeLine(scen.fmt, @, l), !.use = usageWalk(@, l)]

(* observeLine and usageWalk leave the events and the faults alone.        *)
LEMMA OpenedIs ==
  ASSUME acc \in Passes, NEW l \in Lines
  PROVE  LET a == Opened(l)
         IN /\ a \in Passes /\ a.json /\ a.startup = acc.startup /\ a.bad = acc.bad /\ a.events = acc.events /\ a.cmds = acc.cmds
            /\ a.known <=> acc.known \/ recognizedTranscriptEvent(scen.fmt, l)
            /\ a.conf = observeLine(scen.fmt, acc.conf, l) /\ a.use = usageWalk(acc.use, l)
<1>1. /\ l.json \in BOOLEAN /\ l.type \in STRING /\ l.sid \in STRING /\ l.uuid \in STRING /\ l.turns \in Int
      /\ l.uid \in STRING /\ l.tokens \in Int
  BY DEF Lines
<1>2. acc.conf \in Sessions /\ acc.use \in Usages
  BY DEF Passes
<1>3. observeLine(scen.fmt, acc.conf, l) \in Sessions
  <2> DEFINE s == acc.conf
             done == transcriptIsCompletion(scen.fmt, l)
             start == transcriptIsSessionStart(scen.fmt, l)
  <2>1. done \in BOOLEAN /\ start \in BOOLEAN
    BY DEF transcriptIsCompletion, transcriptIsSessionStart
  <2>2. s \in Sessions
    BY <1>2
  <2>3. observeLine(scen.fmt, s, l) =
        [s EXCEPT !.start = @ \/ start,
                 !.done = @ \/ done,
                 !.turns = IF done /\ l.turns >= 0 THEN l.turns ELSE @,
                 !.sid = IF @ = "" THEN l.sid ELSE @,
                 !.mixed = @ \/ (l.sid # "" /\ s.sid # "" /\ l.sid # s.sid),
                 !.dup = @ \/ l.uuid \in s.uuids,
                 !.uuids = @ \cup ({l.uuid} \ {""})]
    BY DEF observeLine
  <2> HIDE DEF s, done, start
  <2>4. /\ s.turns \in Int /\ s.sid \in Texts /\ l.sid \in Texts /\ s.uuids \cup ({l.uuid} \ {""}) \in SUBSET STRING
        /\ (IF done /\ l.turns >= 0 THEN l.turns ELSE s.turns) \in Int
    BY <1>1, <2>1, <2>2 DEF Sessions, Texts
  <2>5. observeLine(scen.fmt, s, l) \in Sessions
    BY <2>1, <2>2, <2>3, <2>4, ZenonT(30) DEF Sessions
  <2> QED BY <2>5 DEF s
<1>4. usageWalk(acc.use, l) \in Usages
  <2> DEFINE u == acc.use
             D == DOMAIN u.byID
             f == [k \in D \cup {l.uid} |-> IF k = l.uid THEN l.tokens ELSE u.byID[k]]
  <2>1. D \in SUBSET STRING /\ u.byID \in [D -> Nat] /\ u.fallback \in Nat /\ u \in Usages
    BY <1>2 DEF Usages
  <2>2. CASE l.tokens < 0
    BY <1>2, <2>2 DEF usageWalk
  <2>3. l.tokens \in Int
    BY <1>1
  <2>4. l.uid \in STRING
    BY <1>1
  <2>5. CASE ~(l.tokens < 0)
    <3>1. l.tokens \in Nat
      BY <2>3, <2>5
    <3>2. CASE l.uid # ""
      <4>1. f \in [D \cup {l.uid} -> Nat] /\ D \cup {l.uid} \in SUBSET STRING
        <5> HIDE DEF D
        <5>1. D \cup {l.uid} \in SUBSET STRING
          BY <2>1, <2>4
        <5>2. \A k \in D \cup {l.uid} : (IF k = l.uid THEN l.tokens ELSE u.byID[k]) \in Nat
          BY <2>1, <3>1
        <5> QED BY <5>1, <5>2
      <4>2. usageWalk(u, l) = [u EXCEPT !.seen = TRUE, !.byID = f]
        BY <2>5, <3>2 DEF usageWalk
      <4> HIDE DEF f, D, u
      <4>3. f \in UNION {[E -> Nat] : E \in SUBSET STRING}
        BY <4>1
      <4>4. usageWalk(u, l) \in Usages
        BY <2>1, <4>2, <4>3 DEF Usages
      <4> QED BY <4>4 DEF u
    <3>3. CASE l.uid = ""
      <4>1. usageWalk(u, l) = [u EXCEPT !.seen = TRUE, !.fallback = IF l.tokens >= @ THEN l.tokens ELSE @]
        BY <2>5, <3>3 DEF usageWalk
      <4> HIDE DEF u
      <4>2. usageWalk(u, l) \in Usages
        BY <2>1, <3>1, <4>1 DEF Usages
      <4> QED BY <4>2 DEF u
    <3> QED BY <3>2, <3>3
  <2> QED BY <2>2, <2>5
<1>5. recognizedTranscriptEvent(scen.fmt, l) \in BOOLEAN
  BY DEF recognizedTranscriptEvent
<1> DEFINE a == Opened(l)
<1>6. a = [acc EXCEPT !.json = TRUE, !.known = acc.known \/ recognizedTranscriptEvent(scen.fmt, l),
                      !.conf = observeLine(scen.fmt, acc.conf, l), !.use = usageWalk(acc.use, l)]
  BY DEF Opened
<1> HIDE DEF a
<1>7. a \in Passes
  BY <1>3, <1>4, <1>5, <1>6 DEF Passes
<1>8. /\ a.json /\ a.startup = acc.startup /\ a.bad = acc.bad /\ a.events = acc.events /\ a.cmds = acc.cmds
      /\ a.known <=> acc.known \/ recognizedTranscriptEvent(scen.fmt, l)
      /\ a.conf = observeLine(scen.fmt, acc.conf, l) /\ a.use = usageWalk(acc.use, l)
  BY <1>6 DEF Passes
<1> QED BY <1>7, <1>8 DEF a

(* A line that is JSON.                                                    *)
LEMMA JSONLineIs ==
  ASSUME acc \in Passes, NEW l \in Lines, NEW nodes \in {l.nodes} \cup (IF l.ordered THEN {} ELSE {Reverse(l.nodes)})
  PROVE  JSONLine(l, nodes) \in Passes /\ LineNodes(scen.fmt, Opened(l), JSONLine(l, nodes), l)
<1>1. Opened(l) \in Passes /\ l.nodes \in Seq(Nodes)
  BY OpenedIs DEF Lines
<1> DEFINE a == Opened(l)
           b == JSONLine(l, nodes)
<1>2. b = NodeSteps(scen.fmt, a, nodes)
  BY DEF JSONLine, Opened
<1> HIDE DEF a, b
<1>3. nodes \in Seq(Nodes)
  BY <1>1, AnyOrder
<1>4. a \in Passes
  BY <1>1 DEF a
<1>5. /\ b \in Passes /\ Untouched(a, b) /\ EventsRead(scen.fmt, a, b, nodes, Len(nodes))
      /\ SessionRead(scen.fmt, a.conf, b.conf, nodes, Len(nodes)) /\ CommandsRead(scen.fmt, a, b, nodes, Len(nodes))
  BY <1>2, <1>3, <1>4, NodesRead
<1>6. nodes = l.nodes \/ nodes = Reverse(l.nodes)
  OBVIOUS
<1>7. /\ EventsRead(scen.fmt, a, b, l.nodes, Len(l.nodes)) /\ SessionRead(scen.fmt, a.conf, b.conf, l.nodes, Len(l.nodes))
      /\ CommandsRead(scen.fmt, a, b, l.nodes, Len(l.nodes))
  BY <1>1, <1>4, <1>5, <1>6, AnyOrder
<1> QED BY <1>5, <1>7 DEF LineNodes, a, b

-----------------------------------------------------------------------------
(* The pass over the lines                                                 *)

TranscriptSpec == TranscriptInit /\ [][TranscriptNext]_tVars

PassTypes == scen \in Scenarios /\ hist \in Seq(scen.lines) /\ acc \in Passes

(* The lines that were JSON, each at its place.                            *)
Spoken == [i \in JSONAt |-> hist[i]]

(* The events stand in the order of their lines, none is missing and none  *)
(* is made up; within a line their order is open.                          *)
EventsIn(fmt, L, events) ==
  \E at \in [1..Len(events) -> DOMAIN L] :
    /\ \A j, k \in 1..Len(events) : j <= k => at[j] <= at[k]
    /\ \A k \in 1..Len(events) : \E m \in 1..Len(L[at[k]].nodes) : transcriptEvent(fmt, L[at[k]].nodes[m]) = <<events[k]>>
    /\ \A i \in DOMAIN L : \A m \in 1..Len(L[i].nodes) :
         \/ transcriptEvent(fmt, L[i].nodes[m]) = <<>>
         \/ \E k \in 1..Len(events) : at[k] = i /\ transcriptEvent(fmt, L[i].nodes[m]) = <<events[k]>>

(* The commands of the lines, each at its place, and what they are.        *)
PlacesIn(fmt, L) == UNION {{i} \X CommandsUpTo(fmt, L[i].nodes, Len(L[i].nodes)) : i \in DOMAIN L}
CommandsIn(fmt, L, cmds) ==
  /\ IsFiniteSet(PlacesIn(fmt, L)) /\ Len(cmds) = Cardinality(PlacesIn(fmt, L))
  /\ \A c : c \in Said(cmds) <=>
              \E i \in DOMAIN L : \E m \in CommandsUpTo(fmt, L[i].nodes, Len(L[i].nodes)) : transcriptCommand(fmt, L[i].nodes[m]) = c

(* The turns the last line that declares any declares.                     *)
Tells(fmt, l) == transcriptIsCompletion(fmt, l) /\ l.turns >= 0
TurnsIn(fmt, L, n) ==
  /\ n < 0 => \A i \in DOMAIN L : ~Tells(fmt, L[i])
  /\ n >= 0 => \E i \in DOMAIN L : Tells(fmt, L[i]) /\ L[i].turns = n /\ \A j \in DOMAIN L : Tells(fmt, L[j]) => j <= i

(* What the session is known to be.                                        *)
SessionIn(fmt, L, s) ==
  /\ s.start <=> \E i \in DOMAIN L : transcriptIsSessionStart(fmt, L[i])
  /\ s.done <=> \E i \in DOMAIN L : transcriptIsCompletion(fmt, L[i])
  /\ TurnsIn(fmt, L, s.turns)
  /\ s.sid = "" => \A i \in DOMAIN L : L[i].sid = ""
  /\ s.sid # "" => \E i \in DOMAIN L : L[i].sid = s.sid
  /\ s.mixed <=> \E i \in DOMAIN L : L[i].sid # "" /\ L[i].sid # s.sid
  /\ \A d : d \in s.uuids <=> d # "" /\ \E i \in DOMAIN L : L[i].uuid = d
  /\ s.dup <=> \E i, j \in DOMAIN L : i < j /\ L[i].uuid = L[j].uuid /\ L[i].uuid # ""

(* Which calls and answers it has had; early, if no line has both of one.  *)
IdsIn(l, k) == IdsUpTo(l.nodes, Len(l.nodes), k)
CallsIn(L, s) ==
  /\ \A d : d \in s.uses <=> \E i \in DOMAIN L : d \in IdsIn(L[i], "use")
  /\ \A d : d \in s.results <=> \E i \in DOMAIN L : d \in IdsIn(L[i], "result")
  /\ (\A i \in DOMAIN L : Apart(L[i].nodes)) =>
       (s.early <=> \E j \in DOMAIN L : \E d \in IdsIn(L[j], "result") : \A i \in DOMAIN L : i < j => d \notin IdsIn(L[i], "use"))

(* The last report of each record, and one that names none.                *)
Reports(L) == {i \in DOMAIN L : L[i].tokens >= 0}
UsageIn(L, u) ==
  /\ IsFiniteSet(DOMAIN u.byID)
  /\ \A d : d \in DOMAIN u.byID <=> d # "" /\ \E i \in Reports(L) : L[i].uid = d
  /\ \A i \in Reports(L) : L[i].uid # "" /\ (\A j \in Reports(L) : L[j].uid = L[i].uid => j <= i) => u.byID[L[i].uid] = L[i].tokens
  /\ Reports(L) # {} => u.seen
  /\ u.fallback = 0 \/ \E i \in Reports(L) : L[i].uid = "" /\ L[i].tokens = u.fallback
  /\ \A i \in Reports(L) : L[i].tokens \in Nat /\ (L[i].uid = "" => L[i].tokens <= u.fallback)

(* What the lines were.                                                    *)
Broken(h) == \E i, j \in 1..Len(h) : h[i].json /\ i < j /\ ~h[j].json
Foreign(fmt, h) ==
  \E j \in 1..Len(h) : (\A i \in 1..j : ~h[i].json) /\ (j > MaxStartupLines \/ ~allowedStartupNotice(fmt, h[j]))
FormatOf ==
  /\ acc.json <=> JSONAt # {}
  /\ acc.known <=> \E i \in JSONAt : recognizedTranscriptEvent(scen.fmt, hist[i])
  /\ ~acc.json => acc.startup = Len(hist)
  /\ "malformed" \in acc.bad <=> Broken(hist)
  /\ "startup" \in acc.bad <=> Foreign(scen.fmt, hist)

(* The verdict is drawn from what has been read, once.                     *)
VerdictOf ==
  verdict.drawn =>
    \/ verdict = [drawn |-> TRUE, rules |-> {}, bad |-> {"unreadable"}] /\ hist = <<>>
    \/ verdict = [drawn |-> TRUE, rules |-> RuleHits \cup Advisory,
                  bad |-> acc.bad \cup FormatViolations \cup BudgetViolations \cup CommandViolations \cup Denied]

PassInv ==
  /\ PassTypes /\ FormatOf /\ VerdictOf
  /\ EventsIn(scen.fmt, Spoken, acc.events) /\ SessionIn(scen.fmt, Spoken, acc.conf) /\ CommandsIn(scen.fmt, Spoken, acc.cmds)
  /\ (scen.fmt = "claude" => CallsIn(Spoken, acc.conf)) /\ UsageIn(Spoken, acc.use)

(* Before the first line nothing is held.                                  *)
LEMMA PassInit == TranscriptInit => PassInv
<1> SUFFICES ASSUME TranscriptInit PROVE PassInv
  OBVIOUS
<1>1. scen \in Scenarios /\ hist = <<>> /\ acc = NoAcc /\ ~verdict.drawn
  BY DEF TranscriptInit
<1>2. JSONAt = {} /\ Len(hist) = 0
  BY <1>1 DEF JSONAt
<1> DEFINE L == Spoken
<1>3. newTranscriptConformanceState \in Sessions
  BY DEF newTranscriptConformanceState, Sessions, Texts
<1>4. newUsageAccumulator \in Usages
  <2> DEFINE f == [k \in {} |-> 0]
  <2>1. f \in [{} -> Nat] /\ {} \in SUBSET STRING
    OBVIOUS
  <2> HIDE DEF f
  <2>2. f \in UNION {[D -> Nat] : D \in SUBSET STRING}
    BY <2>1
  <2>3. newUsageAccumulator = [byID |-> f, fallback |-> 0, seen |-> FALSE]
    BY DEF newUsageAccumulator, f
  <2> QED BY <2>2, <2>3 DEF Usages
<1>5. NoAcc \in Passes
  <2>1. <<>> \in Seq(Events) /\ <<>> \in Seq(STRING)
    OBVIOUS
  <2> QED BY <1>3, <1>4, <2>1 DEF NoAcc, Passes
<1>6. PassTypes
  BY <1>1, <1>5 DEF PassTypes
<1>7. /\ acc.events = <<>> /\ acc.cmds = <<>> /\ acc.conf = newTranscriptConformanceState /\ acc.use = newUsageAccumulator
      /\ ~acc.json /\ ~acc.known /\ acc.bad = {} /\ acc.startup = 0
  BY <1>1 DEF NoAcc
<1>8. DOMAIN L = {} /\ Reports(L) = {}
  BY <1>2 DEF Spoken, Reports
<1> HIDE DEF L
<1>9. EventsIn(scen.fmt, L, acc.events)
  <2> DEFINE at == [k \in 1..0 |-> k]
  <2>1. Len(acc.events) = 0 /\ 1..0 = {}
    BY <1>7
  <2>2. at \in [1..Len(acc.events) -> DOMAIN L]
    BY <2>1
  <2> HIDE DEF at
  <2> QED BY <1>8, <2>1, <2>2 DEF EventsIn
<1>14. CommandsIn(scen.fmt, L, acc.cmds)
  <2>1. PlacesIn(scen.fmt, L) = {}
    BY <1>8 DEF PlacesIn
  <2>2. Len(acc.cmds) = 0 /\ Said(acc.cmds) = {}
    <3>1. Len(acc.cmds) = 0 /\ 1..0 = {}
      BY <1>7
    <3> QED BY <3>1 DEF Said
  <2> QED BY <1>8, <2>1, <2>2, FS_EmptySet DEF CommandsIn
<1>10. SessionIn(scen.fmt, L, acc.conf) /\ CallsIn(L, acc.conf)
  <2> DEFINE s == newTranscriptConformanceState
  <2>1. /\ ~s.start /\ s.turns = -1 /\ ~s.done /\ s.sid = "" /\ ~s.mixed /\ s.uuids = {} /\ ~s.dup
        /\ s.uses = {} /\ s.results = {} /\ ~s.early
    BY DEF newTranscriptConformanceState
  <2>2. acc.conf = s
    BY <1>7
  <2> HIDE DEF s
  <2>3. TurnsIn(scen.fmt, L, s.turns)
    <3>1. s.turns = -1
      BY <2>1
    <3>2. ~(s.turns >= 0)
      BY ONLY <3>1
    <3> QED BY <1>8, <3>2 DEF TurnsIn
  <2> QED BY <1>8, <2>1, <2>2, <2>3 DEF SessionIn, CallsIn
<1>11. FormatOf
  <2>1. 1..Len(hist) = {}
    BY <1>2
  <2>2. ~Broken(hist) /\ ~Foreign(scen.fmt, hist)
    BY <2>1 DEF Broken, Foreign
  <2> QED BY <1>2, <1>7, <2>2 DEF FormatOf
<1>12. UsageIn(L, acc.use)
  <2>1. acc.use.byID = [k \in {} |-> 0] /\ acc.use.fallback = 0
    BY <1>7 DEF newUsageAccumulator
  <2>2. DOMAIN acc.use.byID = {}
    BY <2>1
  <2> QED BY <1>8, <2>1, <2>2, FS_EmptySet DEF UsageIn
<1>13. VerdictOf
  BY <1>1 DEF VerdictOf
<1> QED BY <1>6, <1>9, <1>10, <1>11, <1>12, <1>13, <1>14 DEF PassInv, L

(* One more line.                                                          *)
Grows(L, M, n, l) ==
  /\ n \in Nat /\ DOMAIN M = DOMAIN L \cup {n} /\ M[n] = l
  /\ \A i \in DOMAIN L : i \in Nat /\ i < n /\ M[i] = L[i]

(* ReadLine appends the line it read.                                      *)
LEMMA Grown ==
  ASSUME PassTypes, NEW l \in scen.lines, hist' = Append(hist, l), UNCHANGED scen
  PROVE  /\ l \in Lines /\ Len(hist) \in Nat /\ Len(hist') = Len(hist) + 1 /\ hist'[Len(hist) + 1] = l
         /\ \A i \in 1..Len(hist) : hist'[i] = hist[i] /\ hist[i] \in Lines
         /\ JSONAt \subseteq 1..Len(hist)
         /\ JSONAt' = IF l.json THEN JSONAt \cup {Len(hist) + 1} ELSE JSONAt
         /\ hist' \in Seq(scen'.lines)
         /\ IF l.json THEN Grows(Spoken, Spoken', Len(hist) + 1, l) ELSE Spoken' = Spoken
<1>1. scen.lines \subseteq Lines /\ hist \in Seq(scen.lines)
  BY TranscriptAssumption DEF PassTypes
<1> DEFINE N == Len(hist)
<1>2. l \in Lines /\ N \in Nat /\ Len(hist') = N + 1 /\ hist'[N + 1] = l /\ hist' \in Seq(scen'.lines)
  BY <1>1
<1>3. \A i \in 1..N : hist'[i] = hist[i] /\ hist[i] \in Lines
  BY <1>1
<1>4. 1..Len(hist') = (1..N) \cup {N + 1} /\ N + 1 \notin 1..N
  BY <1>2
<1>5. JSONAt = {i \in 1..N : hist[i].json} /\ JSONAt' = {i \in 1..Len(hist') : hist'[i].json}
  BY DEF JSONAt
<1> HIDE DEF N
<1>6. JSONAt \subseteq 1..N
  BY <1>5
<1>7. JSONAt' = IF l.json THEN JSONAt \cup {N + 1} ELSE JSONAt
  BY <1>2, <1>3, <1>4, <1>5
<1>8. l.json => Grows(Spoken, Spoken', N + 1, l)
  <2> SUFFICES ASSUME l.json PROVE Grows(Spoken, Spoken', N + 1, l)
    OBVIOUS
  <2>1. Spoken = [i \in JSONAt |-> hist[i]] /\ Spoken' = [i \in JSONAt' |-> hist'[i]]
    BY DEF Spoken
  <2>2. JSONAt' = JSONAt \cup {N + 1}
    BY <1>7
  <2>3. DOMAIN Spoken = JSONAt /\ DOMAIN Spoken' = JSONAt \cup {N + 1} /\ Spoken'[N + 1] = l
    BY <1>2, <2>1, <2>2
  <2>4. \A i \in JSONAt : i \in Nat /\ i < N + 1 /\ Spoken'[i] = Spoken[i]
    BY <1>2, <1>3, <1>6, <2>1, <2>2
  <2> QED BY <1>2, <2>3, <2>4 DEF Grows
<1>9. ~l.json => Spoken' = Spoken
  BY <1>3, <1>6, <1>7 DEF Spoken
<1> QED BY <1>2, <1>3, <1>6, <1>7, <1>8, <1>9 DEF N

(* A line more that is not JSON is a startup line if none was JSON.        *)
LEMMA ForeignGrows ==
  ASSUME NEW fmt, NEW h, NEW g, NEW l, Len(h) \in Nat, Len(g) = Len(h) + 1, g[Len(h) + 1] = l, ~l.json,
         \A i \in 1..Len(h) : g[i] = h[i]
  PROVE  Foreign(fmt, g) <=> Foreign(fmt, h)
           \/ (~(\E i \in 1..Len(h) : h[i].json) /\ (Len(h) + 1 > MaxStartupLines \/ ~allowedStartupNotice(fmt, l)))
<1> DEFINE N == Len(h)
           G(j) == (\A i \in 1..j : ~g[i].json) /\ (j > MaxStartupLines \/ ~allowedStartupNotice(fmt, g[j]))
           H(j) == (\A i \in 1..j : ~h[i].json) /\ (j > MaxStartupLines \/ ~allowedStartupNotice(fmt, h[j]))
<1>1. N \in Nat /\ g[N + 1] = l /\ (\A i \in 1..N : g[i] = h[i]) /\ Len(g) = N + 1
  OBVIOUS
<1>2. Foreign(fmt, g) <=> \E j \in 1..(N + 1) : G(j)
  BY DEF Foreign
<1>3. Foreign(fmt, h) <=> \E j \in 1..N : H(j)
  BY DEF Foreign
<1> HIDE DEF N
<1>4. \A i : i \in 1..(N + 1) <=> i \in 1..N \/ i = N + 1
  BY <1>1
<1>5. \A j \in 1..N : \A i \in 1..j : i \in 1..N
  BY <1>1
<1>6. \A j \in 1..N : G(j) <=> H(j)
  BY <1>1, <1>5
<1>7. G(N + 1) <=> (\A i \in 1..N : ~h[i].json) /\ (N + 1 > MaxStartupLines \/ ~allowedStartupNotice(fmt, l))
  BY <1>1, <1>4
<1> HIDE DEF G, H
<1>8. Foreign(fmt, g) <=> (\E j \in 1..N : G(j)) \/ G(N + 1)
  BY <1>2, <1>4
<1>9. Foreign(fmt, g) <=> Foreign(fmt, h)
        \/ (~(\E i \in 1..N : h[i].json) /\ (N + 1 > MaxStartupLines \/ ~allowedStartupNotice(fmt, l)))
  BY <1>3, <1>6, <1>7, <1>8
<1> QED BY <1>9 DEF N

(* A line more that is JSON is neither.                                    *)
LEMMA NothingWorse ==
  ASSUME NEW fmt, NEW h, NEW g, NEW l, Len(h) \in Nat, Len(g) = Len(h) + 1, g[Len(h) + 1] = l, l.json,
         \A i \in 1..Len(h) : g[i] = h[i]
  PROVE  (Foreign(fmt, g) <=> Foreign(fmt, h)) /\ (Broken(g) <=> Broken(h))
<1> DEFINE N == Len(h)
           G(j) == (\A i \in 1..j : ~g[i].json) /\ (j > MaxStartupLines \/ ~allowedStartupNotice(fmt, g[j]))
           H(j) == (\A i \in 1..j : ~h[i].json) /\ (j > MaxStartupLines \/ ~allowedStartupNotice(fmt, h[j]))
<1>1. N \in Nat /\ g[N + 1] = l /\ (\A i \in 1..N : g[i] = h[i]) /\ Len(g) = N + 1
  OBVIOUS
<1>2. Foreign(fmt, g) <=> \E j \in 1..(N + 1) : G(j)
  BY DEF Foreign
<1>3. Foreign(fmt, h) <=> \E j \in 1..N : H(j)
  BY DEF Foreign
<1>4. Broken(g) <=> \E i, j \in 1..(N + 1) : g[i].json /\ i < j /\ ~g[j].json
  BY DEF Broken
<1>5. Broken(h) <=> \E i, j \in 1..N : h[i].json /\ i < j /\ ~h[j].json
  BY DEF Broken
<1> HIDE DEF N
<1>6. \A i : i \in 1..(N + 1) <=> i \in 1..N \/ i = N + 1
  BY <1>1
<1>7. \A j \in 1..N : \A i \in 1..j : i \in 1..N
  BY <1>1
<1>8. \A j \in 1..N : G(j) <=> H(j)
  BY <1>1, <1>7
<1>9. N + 1 \in 1..(N + 1)
  BY <1>1
<1>10. ~G(N + 1)
  BY <1>1, <1>9
<1> HIDE DEF G, H
<1>11. Foreign(fmt, g) <=> Foreign(fmt, h)
  BY <1>2, <1>3, <1>6, <1>8, <1>10
<1>12. \A i \in 1..N : ~(N + 1 < i) /\ i # N + 1
  BY <1>1
<1>13. Broken(g) <=> Broken(h)
  BY <1>1, <1>4, <1>5, <1>6, <1>12
<1> QED BY <1>11, <1>13

(* A line that is not JSON leaves all but the format checks alone.         *)
LEMMA NotJSONLineIs ==
  ASSUME PassTypes, FormatOf, NEW l \in scen.lines, hist' = Append(hist, l), UNCHANGED scen, ~l.json, acc' = NotJSON(l)
  PROVE  /\ acc' \in Passes /\ acc'.events = acc.events /\ acc'.conf = acc.conf /\ acc'.use = acc.use /\ acc'.cmds = acc.cmds
         /\ FormatOf'
<1> DEFINE startup == IF acc.json THEN acc.startup ELSE acc.startup + 1
           more == IF acc.json THEN {"malformed"}
                   ELSE IF acc.startup + 1 > MaxStartupLines \/ ~allowedStartupNotice(scen.fmt, l) THEN {"startup"} ELSE {}
<1>1. acc' = [acc EXCEPT !.startup = startup, !.bad = @ \cup more]
  BY DEF NotJSON
<1>2. startup \in Nat /\ more \subseteq {"malformed", "startup"} /\ acc \in Passes
  BY DEF Passes, PassTypes
<1> HIDE DEF startup, more
<1>4. /\ acc' \in Passes /\ acc'.events = acc.events /\ acc'.conf = acc.conf /\ acc'.use = acc.use /\ acc'.cmds = acc.cmds
      /\ acc'.json = acc.json /\ acc'.known = acc.known /\ acc'.bad = acc.bad \cup more /\ acc'.startup = startup
  BY <1>1, <1>2 DEF Passes
<1> DEFINE N == Len(hist)
<1>5. N \in Nat /\ Len(hist') = N + 1 /\ hist'[N + 1] = l /\ (\A i \in 1..N : hist'[i] = hist[i]) /\ JSONAt \subseteq 1..N /\ JSONAt' = JSONAt
  BY Grown
<1>6. acc.json <=> \E i \in 1..N : hist[i].json
  BY DEF FormatOf, JSONAt
<1>7. ~acc.json => acc.startup = N
  BY DEF FormatOf
<1> HIDE DEF N
<1>8. acc'.known <=> \E i \in JSONAt' : recognizedTranscriptEvent(scen.fmt, hist'[i])
  BY <1>4, <1>5 DEF FormatOf
<1>9. Broken(hist') <=> Broken(hist) \/ \E i \in 1..N : hist[i].json
  <2>1. Broken(hist') <=> \E i, j \in 1..(N + 1) : hist'[i].json /\ i < j /\ ~hist'[j].json
    BY <1>5 DEF Broken
  <2>2. Broken(hist) <=> \E i, j \in 1..N : hist[i].json /\ i < j /\ ~hist[j].json
    BY DEF Broken, N
  <2>3. \A i : i \in 1..(N + 1) <=> i \in 1..N \/ i = N + 1
    BY <1>5
  <2>4. \A i \in 1..N : i < N + 1 /\ ~(N + 1 < i) /\ i # N + 1
    BY <1>5
  <2>5. ~(N + 1 < N + 1)
    BY <1>5
  <2> QED BY <1>5, <2>1, <2>2, <2>3, <2>4, <2>5
<1>10. Foreign(scen.fmt, hist') <=>
         Foreign(scen.fmt, hist)
         \/ (~(\E i \in 1..N : hist[i].json) /\ (N + 1 > MaxStartupLines \/ ~allowedStartupNotice(scen.fmt, l)))
  BY <1>5, ForeignGrows DEF N
<1>11. more = IF acc.json THEN {"malformed"}
              ELSE IF N + 1 > MaxStartupLines \/ ~allowedStartupNotice(scen.fmt, l) THEN {"startup"} ELSE {}
  BY <1>7 DEF more
<1>12. "malformed" \in more <=> acc.json
  BY <1>11
<1>13. "startup" \in more <=> ~acc.json /\ (N + 1 > MaxStartupLines \/ ~allowedStartupNotice(scen.fmt, l))
  BY <1>11
<1>14. ~acc'.json => acc'.startup = N + 1
  BY <1>4, <1>7 DEF startup
<1>15. "malformed" \in acc'.bad <=> Broken(hist')
  BY <1>4, <1>6, <1>9, <1>12 DEF FormatOf
<1>16. "startup" \in acc'.bad <=> Foreign(scen.fmt, hist')
  BY <1>4, <1>6, <1>10, <1>13 DEF FormatOf
<1>17. acc'.json <=> JSONAt' # {}
  BY <1>4, <1>5 DEF FormatOf
<1>18. FormatOf'
  BY <1>5, <1>8, <1>14, <1>15, <1>16, <1>17 DEF FormatOf
<1> QED BY <1>4, <1>18

(* The events of one more line come after those of the others.             *)
LEMMA EventsGrow ==
  ASSUME NEW fmt, NEW L, NEW M, NEW n, NEW l \in Lines, Grows(L, M, n, l), NEW a \in Passes, NEW b \in Passes,
         EventsIn(fmt, L, a.events), EventsRead(fmt, a, b, l.nodes, Len(l.nodes))
  PROVE  EventsIn(fmt, M, b.events)
<1> DEFINE A == Len(a.events)
           B == Len(b.events)
           ev(i, m) == transcriptEvent(fmt, M[i].nodes[m])
<1>1. A \in Nat /\ B \in Nat /\ A <= B
  BY DEF Passes, EventsRead
<1>2. PICK at \in [1..A -> DOMAIN L] :
        /\ \A j, k \in 1..A : j <= k => at[j] <= at[k]
        /\ \A k \in 1..A : \E m \in 1..Len(L[at[k]].nodes) : transcriptEvent(fmt, L[at[k]].nodes[m]) = <<a.events[k]>>
        /\ \A i \in DOMAIN L : \A m \in 1..Len(L[i].nodes) :
             \/ transcriptEvent(fmt, L[i].nodes[m]) = <<>>
             \/ \E k \in 1..A : at[k] = i /\ transcriptEvent(fmt, L[i].nodes[m]) = <<a.events[k]>>
  BY DEF EventsIn
<1>3. n \in Nat /\ DOMAIN M = DOMAIN L \cup {n} /\ M[n] = l /\ \A i \in DOMAIN L : i \in Nat /\ i < n /\ M[i] = L[i]
  BY DEF Grows
<1>4. \A k \in 1..A : b.events[k] = a.events[k]
  BY DEF EventsRead
<1>5. \A k \in 1..B : k > A => \E m \in 1..Len(M[n].nodes) : ev(n, m) = <<b.events[k]>>
  BY <1>3 DEF EventsRead
<1>6. \A m \in 1..Len(M[n].nodes) : ev(n, m) = <<>> \/ \E k \in 1..B : k > A /\ ev(n, m) = <<b.events[k]>>
  BY <1>3 DEF EventsRead
<1>7. \A k \in 1..A : \E m \in 1..Len(M[at[k]].nodes) : ev(at[k], m) = <<b.events[k]>>
  <2> SUFFICES ASSUME NEW k \in 1..A PROVE \E m \in 1..Len(M[at[k]].nodes) : ev(at[k], m) = <<b.events[k]>>
    OBVIOUS
  <2>1. PICK m \in 1..Len(L[at[k]].nodes) : transcriptEvent(fmt, L[at[k]].nodes[m]) = <<a.events[k]>>
    BY <1>2
  <2>2. M[at[k]] = L[at[k]]
    BY <1>2, <1>3
  <2>3. m \in 1..Len(M[at[k]].nodes) /\ ev(at[k], m) = <<b.events[k]>>
    BY <1>4, <2>1, <2>2
  <2> QED BY <2>3
<1>8. \A i \in DOMAIN L : \A m \in 1..Len(M[i].nodes) : ev(i, m) = <<>> \/ \E k \in 1..A : at[k] = i /\ ev(i, m) = <<b.events[k]>>
  BY <1>2, <1>3, <1>4
<1> DEFINE to == [k \in 1..B |-> IF k <= A THEN at[k] ELSE n]
<1> HIDE DEF A, B, ev
<1>9. /\ \A k \in 1..A : k \in 1..B /\ to[k] = at[k] /\ at[k] \in DOMAIN L
      /\ \A k \in 1..B : k \in 1..A \/ (k > A /\ to[k] = n)
  BY <1>1
<1>10. to \in [1..B -> DOMAIN M]
  BY <1>1, <1>3
<1> HIDE DEF to
<1>11. \A j, k \in 1..B : j <= k => to[j] <= to[k]
  <2> SUFFICES ASSUME NEW j \in 1..B, NEW k \in 1..B, j <= k PROVE to[j] <= to[k]
    OBVIOUS
  <2>1. CASE k \in 1..A
    <3>1. j \in 1..A
      BY <1>1, <2>1
    <3> QED BY <1>2, <1>9, <2>1, <3>1
  <2>2. CASE k > A /\ to[k] = n
    <3>1. CASE j \in 1..A
      BY <1>3, <1>9, <2>2, <3>1
    <3>2. CASE to[j] = n
      BY <1>3, <2>2, <3>2
    <3> QED BY <1>9, <3>1, <3>2
  <2> QED BY <1>9, <2>1, <2>2
<1>12. \A k \in 1..B : \E m \in 1..Len(M[to[k]].nodes) : ev(to[k], m) = <<b.events[k]>>
  BY <1>5, <1>7, <1>9
<1>13. \A i \in DOMAIN M : \A m \in 1..Len(M[i].nodes) : ev(i, m) = <<>> \/ \E k \in 1..B : to[k] = i /\ ev(i, m) = <<b.events[k]>>
  <2> SUFFICES ASSUME NEW i \in DOMAIN M, NEW m \in 1..Len(M[i].nodes), ev(i, m) # <<>>
               PROVE  \E k \in 1..B : to[k] = i /\ ev(i, m) = <<b.events[k]>>
    OBVIOUS
  <2>1. CASE i = n
    <3>1. PICK k \in 1..B : k > A /\ ev(n, m) = <<b.events[k]>>
      BY <1>6, <2>1
    <3>2. to[k] = n
      BY <1>1, <1>9, <3>1
    <3> QED BY <2>1, <3>1, <3>2
  <2>2. CASE i \in DOMAIN L
    BY <1>8, <1>9, <2>2
  <2> QED BY <1>3, <2>1, <2>2
<1> QED BY <1>10, <1>11, <1>12, <1>13 DEF EventsIn, B, ev

(* The commands of one more line.                                          *)
LEMMA CommandsGrow ==
  ASSUME NEW fmt, NEW L, NEW M, NEW n, NEW l \in Lines, Grows(L, M, n, l), NEW a \in Passes, NEW b \in Passes,
         CommandsIn(fmt, L, a.cmds), CommandsRead(fmt, a, b, l.nodes, Len(l.nodes))
  PROVE  CommandsIn(fmt, M, b.cmds)
<1> DEFINE C(i) == CommandsUpTo(fmt, M[i].nodes, Len(M[i].nodes))
           P == PlacesIn(fmt, L)
           Q == PlacesIn(fmt, M)
           R == {n} \X C(n)
<1>1. n \in Nat /\ DOMAIN M = DOMAIN L \cup {n} /\ M[n] = l /\ \A i \in DOMAIN L : i \in Nat /\ i < n /\ M[i] = L[i]
  BY DEF Grows
<1>2. P = UNION {{i} \X C(i) : i \in DOMAIN L}
  <2>1. \A i \in DOMAIN L : CommandsUpTo(fmt, L[i].nodes, Len(L[i].nodes)) = C(i)
    BY <1>1
  <2> HIDE DEF C
  <2> QED BY <2>1 DEF PlacesIn
<1>3. Q = UNION {{i} \X C(i) : i \in DOMAIN M}
  BY DEF PlacesIn
<1>4. /\ IsFiniteSet(P) /\ Len(a.cmds) = Cardinality(P)
      /\ \A c : c \in Said(a.cmds) <=> \E i \in DOMAIN L : \E m \in C(i) : transcriptCommand(fmt, M[i].nodes[m]) = c
  <2>1. \A i \in DOMAIN L : M[i] = L[i]
    BY <1>1
  <2> QED BY <2>1 DEF CommandsIn
<1>5. /\ IsFiniteSet(C(n)) /\ Len(b.cmds) = Len(a.cmds) + Cardinality(C(n))
      /\ \A c : c \in Said(b.cmds) <=> c \in Said(a.cmds) \/ \E m \in C(n) : transcriptCommand(fmt, M[n].nodes[m]) = c
  BY <1>1 DEF CommandsRead
<1> HIDE DEF C, P, Q
<1>6. Q = P \cup R
  BY <1>1, <1>2, <1>3
<1>7. P \cap R = {}
  <2>1. n \notin DOMAIN L
    <3>1. ~(n < n)
      BY <1>1
    <3> QED BY <1>1, <3>1
  <2>2. \A x : x \in P => \E i \in DOMAIN L : \E m \in C(i) : x = <<i, m>>
    BY <1>2
  <2>3. \A x : x \in R => \E m \in C(n) : x = <<n, m>>
    OBVIOUS
  <2> QED BY <2>1, <2>2, <2>3
<1>8. IsFiniteSet(R) /\ Cardinality(R) = Cardinality(C(n)) /\ Cardinality(C(n)) \in Nat
  <2>1. IsFiniteSet({n}) /\ Cardinality({n}) = 1 /\ Cardinality(C(n)) \in Nat
    BY <1>5, FS_Singleton, FS_CardinalityType
  <2>2. IsFiniteSet(R) /\ Cardinality(R) = Cardinality({n}) * Cardinality(C(n))
    BY <1>5, <2>1, FS_Product
  <2> QED BY <2>1, <2>2
<1> HIDE DEF R
<1>9. IsFiniteSet(Q) /\ Cardinality(Q) = Cardinality(P) + Cardinality(C(n))
  <2>1. IsFiniteSet(Q) /\ Cardinality(Q) = Cardinality(P) + Cardinality(R) - Cardinality(P \cap R)
    BY <1>4, <1>6, <1>8, FS_Union
  <2>2. Cardinality(P \cap R) = 0
    BY <1>7, FS_EmptySet
  <2>3. Cardinality(P) \in Nat
    BY <1>4, FS_CardinalityType
  <2> QED BY <1>8, <2>1, <2>2, <2>3
<1>10. Len(b.cmds) = Cardinality(Q)
  BY <1>4, <1>5, <1>9
<1>11. \A c : c \in Said(b.cmds) <=> \E i \in DOMAIN M : \E m \in C(i) : transcriptCommand(fmt, M[i].nodes[m]) = c
  BY <1>1, <1>4, <1>5
<1> QED BY <1>9, <1>10, <1>11 DEF CommandsIn, Q, C

(* What observeLine adds to the session.                                   *)
LEMMA SessionGrows ==
  ASSUME NEW fmt, NEW L, NEW M, NEW n, NEW l \in Lines, Grows(L, M, n, l), NEW s \in Sessions, SessionIn(fmt, L, s),
         NEW t, SessionRead(fmt, observeLine(fmt, s, l), t, l.nodes, Len(l.nodes))
  PROVE  SessionIn(fmt, M, t)
<1>1. n \in Nat /\ DOMAIN M = DOMAIN L \cup {n} /\ M[n] = l /\ \A i \in DOMAIN L : i \in Nat /\ i < n /\ M[i] = L[i]
  BY DEF Grows
<1>2. l.sid \in STRING /\ l.uuid \in STRING
  BY DEF Lines
<1>3. /\ t.start = (s.start \/ transcriptIsSessionStart(fmt, l))
      /\ t.done = (s.done \/ transcriptIsCompletion(fmt, l))
      /\ t.turns = IF Tells(fmt, l) THEN l.turns ELSE s.turns
      /\ t.sid = IF s.sid = "" THEN l.sid ELSE s.sid
      /\ t.mixed = (s.mixed \/ (l.sid # "" /\ s.sid # "" /\ l.sid # s.sid))
      /\ t.dup = (s.dup \/ l.uuid \in s.uuids)
      /\ t.uuids = s.uuids \cup ({l.uuid} \ {""})
  <2> DEFINE o == observeLine(fmt, s, l)
             start == transcriptIsSessionStart(fmt, l)
             done == transcriptIsCompletion(fmt, l)
             turns == IF Tells(fmt, l) THEN l.turns ELSE s.turns
  <2>1. o = [s EXCEPT !.start = @ \/ start, !.done = @ \/ done,
                 !.turns = turns,
                 !.sid = IF @ = "" THEN l.sid ELSE @,
                 !.mixed = @ \/ (l.sid # "" /\ s.sid # "" /\ l.sid # s.sid),
                 !.dup = @ \/ l.uuid \in s.uuids,
                 !.uuids = @ \cup ({l.uuid} \ {""})]
    BY DEF observeLine, Tells
  <2> HIDE DEF o, start, turns, done
  <2>2. /\ o.start = (s.start \/ start)
        /\ o.done = (s.done \/ done)
        /\ o.turns = turns
        /\ o.sid = IF s.sid = "" THEN l.sid ELSE s.sid
        /\ o.mixed = (s.mixed \/ (l.sid # "" /\ s.sid # "" /\ l.sid # s.sid))
        /\ o.dup = (s.dup \/ l.uuid \in s.uuids)
        /\ o.uuids = s.uuids \cup ({l.uuid} \ {""})
    BY <2>1 DEF Sessions
  <2> QED BY <2>2 DEF SessionRead, o, start, turns, done
<1>4. t.done <=> \E i \in DOMAIN M : transcriptIsCompletion(fmt, M[i])
  <2>1. s.done <=> \E i \in DOMAIN L : transcriptIsCompletion(fmt, L[i])
    BY DEF SessionIn
  <2> HIDE DEF transcriptIsCompletion
  <2> QED BY <1>1, <1>3, <2>1
<1>12. t.start <=> \E i \in DOMAIN M : transcriptIsSessionStart(fmt, M[i])
  <2>1. s.start <=> \E i \in DOMAIN L : transcriptIsSessionStart(fmt, L[i])
    BY DEF SessionIn
  <2> QED BY <1>1, <1>3, <2>1
<1>13. TurnsIn(fmt, M, t.turns)
  <2>1. TurnsIn(fmt, L, s.turns) /\ s.turns \in Int /\ l.turns \in Int
    BY DEF SessionIn, Sessions, Lines
  <2>2. CASE Tells(fmt, l)
    <3>1. t.turns = l.turns /\ l.turns >= 0 /\ ~(l.turns < 0)
      <4>1. l.turns \in Int /\ l.turns >= 0
        BY <2>1, <2>2 DEF Tells
      <4>2. ~(l.turns < 0)
        BY ONLY <4>1
      <4> QED BY <1>3, <2>2, <4>1, <4>2
    <3>2. \A j \in DOMAIN M : j <= n
      BY <1>1
    <3> QED BY <1>1, <2>2, <3>1, <3>2 DEF TurnsIn
  <2>3. CASE ~Tells(fmt, l)
    <3>1. t.turns = s.turns
      BY <1>3, <2>3
    <3>2. s.turns < 0 => \A i \in DOMAIN M : ~Tells(fmt, M[i])
      BY <1>1, <2>1, <2>3 DEF TurnsIn
    <3>3. s.turns >= 0 => \E i \in DOMAIN M : Tells(fmt, M[i]) /\ M[i].turns = s.turns /\ \A j \in DOMAIN M : Tells(fmt, M[j]) => j <= i
      BY <1>1, <2>1, <2>3 DEF TurnsIn
    <3> QED BY <3>1, <3>2, <3>3 DEF TurnsIn
  <2> QED BY <2>2, <2>3
<1>5. /\ s.sid = "" => \A i \in DOMAIN L : L[i].sid = ""
      /\ s.sid # "" => \E i \in DOMAIN L : L[i].sid = s.sid
      /\ s.mixed <=> \E i \in DOMAIN L : L[i].sid # "" /\ L[i].sid # s.sid
  BY DEF SessionIn
<1>6. t.sid = "" => \A i \in DOMAIN M : M[i].sid = ""
  BY <1>1, <1>3, <1>5
<1>7. t.sid # "" => \E i \in DOMAIN M : M[i].sid = t.sid
  BY <1>1, <1>3, <1>5
<1>8. t.mixed <=> \E i \in DOMAIN M : M[i].sid # "" /\ M[i].sid # t.sid
  <2>1. CASE s.sid = ""
    <3>1. ~s.mixed /\ t.sid = l.sid
      BY <1>3, <1>5, <2>1
    <3>2. ~t.mixed
      BY <1>3, <2>1, <3>1
    <3> QED BY <1>1, <1>5, <2>1, <3>1, <3>2
  <2>2. CASE s.sid # ""
    <3>1. t.sid = s.sid /\ (t.mixed <=> s.mixed \/ (l.sid # "" /\ l.sid # s.sid))
      BY <1>3, <2>2
    <3> QED BY <1>1, <1>5, <3>1
  <2> QED BY <2>1, <2>2
<1>9. \A d : d \in s.uuids <=> d # "" /\ \E i \in DOMAIN L : L[i].uuid = d
  BY DEF SessionIn
<1>10. \A d : d \in t.uuids <=> d # "" /\ \E i \in DOMAIN M : M[i].uuid = d
  <2>1. \A d : d \in t.uuids <=> d \in s.uuids \/ (d = l.uuid /\ d # "")
    BY <1>3
  <2> QED BY <1>1, <1>9, <2>1
<1>11. t.dup <=> \E i, j \in DOMAIN M : i < j /\ M[i].uuid = M[j].uuid /\ M[i].uuid # ""
  <2>1. s.dup <=> \E i, j \in DOMAIN L : i < j /\ L[i].uuid = L[j].uuid /\ L[i].uuid # ""
    BY DEF SessionIn
  <2>2. l.uuid \in s.uuids <=> \E i \in DOMAIN L : M[i].uuid = M[n].uuid /\ M[i].uuid # ""
    <3>1. l.uuid \in s.uuids <=> l.uuid # "" /\ \E i \in DOMAIN L : L[i].uuid = l.uuid
      BY <1>9
    <3> QED BY <1>1, <3>1
  <2>3. s.dup <=> \E i, j \in DOMAIN L : i < j /\ M[i].uuid = M[j].uuid /\ M[i].uuid # ""
    BY <1>1, <2>1
  <2>4. ASSUME NEW i \in DOMAIN M, NEW j \in DOMAIN M, i < j PROVE i \in DOMAIN L /\ (j \in DOMAIN L \/ j = n)
    BY <1>1, <2>4
  <2>5. t.dup <=> s.dup \/ l.uuid \in s.uuids
    BY <1>3
  <2> QED BY <1>1, <2>2, <2>3, <2>4, <2>5
<1> QED BY <1>4, <1>6, <1>7, <1>8, <1>10, <1>11, <1>12, <1>13 DEF SessionIn

(* The calls and answers of one more line.                                 *)
LEMMA CallsGrow ==
  ASSUME NEW L, NEW M, NEW n, NEW l \in Lines, Grows(L, M, n, l), NEW s \in Sessions, CallsIn(L, s),
         NEW t, SessionRead("claude", observeLine("claude", s, l), t, l.nodes, Len(l.nodes))
  PROVE  CallsIn(M, t)
<1>1. n \in Nat /\ DOMAIN M = DOMAIN L \cup {n} /\ M[n] = l /\ \A i \in DOMAIN L : i \in Nat /\ i < n /\ M[i] = L[i]
  BY DEF Grows
<1> DEFINE o == observeLine("claude", s, l)
           U(i) == IdsIn(M[i], "use")
           R(i) == IdsIn(M[i], "result")
<1>2. o.uses = s.uses /\ o.results = s.results /\ o.early = s.early
  BY DEF observeLine, Sessions
<1> HIDE DEF o
<1>3. /\ t.uses = s.uses \cup U(n) /\ t.results = s.results \cup R(n)
      /\ Apart(M[n].nodes) => (t.early <=> s.early \/ \E d \in R(n) : d \notin s.uses)
  BY <1>1, <1>2 DEF SessionRead, IdsIn, o
<1>4. /\ \A d : d \in s.uses <=> \E i \in DOMAIN L : d \in U(i)
      /\ \A d : d \in s.results <=> \E i \in DOMAIN L : d \in R(i)
      /\ (\A i \in DOMAIN L : Apart(M[i].nodes)) =>
           (s.early <=> \E j \in DOMAIN L : \E d \in R(j) : \A i \in DOMAIN L : i < j => d \notin U(i))
  <2>1. \A i \in DOMAIN L : M[i] = L[i]
    BY <1>1
  <2>2. \A d : d \in s.uses <=> \E i \in DOMAIN L : d \in U(i)
    BY <2>1 DEF CallsIn
  <2>3. \A d : d \in s.results <=> \E i \in DOMAIN L : d \in R(i)
    BY <2>1 DEF CallsIn
  <2>4. ASSUME \A i \in DOMAIN L : Apart(M[i].nodes)
        PROVE  s.early <=> \E j \in DOMAIN L : \E d \in R(j) : \A i \in DOMAIN L : i < j => d \notin U(i)
    <3>1. s.early <=> \E j \in DOMAIN L : \E d \in IdsIn(L[j], "result") : \A i \in DOMAIN L : i < j => d \notin IdsIn(L[i], "use")
      BY <2>1, <2>4 DEF CallsIn
    <3> QED BY <2>1, <3>1
  <2> QED BY <2>2, <2>3, <2>4
<1> HIDE DEF U, R
<1>5. \A d : d \in t.uses <=> \E i \in DOMAIN M : d \in U(i)
  BY <1>1, <1>3, <1>4
<1>6. \A d : d \in t.results <=> \E i \in DOMAIN M : d \in R(i)
  BY <1>1, <1>3, <1>4
<1>7. ASSUME \A i \in DOMAIN M : Apart(M[i].nodes)
      PROVE  t.early <=> \E j \in DOMAIN M : \E d \in R(j) : \A i \in DOMAIN M : i < j => d \notin U(i)
  <2>1. t.early <=> s.early \/ \E d \in R(n) : d \notin s.uses
    BY <1>1, <1>3, <1>7
  <2>2. s.early <=> \E j \in DOMAIN L : \E d \in R(j) : \A i \in DOMAIN L : i < j => d \notin U(i)
    BY <1>1, <1>4, <1>7
  <2>3. \A d : d \notin s.uses <=> \A i \in DOMAIN L : d \notin U(i)
    BY <1>4
  <2>4. \A j \in DOMAIN L : \A d : (\A i \in DOMAIN L : i < j => d \notin U(i)) <=> (\A i \in DOMAIN M : i < j => d \notin U(i))
    <3>1. \A j \in DOMAIN L : ~(n < j)
      BY <1>1
    <3> QED BY <1>1, <3>1
  <2>5. \A d : (\A i \in DOMAIN L : d \notin U(i)) <=> (\A i \in DOMAIN M : i < n => d \notin U(i))
    <3>1. ~(n < n)
      BY <1>1
    <3> QED BY <1>1, <3>1
  <2>6. (\E d \in R(n) : d \notin s.uses) <=> \E d \in R(n) : \A i \in DOMAIN M : i < n => d \notin U(i)
    BY <2>3, <2>5
  <2>7. s.early <=> \E j \in DOMAIN L : \E d \in R(j) : \A i \in DOMAIN M : i < j => d \notin U(i)
    BY <2>2, <2>4
  <2> QED BY <1>1, <2>1, <2>6, <2>7
<1> QED BY <1>5, <1>6, <1>7 DEF CallsIn, U, R

(* The reports of one more line.                                           *)
LEMMA UsageGrows ==
  ASSUME NEW L, NEW M, NEW n, NEW l \in Lines, Grows(L, M, n, l), NEW u \in Usages, UsageIn(L, u)
  PROVE  UsageIn(M, usageWalk(u, l))
<1>1. n \in Nat /\ DOMAIN M = DOMAIN L \cup {n} /\ M[n] = l /\ \A i \in DOMAIN L : i \in Nat /\ i < n /\ M[i] = L[i]
  BY DEF Grows
<1>2. l.tokens \in Int
  BY DEF Lines
<1>9. l.tokens < 0 \/ l.tokens \in Nat
  BY ONLY <1>2
<1> DEFINE v == usageWalk(u, l)
           P == Reports(L)
           Q == Reports(M)
<1>3. Q = IF l.tokens < 0 THEN P ELSE P \cup {n}
  BY <1>1, <1>2 DEF Reports
<1>4. \A i \in P : i \in DOMAIN L /\ M[i] = L[i] /\ i < n /\ i \in Nat
  BY <1>1 DEF Reports
<1>5. /\ IsFiniteSet(DOMAIN u.byID)
      /\ \A d : d \in DOMAIN u.byID <=> d # "" /\ \E i \in P : M[i].uid = d
      /\ \A i \in P : M[i].uid # "" /\ (\A j \in P : M[j].uid = M[i].uid => j <= i) => u.byID[M[i].uid] = M[i].tokens
      /\ P # {} => u.seen
      /\ u.fallback = 0 \/ \E i \in P : M[i].uid = "" /\ M[i].tokens = u.fallback
      /\ \A i \in P : M[i].tokens \in Nat /\ (M[i].uid = "" => M[i].tokens <= u.fallback)
  <2>1. IsFiniteSet(DOMAIN u.byID) /\ (P # {} => u.seen)
    BY DEF UsageIn
  <2>2. \A d : d \in DOMAIN u.byID <=> d # "" /\ \E i \in P : M[i].uid = d
    BY <1>4 DEF UsageIn
  <2>3. \A i \in P : M[i].uid # "" /\ (\A j \in P : M[j].uid = M[i].uid => j <= i) => u.byID[M[i].uid] = M[i].tokens
    BY <1>4 DEF UsageIn
  <2>4. u.fallback = 0 \/ \E i \in P : M[i].uid = "" /\ M[i].tokens = u.fallback
    BY <1>4 DEF UsageIn
  <2>5. \A i \in P : M[i].tokens \in Nat /\ (M[i].uid = "" => M[i].tokens <= u.fallback)
    BY <1>4 DEF UsageIn
  <2> QED BY <2>1, <2>2, <2>3, <2>4, <2>5
<1> HIDE DEF P, Q
<1>6. CASE l.tokens < 0
  <2>1. v = u /\ Q = P
    BY <1>3, <1>6 DEF usageWalk
  <2>2. UsageIn(M, u)
    BY <1>5, <2>1 DEF UsageIn, Q
  <2> QED BY <2>1, <2>2
<1>7. CASE ~(l.tokens < 0) /\ l.uid # ""
  <2> DEFINE D == DOMAIN u.byID
             f == [k \in D \cup {l.uid} |-> IF k = l.uid THEN l.tokens ELSE u.byID[k]]
  <2>1. v = [u EXCEPT !.seen = TRUE, !.byID = f]
    BY <1>7 DEF usageWalk
  <2>2. /\ DOMAIN f = D \cup {l.uid} /\ f[l.uid] = l.tokens /\ \A k \in D \ {l.uid} : f[k] = u.byID[k]
        /\ Q = P \cup {n}
    BY <1>3, <1>7
  <2> HIDE DEF v, f, D
  <2>3. v.seen /\ v.byID = f /\ v.fallback = u.fallback
    BY <2>1 DEF Usages
  <2>4. IsFiniteSet(DOMAIN v.byID)
    <3>1. IsFiniteSet(D)
      BY <1>5 DEF D
    <3>2. IsFiniteSet(D \cup {l.uid})
      BY <3>1, FS_AddElement
    <3> QED BY <2>2, <2>3, <3>2
  <2>5. \A d : d \in DOMAIN v.byID <=> d # "" /\ \E i \in Q : M[i].uid = d
    <3>1. \A d : d \in DOMAIN v.byID <=> d \in D \/ d = l.uid
      BY <2>2, <2>3
    <3>2. \A d : d \in D <=> d # "" /\ \E i \in P : M[i].uid = d
      BY <1>5 DEF D
    <3>3. M[n].uid = l.uid /\ l.uid # ""
      BY <1>1, <1>7
    <3>4. \A d : (\E i \in Q : M[i].uid = d) <=> (\E i \in P : M[i].uid = d) \/ d = l.uid
      BY <2>2, <3>3
    <3> QED BY <3>1, <3>2, <3>3, <3>4
  <2>6. ASSUME NEW i \in Q, M[i].uid # "", \A j \in Q : M[j].uid = M[i].uid => j <= i PROVE v.byID[M[i].uid] = M[i].tokens
    <3>1. CASE M[i].uid = l.uid
      <4>1. n <= i
        BY <1>1, <2>2, <2>6, <3>1
      <4>2. i = n
        BY <1>1, <1>4, <2>2, <4>1
      <4> QED BY <1>1, <2>2, <2>3, <4>2
    <3>2. CASE M[i].uid # l.uid
      <4>1. i \in P /\ M[i].uid \in D
        BY <1>1, <1>5, <2>2, <2>6, <3>2 DEF D
      <4>2. u.byID[M[i].uid] = M[i].tokens
        BY <1>5, <2>2, <2>6, <4>1
      <4> QED BY <2>2, <2>3, <3>2, <4>1, <4>2
    <3> QED BY <3>1, <3>2
  <2>7. v.fallback = 0 \/ \E i \in Q : M[i].uid = "" /\ M[i].tokens = v.fallback
    BY <1>5, <2>2, <2>3
  <2>9. \A i \in Q : M[i].tokens \in Nat /\ (M[i].uid = "" => M[i].tokens <= v.fallback)
    <3>1. l.tokens \in Nat
      BY <1>7, <1>9
    <3> QED BY <1>1, <1>5, <1>7, <2>2, <2>3, <3>1
  <2>8. UsageIn(M, v)
    BY <2>3, <2>4, <2>5, <2>6, <2>7, <2>9 DEF UsageIn, Q
  <2> QED BY <2>8 DEF v
<1>8. CASE ~(l.tokens < 0) /\ l.uid = ""
  <2>1. v = [u EXCEPT !.seen = TRUE, !.fallback = IF l.tokens >= @ THEN l.tokens ELSE @]
    BY <1>8 DEF usageWalk
  <2>2. Q = P \cup {n}
    BY <1>3, <1>8
  <2> HIDE DEF v
  <2>3. /\ v.seen /\ v.byID = u.byID /\ (v.fallback = u.fallback \/ v.fallback = l.tokens)
        /\ v.fallback = IF l.tokens >= u.fallback THEN l.tokens ELSE u.fallback
    BY <2>1 DEF Usages
  <2>4. \A d : d \in DOMAIN v.byID <=> d # "" /\ \E i \in Q : M[i].uid = d
    BY <1>1, <1>5, <1>8, <2>2, <2>3
  <2>5. \A i \in Q : M[i].uid # "" /\ (\A j \in Q : M[j].uid = M[i].uid => j <= i) => v.byID[M[i].uid] = M[i].tokens
    BY <1>1, <1>5, <1>8, <2>2, <2>3
  <2>6. v.fallback = 0 \/ \E i \in Q : M[i].uid = "" /\ M[i].tokens = v.fallback
    BY <1>1, <1>5, <1>8, <2>2, <2>3
  <2>8. \A i \in Q : M[i].tokens \in Nat /\ (M[i].uid = "" => M[i].tokens <= v.fallback)
    <3>1. u.fallback \in Nat /\ l.tokens \in Nat
      BY <1>8, <1>9 DEF Usages
    <3>2. u.fallback <= v.fallback /\ l.tokens <= v.fallback /\ v.fallback \in Nat
      BY <2>3, <3>1
    <3>3. ASSUME NEW i \in P PROVE M[i].tokens \in Nat /\ (M[i].uid = "" => M[i].tokens <= v.fallback)
      <4>1. M[i].tokens \in Nat /\ (M[i].uid = "" => M[i].tokens <= u.fallback)
        BY <1>5
      <4>3. M[i].tokens \in Nat
        BY <4>1
      <4>2. M[i].tokens <= u.fallback => M[i].tokens <= v.fallback
        BY ONLY <3>1, <3>2, <4>3
      <4> QED BY <4>1, <4>2
    <3> QED BY <1>1, <2>2, <3>1, <3>2, <3>3
  <2>7. UsageIn(M, v)
    BY <1>5, <2>3, <2>4, <2>5, <2>6, <2>8 DEF UsageIn, Q
  <2> QED BY <2>7 DEF v
<1> QED BY <1>6, <1>7, <1>8

(* One line read: its events, its session, its calls, its reports.         *)
LEMMA ReadLineKeeps ==
  ASSUME PassInv, ReadLine
  PROVE  PassInv'
<1>1. PICK l \in scen.lines :
        /\ hist' = Append(hist, l)
        /\ IF ~l.json THEN acc' = NotJSON(l)
           ELSE \E nodes \in {l.nodes} \cup (IF l.ordered THEN {} ELSE {Reverse(l.nodes)}) : acc' = JSONLine(l, nodes)
  BY DEF ReadLine
<1>2. ~verdict.drawn /\ scen' = scen /\ verdict' = verdict
  BY DEF ReadLine
<1>3. VerdictOf'
  BY <1>2 DEF VerdictOf
<1>4. /\ PassTypes /\ FormatOf /\ EventsIn(scen.fmt, Spoken, acc.events) /\ SessionIn(scen.fmt, Spoken, acc.conf)
      /\ CommandsIn(scen.fmt, Spoken, acc.cmds)
      /\ scen.fmt = "claude" => CallsIn(Spoken, acc.conf)
      /\ UsageIn(Spoken, acc.use) /\ acc \in Passes /\ scen \in Scenarios
  BY DEF PassInv, PassTypes
<1>5. /\ l \in Lines /\ hist' \in Seq(scen'.lines) /\ Len(hist) \in Nat
      /\ IF l.json THEN Grows(Spoken, Spoken', Len(hist) + 1, l) ELSE Spoken' = Spoken
  BY <1>1, <1>2, <1>4, Grown
<1>6. CASE ~l.json
  <2>1. acc' = NotJSON(l)
    BY <1>1, <1>6
  <2>2. acc' \in Passes /\ acc'.events = acc.events /\ acc'.conf = acc.conf /\ acc'.use = acc.use /\ FormatOf' /\ acc'.cmds = acc.cmds
    BY <1>1, <1>2, <1>4, <1>6, <2>1, NotJSONLineIs
  <2>3. PassTypes'
    BY <1>2, <1>4, <1>5, <2>2 DEF PassTypes
  <2>4. Spoken' = Spoken
    BY <1>5, <1>6
  <2> QED BY <1>2, <1>3, <1>4, <2>2, <2>3, <2>4 DEF PassInv
<1>7. CASE l.json
  <2>1. PICK nodes \in {l.nodes} \cup (IF l.ordered THEN {} ELSE {Reverse(l.nodes)}) : acc' = JSONLine(l, nodes)
    BY <1>1, <1>7
  <2> DEFINE a == Opened(l)
             n == Len(hist) + 1
  <2>2. acc' \in Passes /\ LineNodes(scen.fmt, a, acc', l)
    BY <1>4, <1>5, <2>1, JSONLineIs
  <2>3. /\ a \in Passes /\ a.json /\ a.bad = acc.bad /\ a.events = acc.events /\ a.cmds = acc.cmds
        /\ a.known <=> acc.known \/ recognizedTranscriptEvent(scen.fmt, l)
        /\ a.conf = observeLine(scen.fmt, acc.conf, l) /\ a.use = usageWalk(acc.use, l)
    BY <1>4, <1>5, OpenedIs
  <2>4. Grows(Spoken, Spoken', n, l)
    BY <1>5, <1>7
  <2> HIDE DEF a
  <2>5. PassTypes'
    BY <1>2, <1>4, <1>5, <2>2 DEF PassTypes
  <2>6. /\ acc'.json = a.json /\ acc'.known = a.known /\ acc'.bad = a.bad /\ acc'.use = a.use
        /\ EventsRead(scen.fmt, a, acc', l.nodes, Len(l.nodes))
        /\ SessionRead(scen.fmt, a.conf, acc'.conf, l.nodes, Len(l.nodes))
        /\ CommandsRead(scen.fmt, a, acc', l.nodes, Len(l.nodes))
    BY <2>2 DEF LineNodes, Untouched
  <2>7. acc.conf \in Sessions /\ acc.use \in Usages
    BY <1>4 DEF Passes
  <2>8. EventsIn(scen.fmt, Spoken', acc'.events)
    BY <1>4, <1>5, <2>2, <2>3, <2>4, <2>6, EventsGrow
  <2>13. CommandsIn(scen.fmt, Spoken', acc'.cmds)
    <3>1. CommandsIn(scen.fmt, Spoken, a.cmds)
      BY <1>4, <2>3
    <3>2. acc' \in Passes /\ a \in Passes /\ l \in Lines /\ CommandsRead(scen.fmt, a, acc', l.nodes, Len(l.nodes))
      BY <1>5, <2>2, <2>3, <2>6
    <3> QED BY <2>4, <3>1, <3>2, CommandsGrow
  <2>9. SessionIn(scen.fmt, Spoken', acc'.conf)
    BY <1>4, <1>5, <2>3, <2>4, <2>6, <2>7, SessionGrows
  <2>10. scen.fmt = "claude" => CallsIn(Spoken', acc'.conf)
    BY <1>4, <1>5, <2>3, <2>4, <2>6, <2>7, CallsGrow
  <2>11. UsageIn(Spoken', acc'.use)
    BY <1>4, <1>5, <2>3, <2>4, <2>6, <2>7, UsageGrows
  <2>12. FormatOf'
    <3>1. /\ Len(hist') = n /\ n \in Nat /\ hist'[n] = l /\ (\A i \in 1..Len(hist) : hist'[i] = hist[i])
          /\ JSONAt \subseteq 1..Len(hist) /\ JSONAt' = JSONAt \cup {n}
      BY <1>1, <1>2, <1>4, <1>7, Grown
    <3>2. acc'.json /\ JSONAt' # {}
      BY <2>3, <2>6, <3>1
    <3>3. acc'.known <=> \E i \in JSONAt' : recognizedTranscriptEvent(scen.fmt, hist'[i])
      <4>1. acc'.known <=> acc.known \/ recognizedTranscriptEvent(scen.fmt, l)
        BY <2>3, <2>6
      <4>2. acc.known <=> \E i \in JSONAt : recognizedTranscriptEvent(scen.fmt, hist[i])
        BY <1>4 DEF FormatOf
      <4> QED BY <3>1, <4>1, <4>2
    <3>4. (Foreign(scen.fmt, hist') <=> Foreign(scen.fmt, hist)) /\ (Broken(hist') <=> Broken(hist))
      BY <1>5, <1>7, <3>1, NothingWorse
    <3>5. acc'.bad = acc.bad
      BY <2>3, <2>6
    <3> QED BY <1>2, <1>4, <3>1, <3>2, <3>3, <3>4, <3>5 DEF FormatOf
  <2> QED BY <1>2, <1>3, <2>5, <2>8, <2>9, <2>10, <2>11, <2>12, <2>13 DEF PassInv
<1> QED BY <1>6, <1>7

(* The verdict changes nothing it was drawn from.                          *)
LEMMA PassStep == PassInv /\ [TranscriptNext]_tVars => PassInv'
<1> SUFFICES ASSUME PassInv, [TranscriptNext]_tVars PROVE PassInv'
  OBVIOUS
<1>1. CASE ReadLine
  BY <1>1, ReadLineKeeps
<1>2. ASSUME UNCHANGED <<scen, hist, acc>>, VerdictOf' PROVE PassInv'
  <2>1. Spoken' = Spoken
    BY <1>2 DEF Spoken, JSONAt
  <2>2. PassTypes' /\ FormatOf'
    BY <1>2 DEF PassInv, PassTypes, FormatOf, JSONAt
  <2> QED BY <1>2, <2>1, <2>2 DEF PassInv
<1>3. CASE auditTranscript
  <2>1. UNCHANGED <<scen, hist, acc>>
    BY <1>3 DEF auditTranscript
  <2>2. /\ (RuleHits \cup Advisory)' = RuleHits \cup Advisory
        /\ (acc.bad \cup FormatViolations \cup BudgetViolations \cup CommandViolations \cup Denied)' =
           acc.bad \cup FormatViolations \cup BudgetViolations \cup CommandViolations \cup Denied
    BY <2>1 DEF RuleHits, Advisory, FormatViolations, BudgetViolations, CommandViolations, Denied, scopedEvents
  <2>3. VerdictOf'
    BY <1>3, <2>1, <2>2 DEF VerdictOf, auditTranscript
  <2> QED BY <1>2, <2>1, <2>3
<1>4. CASE Unreadable
  <2>1. UNCHANGED <<scen, hist, acc>> /\ VerdictOf'
    BY <1>4 DEF Unreadable, VerdictOf
  <2> QED BY <1>2, <2>1
<1>5. CASE UNCHANGED tVars
  <2>1. UNCHANGED <<scen, hist, acc>> /\ verdict' = verdict
    BY <1>5 DEF tVars
  <2>2. /\ (RuleHits \cup Advisory)' = RuleHits \cup Advisory
        /\ (acc.bad \cup FormatViolations \cup BudgetViolations \cup CommandViolations \cup Denied)' =
           acc.bad \cup FormatViolations \cup BudgetViolations \cup CommandViolations \cup Denied
    BY <2>1 DEF RuleHits, Advisory, FormatViolations, BudgetViolations, CommandViolations, Denied, scopedEvents
  <2>3. VerdictOf'
    BY <2>1, <2>2 DEF VerdictOf, PassInv
  <2> QED BY <1>2, <2>1, <2>3
<1> QED BY <1>1, <1>3, <1>4, <1>5 DEF TranscriptNext

-----------------------------------------------------------------------------
(* The verdict                                                             *)

(* relUnderWork as scopedEvents applies it.                                *)
ScopedEvent(e) == IF e.kind \in {"read", "write"} THEN [e EXCEPT !.sub = relUnderWork(@)] ELSE e

(* relUnderWork changes the subject of reads and writes only.              *)
LEMMA ScopedEventIs ==
  ASSUME NEW e \in Events
  PROVE  ScopedEvent(e) \in Events /\ ScopedEvent(e).kind = e.kind
         /\ ScopedEvent(e).sub = IF e.kind \in {"read", "write"} THEN relUnderWork(e.sub) ELSE e.sub
<1>1. relUnderWork(e.sub) \in Texts
  BY DEF relUnderWork, Events, Texts
<1> QED BY <1>1 DEF ScopedEvent, Events

(* What a format's nodes are to a rule it can support: cause and trigger   *)
(* of the transcript are what arms and fires the rule in the event graph.  *)
LEMMA NodeIsEvent ==
  ASSUME NEW n \in Nodes, NEW r \in TemporalRules, r \notin UnenforceableRules(scen.fmt)
  PROVE  /\ Cause(r, n) <=> \E e \in Events : transcriptEvent(scen.fmt, n) = <<e>> /\ Arms(r, ScopedEvent(e), scen.scoped)
         /\ Trigger(r, n) <=> \E e \in Events : transcriptEvent(scen.fmt, n) = <<e>> /\ HitsBy(r, ScopedEvent(e))
<1>1. scen.fmt = "claude" \/ (scen.fmt = "opencode" /\ r # InjectionRule)
  <2>1. ruleRequiredKinds[r] \subseteq formatEventCoverage(scen.fmt)
    BY DEF UnenforceableRules, TemporalRules
  <2>2. CASE r = SecretRule
    <3>1. "network" \in formatEventCoverage(scen.fmt)
      BY <2>1, <2>2 DEF ruleRequiredKinds, SecretRule, ScopeRule, InjectionRule
    <3> QED BY <2>2, <3>1, RulesAre DEF formatEventCoverage
  <2>3. CASE r = ScopeRule
    <3>1. "write" \in formatEventCoverage(scen.fmt)
      BY <2>1, <2>3 DEF ruleRequiredKinds, SecretRule, ScopeRule, InjectionRule
    <3> QED BY <2>3, <3>1, RulesAre DEF formatEventCoverage
  <2>4. CASE r = InjectionRule
    <3>1. "tool_output" \in formatEventCoverage(scen.fmt)
      BY <2>1, <2>4 DEF ruleRequiredKinds, SecretRule, ScopeRule, InjectionRule
    <3> QED BY <3>1 DEF formatEventCoverage
  <2> QED BY <2>2, <2>3, <2>4, RulesAre
<1>2. n.kind \in STRING /\ n.tool \in STRING /\ n.sub \in STRING /\ (n.kind # "use" => n.tool = "")
  BY DEF Nodes
<1>3. CASE n.kind = "use"
  <2> DEFINE e == ClassifyEvent(n.tool, n.sub)
  <2>1. transcriptEvent(scen.fmt, n) = <<e>>
    BY <1>1, <1>3, ZenonT(30) DEF transcriptEvent, Formats
  <2>2. e \in Events /\ e.sub = n.sub
    BY <1>2 DEF ClassifyEvent, Events, EventKinds, NetworkCommand, Texts
  <2>3. /\ e.kind = "write" <=> n.tool = "write"
        /\ e.kind = "read" <=> n.tool = "read"
        /\ e.kind = "network" <=> n.tool = "webfetch" \/ (n.tool = "bash" /\ n.sub = "curl")
        /\ e.kind = "exec" <=> n.tool = "bash" /\ n.sub # "curl"
        /\ e.kind # "tool_output"
    BY DEF ClassifyEvent, NetworkCommand
  <2> HIDE DEF e
  <2>4. \A d : transcriptEvent(scen.fmt, n) = <<d>> <=> d = e
    BY <2>1
  <2>5. ScopedEvent(e).kind = e.kind /\ (e.kind = "read" => ScopedEvent(e).sub = relUnderWork(n.sub))
    BY <2>2, ScopedEventIs
  <2>6. Trigger(r, n) <=> HitsBy(r, ScopedEvent(e))
    BY <2>3, <2>5, RulesAre DEF Trigger, HitsBy
  <2>7. Cause(r, n) <=> Arms(r, ScopedEvent(e), scen.scoped)
    <3>1. CASE r = InjectionRule
      BY <1>3, <2>3, <2>5, <3>1, RulesAre DEF Cause, Arms
    <3>2. CASE r = SecretRule
      BY <2>3, <2>5, <3>2, RulesAre DEF Cause, Arms, SecretPaths, relUnderWork
    <3>3. CASE r = ScopeRule
      BY <2>3, <2>5, <3>3, RulesAre DEF Cause, Arms, ScopePaths, relUnderWork
    <3> QED BY <3>1, <3>2, <3>3, RulesAre
  <2> QED BY <2>2, <2>4, <2>6, <2>7
<1>4. CASE n.kind # "use"
  <2>1. ~Trigger(r, n) /\ (Cause(r, n) <=> r = InjectionRule /\ n.kind = "result" /\ n.sub = "inject")
    BY <1>2, <1>4, RulesAre DEF Trigger, Cause
  <2> DEFINE e == [kind |-> "tool_output", sub |-> n.sub]
  <2>2. e \in Events
    BY <1>2 DEF Events, EventKinds, Texts
  <2>3. CASE scen.fmt = "claude" /\ n.kind = "result" /\ n.sub # ""
    <3>1. transcriptEvent(scen.fmt, n) = <<e>>
      BY <2>3, ZenonT(30) DEF transcriptEvent, Formats
    <3>2. ScopedEvent(e) = e /\ e.kind = "tool_output" /\ e.sub = n.sub
      BY DEF ScopedEvent
    <3> HIDE DEF e
    <3>3. \A d : transcriptEvent(scen.fmt, n) = <<d>> <=> d = e
      BY <3>1
    <3>4. ~HitsBy(r, e)
      BY <3>2, RulesAre DEF HitsBy
    <3>5. Arms(r, e, scen.scoped) <=> r = InjectionRule /\ n.sub = "inject"
      BY <3>2, RulesAre DEF Arms, LooksLikeInjection
    <3> QED BY <2>1, <2>2, <2>3, <3>2, <3>3, <3>4, <3>5
  <2>4. CASE ~(scen.fmt = "claude" /\ n.kind = "result" /\ n.sub # "")
    <3>1. transcriptEvent(scen.fmt, n) = <<>>
      BY <1>4, <2>4 DEF transcriptEvent
    <3>2. \A d : transcriptEvent(scen.fmt, n) # <<d>>
      BY <3>1
    <3>3. ~Cause(r, n)
      BY <1>1, <2>1, <2>4
    <3> QED BY <2>1, <3>2, <3>3
  <2> QED BY <2>3, <2>4
<1> QED BY <1>3, <1>4

(* A rule hits an event that arms it and a later one that fires it.        *)
LEMMA HitsOfEvents ==
  ASSUME PassInv, NEW r \in TemporalRules
  PROVE  r \in RuleHits <=>
           \E i, j \in 1..Len(acc.events) :
             i < j /\ Arms(r, ScopedEvent(acc.events[i]), scen.scoped) /\ HitsBy(r, ScopedEvent(acc.events[j]))
<1> DEFINE es == acc.events
           N == Len(es)
           ss == scopedEvents
<1>1. es \in Seq(Events) /\ scen.scoped \in BOOLEAN /\ N \in Nat /\ \A k \in 1..N : es[k] \in Events
  <2>1. es \in Seq(Events)
    BY DEF PassInv, PassTypes, Passes
  <2>2. scen.scoped \in BOOLEAN
    BY TranscriptAssumption DEF PassInv, PassTypes
  <2> QED BY <2>1, <2>2
<1>2. ss \in Seq(Events) /\ Len(ss) = N /\ \A k \in 1..N : ss[k] = ScopedEvent(es[k])
  <2>1. ss = [k \in 1..N |-> ScopedEvent(es[k])]
    BY DEF scopedEvents, ScopedEvent
  <2>2. \A k \in 1..N : ScopedEvent(es[k]) \in Events
    BY <1>1, ScopedEventIs
  <2> HIDE DEF ss, N
  <2>3. ss \in [1..N -> Events]
    BY <2>1, <2>2
  <2> QED BY <1>1, <2>1, <2>3
<1> HIDE DEF ss
<1>3. RuleHits = EvaluateTemporalRules(ss, scen.scoped)
  BY DEF RuleHits, ss
<1>4. r \in EvaluateTemporalRules(ss, scen.scoped) <=>
        \E i, j \in 1..Len(ss) : i < j /\ Arms(r, ss[i], scen.scoped) /\ HitsBy(r, ss[j])
  BY <1>1, <1>2, HitsAre
<1> QED BY <1>2, <1>3, <1>4

(* One event is not none.                                                  *)
LEMMA OneIsNotNone == \A e : <<e>> # <<>>
OBVIOUS

(* No event of a format arms a rule the format cannot support.             *)
LEMMA NothingArms ==
  ASSUME NEW n \in Nodes, NEW r \in UnenforceableRules(scen.fmt), NEW e \in Events, transcriptEvent(scen.fmt, n) = <<e>>
  PROVE  ~Arms(r, ScopedEvent(e), scen.scoped)
<1>1. r \in {SecretRule, ScopeRule, InjectionRule} /\ ~(ruleRequiredKinds[r] \subseteq formatEventCoverage(scen.fmt))
  BY DEF UnenforceableRules, ruleRequiredKinds
<1>2. ScopedEvent(e).kind = e.kind
  BY ScopedEventIs
<1>3. /\ r = SecretRule => ruleRequiredKinds[r] = {"read", "network"}
      /\ r = ScopeRule => ruleRequiredKinds[r] = {"read", "write"}
      /\ r = InjectionRule => ruleRequiredKinds[r] = {"tool_output", "exec"}
  BY DEF ruleRequiredKinds, SecretRule, ScopeRule, InjectionRule
<1>4. e.kind \notin {"read", "tool_output"} => ~Arms(r, ScopedEvent(e), scen.scoped)
  BY <1>1, <1>2, RulesAre DEF Arms
<1>5. CASE scen.fmt = "claude"
  BY <1>1, <1>3, <1>5 DEF formatEventCoverage
<1>6. CASE scen.fmt = "codex"
  <2>1. transcriptEvent(scen.fmt, n) = <<>> \/ transcriptEvent(scen.fmt, n) = <<ClassifyEvent("bash", n.sub)>>
    BY <1>6, ZenonT(30) DEF transcriptEvent, Formats
  <2>2. e = ClassifyEvent("bash", n.sub)
    BY <2>1
  <2>3. e.kind \in {"network", "exec"}
    BY <2>2 DEF ClassifyEvent
  <2> QED BY <1>4, <2>3
<1>7. CASE scen.fmt = "opencode"
  <2>1. r = InjectionRule
    BY <1>1, <1>3, <1>7 DEF formatEventCoverage
  <2>2. transcriptEvent(scen.fmt, n) = <<>> \/ transcriptEvent(scen.fmt, n) = <<ClassifyEvent(n.tool, n.sub)>>
    BY <1>7, ZenonT(30) DEF transcriptEvent, Formats
  <2>3. e = ClassifyEvent(n.tool, n.sub)
    BY <2>2
  <2>4. e.kind # "tool_output"
    BY <2>3 DEF ClassifyEvent
  <2> QED BY <1>2, <2>1, <2>4, RulesAre DEF Arms
<1>8. CASE scen.fmt \notin Formats
  <2>1. transcriptEvent(scen.fmt, n) = <<>>
    BY <1>8 DEF transcriptEvent
  <2> QED BY <2>1, OneIsNotNone
<1> QED BY <1>5, <1>6, <1>7, <1>8 DEF Formats

(* So such a rule never hits.                                              *)
LEMMA SilentRules ==
  ASSUME PassInv, NEW r \in UnenforceableRules(scen.fmt) PROVE r \notin RuleHits
<1>1. r \in TemporalRules
  BY DEF UnenforceableRules, TemporalRules
<1>2. hist \in Seq(Lines) /\ EventsIn(scen.fmt, Spoken, acc.events) /\ acc.events \in Seq(Events)
  BY TranscriptAssumption DEF PassInv, PassTypes, Passes
<1>3. \A i \in JSONAt : hist[i].nodes \in Seq(Nodes)
  <2>1. \A i \in JSONAt : hist[i] \in Lines
    BY <1>2 DEF JSONAt
  <2> QED BY <2>1 DEF Lines
<1>4. \A k \in 1..Len(acc.events) :
        \E i \in JSONAt : \E m \in 1..Len(hist[i].nodes) : transcriptEvent(scen.fmt, hist[i].nodes[m]) = <<acc.events[k]>>
  <2>1. PICK at \in [1..Len(acc.events) -> DOMAIN Spoken] :
          \A k \in 1..Len(acc.events) : \E m \in 1..Len(Spoken[at[k]].nodes) : transcriptEvent(scen.fmt, Spoken[at[k]].nodes[m]) = <<acc.events[k]>>
    BY <1>2 DEF EventsIn
  <2>2. DOMAIN Spoken = JSONAt /\ \A i \in JSONAt : Spoken[i] = hist[i]
    BY DEF Spoken
  <2> QED BY <2>1, <2>2
<1>5. ASSUME NEW k \in 1..Len(acc.events) PROVE ~Arms(r, ScopedEvent(acc.events[k]), scen.scoped)
  <2>1. PICK i \in JSONAt : \E m \in 1..Len(hist[i].nodes) : transcriptEvent(scen.fmt, hist[i].nodes[m]) = <<acc.events[k]>>
    BY <1>4
  <2>2. PICK m \in 1..Len(hist[i].nodes) : transcriptEvent(scen.fmt, hist[i].nodes[m]) = <<acc.events[k]>>
    BY <2>1
  <2>3. hist[i].nodes[m] \in Nodes /\ acc.events[k] \in Events
    BY <1>2, <1>3
  <2> QED BY <2>2, <2>3, NothingArms
<1> QED BY <1>1, <1>5, HitsOfEvents

(* The hits of a rule the format supports.                                 *)
LEMMA HitsMean ==
  ASSUME PassInv, NEW r \in TemporalRules, r \notin UnenforceableRules(scen.fmt)
  PROVE  (Precedes(r, TRUE) => r \in RuleHits) /\ (r \in RuleHits => Precedes(r, FALSE))
<1> DEFINE es == acc.events
           N == Len(es)
           fmt == scen.fmt
           arms(e) == Arms(r, ScopedEvent(e), scen.scoped)
           fires(e) == HitsBy(r, ScopedEvent(e))
<1>1. es \in Seq(Events) /\ scen.scoped \in BOOLEAN /\ N \in Nat /\ \A k \in 1..N : es[k] \in Events
  <2>1. es \in Seq(Events)
    BY DEF PassInv, PassTypes, Passes
  <2>2. scen.scoped \in BOOLEAN
    BY TranscriptAssumption DEF PassInv, PassTypes
  <2> QED BY <2>1, <2>2
<1>2. DOMAIN Spoken = JSONAt /\ \A i \in JSONAt : Spoken[i] = hist[i] /\ hist[i].nodes \in Seq(Nodes) /\ i \in Nat
  <2>1. hist \in Seq(Lines)
    BY TranscriptAssumption DEF PassInv, PassTypes
  <2>2. \A i \in JSONAt : hist[i] \in Lines /\ i \in Nat
    BY <2>1 DEF JSONAt
  <2> QED BY <2>2 DEF Spoken, Lines
<1>3. PICK at \in [1..N -> JSONAt] :
        /\ \A j, k \in 1..N : j <= k => at[j] <= at[k]
        /\ \A k \in 1..N : \E m \in 1..Len(hist[at[k]].nodes) : transcriptEvent(fmt, hist[at[k]].nodes[m]) = <<es[k]>>
        /\ \A i \in JSONAt : \A m \in 1..Len(hist[i].nodes) :
             \/ transcriptEvent(fmt, hist[i].nodes[m]) = <<>>
             \/ \E k \in 1..N : at[k] = i /\ transcriptEvent(fmt, hist[i].nodes[m]) = <<es[k]>>
  <2>1. EventsIn(fmt, Spoken, es)
    BY DEF PassInv
  <2>2. PICK at \in [1..N -> JSONAt] :
          /\ \A j, k \in 1..N : j <= k => at[j] <= at[k]
          /\ \A k \in 1..N : \E m \in 1..Len(Spoken[at[k]].nodes) : transcriptEvent(fmt, Spoken[at[k]].nodes[m]) = <<es[k]>>
          /\ \A i \in JSONAt : \A m \in 1..Len(Spoken[i].nodes) :
               \/ transcriptEvent(fmt, Spoken[i].nodes[m]) = <<>>
               \/ \E k \in 1..N : at[k] = i /\ transcriptEvent(fmt, Spoken[i].nodes[m]) = <<es[k]>>
    BY <1>2, <2>1 DEF EventsIn
  <2>3. \A k \in 1..N : Spoken[at[k]] = hist[at[k]]
    BY <1>2
  <2>4. \A k \in 1..N : \E m \in 1..Len(hist[at[k]].nodes) : transcriptEvent(fmt, hist[at[k]].nodes[m]) = <<es[k]>>
    BY <2>2, <2>3
  <2>5. \A i \in JSONAt : \A m \in 1..Len(hist[i].nodes) :
             \/ transcriptEvent(fmt, hist[i].nodes[m]) = <<>>
             \/ \E k \in 1..N : at[k] = i /\ transcriptEvent(fmt, hist[i].nodes[m]) = <<es[k]>>
    <3> HIDE DEF es, N, fmt
    <3> SUFFICES ASSUME NEW i \in JSONAt
                 PROVE  \A m \in 1..Len(hist[i].nodes) :
                          \/ transcriptEvent(fmt, hist[i].nodes[m]) = <<>>
                          \/ \E k \in 1..N : at[k] = i /\ transcriptEvent(fmt, hist[i].nodes[m]) = <<es[k]>>
      OBVIOUS
    <3>1. \A m \in 1..Len(Spoken[i].nodes) :
            \/ transcriptEvent(fmt, Spoken[i].nodes[m]) = <<>>
            \/ \E k \in 1..N : at[k] = i /\ transcriptEvent(fmt, Spoken[i].nodes[m]) = <<es[k]>>
      BY <2>2
    <3>2. Spoken[i] = hist[i]
      BY <1>2
    <3> QED BY <3>1, <3>2
  <2> QED BY <2>2, <2>4, <2>5
<1>4. r \in RuleHits <=> \E i, j \in 1..N : i < j /\ arms(es[i]) /\ fires(es[j])
  BY HitsOfEvents
<1>5. \A i \in JSONAt : \A m \in 1..Len(hist[i].nodes) : hist[i].nodes[m] \in Nodes
  BY <1>2
<1>6. ASSUME NEW i \in JSONAt, NEW m \in 1..Len(hist[i].nodes), NEW e \in Events, transcriptEvent(fmt, hist[i].nodes[m]) = <<e>>
      PROVE  \E k \in 1..N : at[k] = i /\ es[k] = e
  <2>0. transcriptEvent(fmt, hist[i].nodes[m]) # <<>>
    BY <1>6
  <2>1. PICK k \in 1..N : at[k] = i /\ transcriptEvent(fmt, hist[i].nodes[m]) = <<es[k]>>
    <3> HIDE DEF N, es, fmt
    <3>1. \A c \in JSONAt : \A d \in 1..Len(hist[c].nodes) :
            \/ transcriptEvent(fmt, hist[c].nodes[d]) = <<>>
            \/ \E k \in 1..N : at[k] = c /\ transcriptEvent(fmt, hist[c].nodes[d]) = <<es[k]>>
      BY <1>3
    <3> QED BY <2>0, <3>1, <1>6
  <2>2. es[k] = e
    BY <1>6, <2>1
  <2> QED BY <2>1, <2>2
<1>7. ASSUME Precedes(r, TRUE) PROVE r \in RuleHits
  <2>1. PICK i \in JSONAt, j \in JSONAt :
          /\ i < j
          /\ \E p \in 1..Len(hist[i].nodes) : Cause(r, hist[i].nodes[p])
          /\ \E q \in 1..Len(hist[j].nodes) : Trigger(r, hist[j].nodes[q])
    BY <1>7 DEF Precedes
  <2>2. PICK p \in 1..Len(hist[i].nodes) : Cause(r, hist[i].nodes[p])
    BY <2>1
  <2>3. PICK q \in 1..Len(hist[j].nodes) : Trigger(r, hist[j].nodes[q])
    BY <2>1
  <2>4. PICK e \in Events : transcriptEvent(fmt, hist[i].nodes[p]) = <<e>> /\ arms(e)
    BY <1>5, <2>2, NodeIsEvent
  <2>5. PICK f \in Events : transcriptEvent(fmt, hist[j].nodes[q]) = <<f>> /\ fires(f)
    BY <1>5, <2>3, NodeIsEvent
  <2> HIDE DEF arms, fires, N, es, fmt
  <2>6. PICK k \in 1..N : at[k] = i /\ es[k] = e
    BY <1>6, <2>4
  <2>7. PICK h \in 1..N : at[h] = j /\ es[h] = f
    BY <1>6, <2>5
  <2>8. k < h
    <3>1. ~(at[h] <= at[k])
      BY <1>2, <2>1, <2>6, <2>7
    <3>2. ~(h <= k)
      BY <1>3, <3>1
    <3>3. h \in Nat /\ k \in Nat
      BY <1>1
    <3> QED BY <3>2, <3>3
  <2> QED BY <1>4, <2>4, <2>5, <2>6, <2>7, <2>8
<1>8. ASSUME r \in RuleHits PROVE Precedes(r, FALSE)
  <2>1. PICK k \in 1..N, h \in 1..N : k < h /\ arms(es[k]) /\ fires(es[h])
    BY <1>4, <1>8
  <2>2. PICK p \in 1..Len(hist[at[k]].nodes) : transcriptEvent(fmt, hist[at[k]].nodes[p]) = <<es[k]>>
    BY <1>3
  <2>3. PICK q \in 1..Len(hist[at[h]].nodes) : transcriptEvent(fmt, hist[at[h]].nodes[q]) = <<es[h]>>
    BY <1>3
  <2>4. at[k] \in JSONAt /\ at[h] \in JSONAt /\ es[k] \in Events /\ es[h] \in Events
    BY <1>1, <1>3
  <2>5. Cause(r, hist[at[k]].nodes[p])
    BY <1>5, <2>1, <2>2, <2>4, NodeIsEvent
  <2>6. Trigger(r, hist[at[h]].nodes[q])
    BY <1>5, <2>1, <2>3, <2>4, NodeIsEvent
  <2>7. at[k] <= at[h]
    <3>1. k <= h
      BY <1>1, <2>1
    <3> QED BY <1>3, <3>1
  <2>8. at[k] < at[h] \/ at[k] = at[h]
    BY <1>2, <2>4, <2>7
  <2> HIDE DEF arms, fires, N, es, fmt
  <2> QED BY <2>4, <2>5, <2>6, <2>8 DEF Precedes
<1> QED BY <1>7, <1>8

(* Which lists the verdict's two sets are made of.                         *)
LEMMA VerdictSets ==
  ASSUME PassInv
  PROVE  /\ RuleHits \subseteq TemporalRules /\ UnenforceableRules(scen.fmt) \subseteq TemporalRules
         /\ acc.bad \subseteq {"malformed", "startup"} /\ FormatViolations \subseteq {"no-events", "unrecognized"}
         /\ CommandViolations \subseteq {"destructive", "outside", "forbidden"}
         /\ BudgetViolations \subseteq {"max_tokens", "max_commands"}
         /\ conformanceViolations(scen.fmt, acc.conf) \subseteq ConformanceRules
         /\ scen.maxTokens \in Int /\ scen.scoped \in BOOLEAN /\ scen.block \in BOOLEAN
<1>7. BudgetViolations \subseteq {"max_tokens", "max_commands"}
  BY DEF BudgetViolations
<1>8. conformanceViolations(scen.fmt, acc.conf) \subseteq ConformanceRules
  BY DEF conformanceViolations, ConformanceRules
<1>1. UnenforceableRules(scen.fmt) \subseteq TemporalRules
  BY DEF UnenforceableRules, TemporalRules
<1>2. scen.maxTokens \in Int /\ scen.scoped \in BOOLEAN /\ scen.block \in BOOLEAN
  BY TranscriptAssumption DEF PassInv, PassTypes
<1>3. RuleHits \subseteq TemporalRules
  <2> DEFINE ss == scopedEvents
  <2>1. acc.events \in Seq(Events)
    BY DEF PassInv, PassTypes, Passes
  <2>2. ss = [k \in 1..Len(acc.events) |-> ScopedEvent(acc.events[k])]
    BY DEF scopedEvents, ScopedEvent
  <2>3. \A k \in 1..Len(acc.events) : ScopedEvent(acc.events[k]) \in Events
    <3>1. \A k \in 1..Len(acc.events) : acc.events[k] \in Events
      BY <2>1
    <3> QED BY <3>1, ScopedEventIs
  <2>4. Len(acc.events) \in Nat
    BY <2>1
  <2> HIDE DEF ss
  <2>5. ss \in Seq(Events)
    BY <2>2, <2>3, <2>4
  <2> QED BY <1>2, <2>5, HitsAre DEF RuleHits, ss
<1>4. acc.bad \subseteq {"malformed", "startup"}
  BY DEF PassInv, PassTypes, Passes
<1>5. FormatViolations \subseteq {"no-events", "unrecognized"}
  BY DEF FormatViolations
<1>6. CommandViolations \subseteq {"destructive", "outside", "forbidden"}
  <2> DEFINE c(i) == CASE acc.cmds[i] = "rm" -> {"destructive", "outside"}
                       [] acc.cmds[i] = "make deploy" -> {"forbidden"}
                       [] acc.cmds[i] = "make" -> {}
                       [] OTHER -> {"outside"}
  <2>1. \A i : c(i) \subseteq {"destructive", "outside", "forbidden"}
    OBVIOUS
  <2>2. CommandViolations = UNION {c(i) : i \in 1..Len(acc.cmds)}
    BY DEF CommandViolations
  <2> HIDE DEF c
  <2> QED BY <2>1, <2>2
<1> QED BY <1>1, <1>2, <1>3, <1>4, <1>5, <1>6, <1>7, <1>8

(* Each finding comes from one list.                                       *)
LEMMA VerdictParts ==
  ASSUME PassInv, Drawn
  PROVE  /\ \A r \in TemporalRules :
              /\ r \in verdict.rules <=> r \in RuleHits \/ r \in UnenforceableRules(scen.fmt)
              /\ r \in verdict.bad <=> (r \in RuleHits /\ r # InjectionRule) \/ (r \in UnenforceableRules(scen.fmt) /\ scen.block)
         /\ \A c \in ConformanceRules :
              /\ c \in verdict.rules <=> c \in conformanceViolations(scen.fmt, acc.conf)
              /\ c \in verdict.bad <=> c \in conformanceViolations(scen.fmt, acc.conf) /\ scen.block
         /\ \A n \in {"malformed", "startup"} : n \in verdict.bad <=> n \in acc.bad
         /\ \A n \in {"no-events", "unrecognized"} : n \in verdict.bad <=> n \in FormatViolations
         /\ \A n \in {"max_tokens", "max_commands"} : n \in verdict.bad <=> n \in BudgetViolations
         /\ \A n \in {"destructive", "outside", "forbidden"} : n \in verdict.bad <=> n \in CommandViolations
<1> DEFINE F1 == {"malformed", "startup"}
           F2 == {"no-events", "unrecognized"}
           F3 == {"max_tokens", "max_commands"}
           F4 == {"destructive", "outside", "forbidden"}
           H == RuleHits
           U == UnenforceableRules(scen.fmt)
           V == conformanceViolations(scen.fmt, acc.conf)
           bad == verdict.bad
<1>1. /\ verdict.rules = H \cup (U \cup V)
      /\ bad = acc.bad \cup FormatViolations \cup BudgetViolations \cup CommandViolations
                 \cup ((H \ {InjectionRule}) \cup (IF scen.block THEN U \cup V ELSE {}))
  <2>1. \/ verdict = [drawn |-> TRUE, rules |-> {}, bad |-> {"unreadable"}] /\ hist = <<>>
        \/ verdict = [drawn |-> TRUE, rules |-> RuleHits \cup Advisory,
                      bad |-> acc.bad \cup FormatViolations \cup BudgetViolations \cup CommandViolations \cup Denied]
    BY DEF PassInv, VerdictOf, Drawn
  <2>2. verdict.rules = RuleHits \cup Advisory
        /\ verdict.bad = acc.bad \cup FormatViolations \cup BudgetViolations \cup CommandViolations \cup Denied
    BY <2>1 DEF Drawn
  <2> QED BY <2>2 DEF Denied, Advisory
<1>2. /\ H \subseteq TemporalRules /\ U \subseteq TemporalRules /\ V \subseteq ConformanceRules
      /\ acc.bad \subseteq F1 /\ FormatViolations \subseteq F2 /\ BudgetViolations \subseteq F3 /\ CommandViolations \subseteq F4
  BY VerdictSets
<1>3. /\ \A n \in TemporalRules : n \notin ConformanceRules /\ n \notin F1 /\ n \notin F2 /\ n \notin F3 /\ n \notin F4
      /\ \A n \in ConformanceRules : n \notin F1 /\ n \notin F2 /\ n \notin F3 /\ n \notin F4
  BY RulesAre DEF SecretRule, ScopeRule, InjectionRule, ConformanceRules
<1>4. /\ \A n \in F1 : n \notin F2 /\ n \notin F3 /\ n \notin F4
      /\ \A n \in F2 : n \notin F3 /\ n \notin F4
      /\ \A n \in F3 : n \notin F4
  OBVIOUS
<1>5. InjectionRule \in TemporalRules
  BY RulesAre
<1> HIDE DEF F1, F2, F3, F4, H, U, V, bad
<1>6. \A r \in TemporalRules :
        /\ r \in verdict.rules <=> r \in H \/ r \in U
        /\ r \in bad <=> (r \in H /\ r # InjectionRule) \/ (r \in U /\ scen.block)
  BY <1>1, <1>2, <1>3
<1>7. \A c \in ConformanceRules : (c \in verdict.rules <=> c \in V) /\ (c \in bad <=> c \in V /\ scen.block)
  BY <1>1, <1>2, <1>3
<1>8. \A n \in F1 : n \in bad <=> n \in acc.bad
  BY <1>1, <1>2, <1>3, <1>4
<1>9. \A n \in F2 : n \in bad <=> n \in FormatViolations
  BY <1>1, <1>2, <1>3, <1>4
<1>10. \A n \in F3 : n \in bad <=> n \in BudgetViolations
  BY <1>1, <1>2, <1>3, <1>4
<1>11. \A n \in F4 : n \in bad <=> n \in CommandViolations
  BY <1>1, <1>2, <1>3, <1>4
<1> QED BY <1>6, <1>7, <1>8, <1>9, <1>10, <1>11 DEF F1, F2, F3, F4, H, U, V, bad

(* The temporal rules say what the lines say.                              *)
LEMMA TemporalHolds ==
  ASSUME PassInv PROVE TemporalSound
<1> SUFFICES ASSUME Drawn, NEW r \in TemporalRules
             PROVE  IF r \in UnenforceableRules(scen.fmt)
                    THEN r \in verdict.rules /\ (r \in verdict.bad <=> scen.block)
                    ELSE /\ Precedes(r, TRUE) => r \in verdict.rules
                         /\ r \in verdict.rules => Precedes(r, FALSE)
                         /\ r \in verdict.bad <=> r \in verdict.rules /\ r # InjectionRule
  BY DEF TemporalSound, TemporalRules
<1>1. /\ r \in verdict.rules <=> r \in RuleHits \/ r \in UnenforceableRules(scen.fmt)
      /\ r \in verdict.bad <=> (r \in RuleHits /\ r # InjectionRule) \/ (r \in UnenforceableRules(scen.fmt) /\ scen.block)
  BY VerdictParts
<1>2. CASE r \in UnenforceableRules(scen.fmt)
  BY <1>1, <1>2, SilentRules
<1>3. CASE r \notin UnenforceableRules(scen.fmt)
  <2>1. (Precedes(r, TRUE) => r \in RuleHits) /\ (r \in RuleHits => Precedes(r, FALSE))
    BY <1>3, HitsMean
  <2> QED BY <1>1, <1>3, <2>1
<1> QED BY <1>2, <1>3

(* A session id other than the first is a second one.                      *)
LEMMA MoreThanOne ==
  ASSUME NEW S, IsFiniteSet(S)
  PROVE  Cardinality(S) > 1 <=> \E a, b \in S : a # b
<1>1. Cardinality(S) \in Nat /\ (Cardinality(S) = 0 <=> S = {}) /\ (Cardinality(S) = 1 <=> \E x : S = {x})
  BY FS_CardinalityType, FS_EmptySet, FS_Singleton
<1>2. (\E a, b \in S : a # b) <=> S # {} /\ ~\E x : S = {x}
  OBVIOUS
<1> QED BY <1>1, <1>2

(* Conformance says what the lines say.                                    *)
LEMMA ConformanceHolds ==
  ASSUME PassInv PROVE ConformanceSound
<1> DEFINE s == acc.conf
           v(c) == c \in conformanceViolations(scen.fmt, s)
<1>0. SUFFICES ASSUME Drawn
      PROVE /\ v("completion-missing") <=> scen.fmt \in Formats /\ \A i \in JSONAt : hist[i].type # "result"
            /\ scen.fmt # "claude" => \A c \in ConformanceRules : v(c) => c = "completion-missing"
            /\ scen.fmt = "claude" =>
                 /\ v("session-start-missing") <=> \A i \in JSONAt : hist[i].type # "init"
                 /\ v("session-identity-mixed") <=> Cardinality({hist[i].sid : i \in JSONAt} \ {""}) > 1
                 /\ v("duplicate-event-id") <=>
                      \E i, j \in JSONAt : i < j /\ hist[i].uuid = hist[j].uuid /\ hist[i].uuid # ""
                 /\ v("turn-count-short") <=>
                      \E i \in JSONAt : /\ Declares(i) /\ \A j \in JSONAt : Declares(j) => j <= i
                                        /\ hist[i].turns < Cardinality(Called)
                 /\ SpansLines => (v("tool-pairing-mismatch") <=> ~Paired)
  <2>1. SUFFICES ASSUME Drawn PROVE ConformanceSound
    BY DEF ConformanceSound
  <2>2. \A c \in ConformanceRules : (c \in verdict.rules <=> v(c)) /\ (c \in verdict.bad <=> v(c) /\ scen.block)
    BY <2>1, VerdictParts
  <2>3. {"completion-missing", "session-start-missing", "session-identity-mixed", "duplicate-event-id", "turn-count-short",
         "tool-pairing-mismatch"} \subseteq ConformanceRules
    BY DEF ConformanceRules
  <2> HIDE DEF v
  <2>4. \A c \in ConformanceRules : c \in verdict.bad <=> c \in verdict.rules /\ scen.block
    BY <2>2
  <2>5. scen.fmt # "claude" => verdict.rules \cap ConformanceRules \subseteq {"completion-missing"}
    BY <1>0, <2>1, <2>2
  <2>6. /\ "completion-missing" \in verdict.rules <=> v("completion-missing")
        /\ "session-start-missing" \in verdict.rules <=> v("session-start-missing")
        /\ "session-identity-mixed" \in verdict.rules <=> v("session-identity-mixed")
        /\ "duplicate-event-id" \in verdict.rules <=> v("duplicate-event-id")
        /\ "turn-count-short" \in verdict.rules <=> v("turn-count-short")
        /\ "tool-pairing-mismatch" \in verdict.rules <=> v("tool-pairing-mismatch")
    BY <2>2, <2>3
  <2> QED BY <1>0, <2>1, <2>4, <2>5, <2>6 DEF ConformanceSound
<1>2. /\ v("completion-missing") <=> scen.fmt \in Formats /\ ~s.done
      /\ scen.fmt # "claude" => \A c \in ConformanceRules : v(c) => c = "completion-missing"
      /\ scen.fmt = "claude" =>
           /\ v("session-start-missing") <=> ~s.start
           /\ v("session-identity-mixed") <=> s.mixed
           /\ v("duplicate-event-id") <=> s.dup
           /\ v("turn-count-short") <=> s.turns >= 0 /\ s.turns < Cardinality(s.uses)
           /\ v("tool-pairing-mismatch") <=> s.uses \ s.results # {} \/ s.results \ s.uses # {} \/ s.early
  BY DEF conformanceViolations, Formats
<1> HIDE DEF v
<1> DEFINE L == Spoken
<1>4. SessionIn(scen.fmt, L, s) /\ (scen.fmt = "claude" => CallsIn(L, s))
  BY DEF PassInv
<1>5. DOMAIN L = JSONAt /\ (\A i \in JSONAt : L[i] = hist[i]) /\ JSONAt \subseteq 1..Len(hist) /\ Len(hist) \in Nat
  <2>1. Len(hist) \in Nat
    BY DEF PassInv, PassTypes
  <2> QED BY <2>1 DEF Spoken, JSONAt
<1>12. s \in Sessions
  BY DEF PassInv, PassTypes, Passes
<1> HIDE DEF L, s
<1>6. v("completion-missing") <=> scen.fmt \in Formats /\ \A i \in JSONAt : hist[i].type # "result"
  <2>1. s.done <=> \E i \in JSONAt : transcriptIsCompletion(scen.fmt, hist[i])
    BY <1>4, <1>5 DEF SessionIn
  <2> QED BY <1>2, <2>1 DEF transcriptIsCompletion
<1>10. scen.fmt = "claude" => (v("session-start-missing") <=> \A i \in JSONAt : hist[i].type # "init")
  <2>1. s.start <=> \E i \in JSONAt : transcriptIsSessionStart(scen.fmt, hist[i])
    BY <1>4, <1>5 DEF SessionIn
  <2> QED BY <1>2, <2>1 DEF transcriptIsSessionStart
<1>7. scen.fmt = "claude" =>
        (v("duplicate-event-id") <=> \E i, j \in JSONAt : i < j /\ hist[i].uuid = hist[j].uuid /\ hist[i].uuid # "")
  <2>1. s.dup <=> \E i, j \in JSONAt : i < j /\ L[i].uuid = L[j].uuid /\ L[i].uuid # ""
    BY <1>4, <1>5 DEF SessionIn
  <2>2. scen.fmt = "claude" => (v("duplicate-event-id") <=> s.dup)
    BY <1>2
  <2> QED BY <1>5, <2>1, <2>2, ZenonT(30)
<1>11. scen.fmt = "claude" =>
         (v("turn-count-short") <=>
            \E i \in JSONAt : /\ Declares(i) /\ \A j \in JSONAt : Declares(j) => j <= i
                              /\ hist[i].turns < Cardinality(Called))
  <2> SUFFICES ASSUME scen.fmt = "claude"
               PROVE  v("turn-count-short") <=>
                        \E i \in JSONAt : /\ Declares(i) /\ \A j \in JSONAt : Declares(j) => j <= i
                                          /\ hist[i].turns < Cardinality(Called)
    OBVIOUS
  <2>1. s.uses = Called
    <3>1. \A i \in JSONAt : Ids("use")[i] = IdsIn(L[i], "use")
      BY <1>5 DEF Ids, IdsIn, IdsUpTo
    <3>2. \A d : d \in s.uses <=> \E i \in JSONAt : d \in IdsIn(L[i], "use")
      BY <1>4, <1>5 DEF CallsIn
    <3>3. \A d : d \in Called <=> \E i \in JSONAt : d \in IdsIn(L[i], "use")
      BY <3>1 DEF Called
    <3> QED BY <3>2, <3>3
  <2>2. \A i \in JSONAt : Tells(scen.fmt, L[i]) <=> Declares(i)
    BY <1>5 DEF Tells, Declares, transcriptIsCompletion, Formats
  <2>3. TurnsIn(scen.fmt, L, s.turns) /\ s.turns \in Int
    BY <1>4, <1>12 DEF SessionIn, Sessions
  <2>4. s.turns < 0 => \A i \in JSONAt : ~Declares(i)
    BY <1>5, <2>2, <2>3 DEF TurnsIn
  <2>5. s.turns >= 0 => \E i \in JSONAt : Declares(i) /\ hist[i].turns = s.turns /\ \A j \in JSONAt : Declares(j) => j <= i
    BY <1>5, <2>2, <2>3 DEF TurnsIn
  <2>6. v("turn-count-short") <=> s.turns >= 0 /\ s.turns < Cardinality(Called)
    BY <1>2, <2>1
  <2> HIDE DEF Declares, Called
  <2>7. \A i, j \in JSONAt : i <= j /\ j <= i => i = j
    BY <1>5
  <2>8. CASE s.turns < 0
    <3>1. ~(s.turns >= 0)
      BY <2>3, <2>8
    <3> QED BY <2>4, <2>6, <2>8, <3>1
  <2>9. CASE s.turns >= 0
    <3>1. PICK i \in JSONAt : Declares(i) /\ hist[i].turns = s.turns /\ \A j \in JSONAt : Declares(j) => j <= i
      BY <2>5, <2>9
    <3>2. \A k \in JSONAt : Declares(k) /\ (\A j \in JSONAt : Declares(j) => j <= k) => k = i
      BY <2>7, <3>1
    <3> QED BY <2>6, <2>9, <3>1, <3>2
  <2> QED BY <2>3, <2>8, <2>9
<1>8. scen.fmt = "claude" => (v("session-identity-mixed") <=> Cardinality({hist[i].sid : i \in JSONAt} \ {""}) > 1)
  <2> DEFINE S == {hist[i].sid : i \in JSONAt} \ {""}
  <2>1. IsFiniteSet(JSONAt)
    <3>1. IsFiniteSet(1..Len(hist))
      BY <1>5, FS_Interval, SMTT(30)
    <3> QED BY <1>5, <3>1, FS_Subset
  <2>2. IsFiniteSet(S)
    <3> DEFINE f == [i \in JSONAt |-> hist[i].sid]
               T == {hist[i].sid : i \in JSONAt}
    <3>1. IsFiniteSet(T)
      <4>1. f \in Surjection(JSONAt, T)
        BY DEF Surjection
      <4> HIDE DEF f, T
      <4> QED BY <2>1, <4>1, FS_Surjection
    <3> QED BY <3>1, FS_Subset
  <2>3. \A x : x \in S <=> x # "" /\ \E i \in JSONAt : hist[i].sid = x
    OBVIOUS
  <2> HIDE DEF S
  <2>4. /\ s.sid = "" => S = {}
        /\ s.sid # "" => s.sid \in S
        /\ s.mixed <=> \E x \in S : x # s.sid
    <3>1. /\ s.sid = "" => \A i \in JSONAt : L[i].sid = ""
          /\ s.sid # "" => \E i \in JSONAt : L[i].sid = s.sid
          /\ s.mixed <=> \E i \in JSONAt : L[i].sid # "" /\ L[i].sid # s.sid
      BY <1>4, <1>5 DEF SessionIn
    <3>2. \A i \in JSONAt : L[i].sid = hist[i].sid
      BY <1>5
    <3>3. s.sid = "" => S = {}
      <4> SUFFICES ASSUME s.sid = "", NEW x \in S PROVE FALSE
        OBVIOUS
      <4>1. PICK i \in JSONAt : hist[i].sid = x
        BY <2>3
      <4>2. L[i].sid = "" /\ L[i].sid = x
        BY <3>1, <3>2, <4>1
      <4> QED BY <2>3, <4>2
    <3>4. s.sid # "" => s.sid \in S
      BY <2>3, <3>1, <3>2
    <3>5. s.mixed <=> \E x \in S : x # s.sid
      BY <2>3, <3>1, <3>2
    <3> QED BY <3>3, <3>4, <3>5
  <2>5. (\E x \in S : x # s.sid) <=> \E a, b \in S : a # b
    BY <2>4
  <2>6. scen.fmt = "claude" => (v("session-identity-mixed") <=> Cardinality(S) > 1)
    BY <1>2, <2>2, <2>4, <2>5, MoreThanOne
  <2> QED BY <2>6 DEF S
<1>9. ASSUME scen.fmt = "claude", SpansLines PROVE v("tool-pairing-mismatch") <=> ~Paired
  <2> DEFINE U(i) == IdsIn(L[i], "use")
             R(i) == IdsIn(L[i], "result")
  <2>1. \A i \in JSONAt : Ids("use")[i] = U(i) /\ Ids("result")[i] = R(i)
    <3> SUFFICES ASSUME NEW i \in JSONAt, NEW k \in {"use", "result"} PROVE Ids(k)[i] = IdsIn(L[i], k)
      OBVIOUS
    <3>1. L[i] = hist[i] /\ i \in 1..Len(hist)
      BY <1>5
    <3> QED BY <3>1 DEF Ids, IdsIn, IdsUpTo
  <2>2. \A i \in JSONAt : Apart(L[i].nodes)
    BY <1>9, <2>1 DEF SpansLines, IdsIn, Apart
  <2> HIDE DEF U, R
  <2>3. /\ \A d : d \in s.uses <=> \E i \in JSONAt : d \in U(i)
        /\ \A d : d \in s.results <=> \E i \in JSONAt : d \in R(i)
        /\ s.early <=> \E j \in JSONAt : \E d \in R(j) : \A i \in JSONAt : i < j => d \notin U(i)
    BY <1>4, <1>5, <1>9, <2>2 DEF CallsIn, U, R
  <2>4. Paired <=> /\ \A i \in JSONAt : \A d \in U(i) : \E j \in JSONAt : d \in R(j)
                   /\ \A j \in JSONAt : \A d \in R(j) : \E i \in JSONAt : i < j /\ d \in U(i)
    BY <2>1 DEF Paired
  <2>5. (s.uses \ s.results # {}) <=> \E i \in JSONAt : \E d \in U(i) : \A j \in JSONAt : d \notin R(j)
    BY <2>3
  <2>6. s.results \ s.uses # {} => s.early
    BY <2>3
  <2> QED BY <1>2, <1>9, <2>3, <2>4, <2>5, <2>6
<1> QED BY <1>2, <1>6, <1>7, <1>8, <1>9, <1>10, <1>11

(* A clean verdict means lines that were events.                           *)
LEMMA FormatHolds ==
  ASSUME PassInv PROVE FormatSound
<1> SUFFICES ASSUME Drawn PROVE FormatSound
  BY DEF FormatSound
<1>1. FormatOf
  BY DEF PassInv
<1>2. "malformed" \in verdict.bad <=> Broken(hist)
  BY <1>1, VerdictParts DEF FormatOf
<1>3. "startup" \in verdict.bad <=> Foreign(scen.fmt, hist)
  BY <1>1, VerdictParts DEF FormatOf
<1>4. "no-events" \in verdict.bad <=> scen.fmt \in Formats /\ JSONAt = {}
  <2>1. "no-events" \in FormatViolations <=> scen.fmt \in Formats /\ ~acc.json
    BY DEF FormatViolations
  <2> QED BY <1>1, <2>1, VerdictParts DEF FormatOf
<1>5. "unrecognized" \in verdict.bad <=>
        scen.fmt \in Formats /\ JSONAt # {} /\ \A i \in JSONAt : ~recognizedTranscriptEvent(scen.fmt, hist[i])
  <2>1. "unrecognized" \in FormatViolations <=> scen.fmt \in Formats /\ acc.json /\ ~acc.known
    BY DEF FormatViolations
  <2>2. "unrecognized" \in verdict.bad <=> scen.fmt \in Formats /\ acc.json /\ ~acc.known
    BY <2>1, VerdictParts
  <2> QED BY <1>1, <2>2 DEF FormatOf
<1> QED BY <1>2, <1>3, <1>4, <1>5 DEF FormatSound, Broken, Foreign

(* A set of positions has a last one.                                      *)
LEMMA LastPosition ==
  ASSUME NEW N \in Nat, NEW S \in SUBSET (1..N), S # {}
  PROVE  \E i \in S : \A j \in S : j <= i
<1> SUFFICES ASSUME \A i \in S : \E j \in S : ~(j <= i) PROVE FALSE
  OBVIOUS
<1> DEFINE T == {n \in 0..N : \E j \in S : j > n}
<1>1. 0 \in T
  <2>1. PICK i \in S : TRUE
    OBVIOUS
  <2> QED BY <2>1
<1>2. \A n \in 0..N : n \in T /\ n < N => n + 1 \in T
  <2> SUFFICES ASSUME NEW n \in 0..N, n \in T, n < N PROVE \E j \in S : j > n + 1
    OBVIOUS
  <2>1. PICK i \in S : i > n
    OBVIOUS
  <2>2. PICK j \in S : ~(j <= i)
    OBVIOUS
  <2>3. j > n + 1
    BY <2>1, <2>2
  <2> QED BY <2>3
<1>3. N \in T
  <2> HIDE DEF T
  <2> QED BY <1>1, <1>2, UpTo
<1> QED BY <1>3

(* The largest of a set of numbers is the one none exceeds.                *)
LEMMA LargestIs ==
  ASSUME NEW S \in SUBSET Int, NEW x \in S, \A y \in S : y <= x
  PROVE  Max(S) = x
<1> DEFINE m == CHOOSE m \in S : \A y \in S : m >= y
<1>1. m \in S /\ \A y \in S : m >= y
  <2>1. x \in S /\ \A y \in S : x >= y
    OBVIOUS
  <2> QED BY <2>1
<1>2. Max(S) = m
  BY DEF Max
<1> HIDE DEF m
<1>3. m = x
  BY <1>1
<1> QED BY <1>2, <1>3

(* What usageResult comes to is what the lines report.                     *)
LEMMA UsageIs ==
  ASSUME PassInv
  PROVE  usageResult(acc.use) = Reported /\ Reported \in Nat /\ (Reported > 0 => acc.use.seen)
<1> DEFINE u == acc.use
           L == Spoken
           D == DOMAIN u.byID
<1>1. DOMAIN L = JSONAt /\ (\A i \in JSONAt : L[i] = hist[i]) /\ JSONAt \subseteq 1..Len(hist) /\ Len(hist) \in Nat
  <2>1. Len(hist) \in Nat
    BY DEF PassInv, PassTypes
  <2> QED BY <2>1 DEF Spoken, JSONAt
<1>2. u \in Usages /\ UsageIn(L, u)
  BY DEF PassInv, PassTypes, Passes
<1>3. Reports(L) = ReportsAt
  BY <1>1 DEF Reports, ReportsAt
<1>4. ReportsAt \subseteq 1..Len(hist) /\ \A i \in ReportsAt : L[i] = hist[i]
  BY <1>1 DEF ReportsAt
<1> HIDE DEF L, u
<1>5. /\ IsFiniteSet(D)
      /\ \A d : d \in D <=> d # "" /\ \E i \in ReportsAt : hist[i].uid = d
      /\ \A i \in ReportsAt : hist[i].uid # "" /\ (\A j \in ReportsAt : hist[j].uid = hist[i].uid => j <= i) => u.byID[hist[i].uid] = hist[i].tokens
      /\ ReportsAt # {} => u.seen
      /\ u.fallback = 0 \/ \E i \in ReportsAt : hist[i].uid = "" /\ hist[i].tokens = u.fallback
      /\ \A i \in ReportsAt : hist[i].tokens \in Nat /\ (hist[i].uid = "" => hist[i].tokens <= u.fallback)
  <2> DEFINE uid(i) == L[i].uid
             tok(i) == L[i].tokens
  <2>1. \A i \in ReportsAt : uid(i) = hist[i].uid /\ tok(i) = hist[i].tokens
    BY <1>4
  <2>2. /\ IsFiniteSet(D)
        /\ \A d : d \in D <=> d # "" /\ \E i \in ReportsAt : uid(i) = d
        /\ \A i \in ReportsAt : uid(i) # "" /\ (\A j \in ReportsAt : uid(j) = uid(i) => j <= i) => u.byID[uid(i)] = tok(i)
        /\ ReportsAt # {} => u.seen
        /\ u.fallback = 0 \/ \E i \in ReportsAt : uid(i) = "" /\ tok(i) = u.fallback
        /\ \A i \in ReportsAt : tok(i) \in Nat /\ (uid(i) = "" => tok(i) <= u.fallback)
    BY <1>2, <1>3 DEF UsageIn
  <2> HIDE DEF uid, tok, D
  <2>3. \A d : d \in D <=> d # "" /\ \E i \in ReportsAt : hist[i].uid = d
    <3>1. \A d : (\E i \in ReportsAt : uid(i) = d) <=> \E i \in ReportsAt : hist[i].uid = d
      BY <2>1
    <3> QED BY <2>2, <3>1
  <2>4. \A i \in ReportsAt : hist[i].uid # "" /\ (\A j \in ReportsAt : hist[j].uid = hist[i].uid => j <= i) => u.byID[hist[i].uid] = hist[i].tokens
    BY <2>1, <2>2
  <2>5. u.fallback = 0 \/ \E i \in ReportsAt : hist[i].uid = "" /\ hist[i].tokens = u.fallback
    BY <2>1, <2>2
  <2>6. \A i \in ReportsAt : hist[i].tokens \in Nat /\ (hist[i].uid = "" => hist[i].tokens <= u.fallback)
    BY <2>1, <2>2
  <2> QED BY <2>2, <2>3, <2>4, <2>5, <2>6
<1>6. D = Records
  <2>1. \A d : d \in Records <=> d # "" /\ \E i \in ReportsAt : hist[i].uid = d
    BY DEF Records
  <2> HIDE DEF D
  <2> QED BY <1>5, <2>1
<1>7. u.fallback \in Nat /\ u.byID \in [D -> Nat]
  BY <1>2 DEF Usages
<1>8. CASE D = {}
  <2> DEFINE S == {0} \cup {hist[i].tokens : i \in ReportsAt}
  <2>1. \A i \in ReportsAt : hist[i].uid = ""
    BY <1>5, <1>8
  <2>2. \A y \in S : y \in Nat /\ y <= u.fallback
    <3>1. \A i \in ReportsAt : hist[i].tokens \in Nat /\ hist[i].tokens <= u.fallback
      BY <1>5, <2>1
    <3> QED BY <1>7, <3>1
  <2>3. u.fallback \in S
    BY <1>5
  <2>4. Reported = Max(S)
    BY <1>6, <1>8 DEF Reported
  <2> HIDE DEF S
  <2>5. S \in SUBSET Int
    BY <2>2
  <2>6. Max(S) = u.fallback
    BY <2>2, <2>3, <2>5, LargestIs
  <2>7. usageResult(u) = u.fallback
    BY <1>8 DEF usageResult
  <2>8. u.fallback > 0 => u.seen
    <3> SUFFICES ASSUME u.fallback > 0 PROVE u.seen
      OBVIOUS
    <3>1. u.fallback # 0
      BY <1>7
    <3>2. ReportsAt # {}
      BY <1>5, <3>1
    <3> QED BY <1>5, <3>2
  <2> QED BY <1>7, <2>4, <2>6, <2>7, <2>8 DEF u
<1>9. CASE D # {}
  <2> DEFINE f == [d \in Records |-> LastOf(d)]
  <2>1. \A d \in D : u.byID[d] = LastOf(d)
    <3> SUFFICES ASSUME NEW d \in D PROVE u.byID[d] = LastOf(d)
      OBVIOUS
    <3> DEFINE js == {i \in ReportsAt : hist[i].uid = d}
               k == CHOOSE k \in js : \A j \in js : j <= k
    <3>1. js \in SUBSET (1..Len(hist)) /\ js # {} /\ d # ""
      BY <1>4, <1>5
    <3>2. LastOf(d) = hist[k].tokens
      BY DEF LastOf
    <3>3. \A j : j \in js <=> j \in ReportsAt /\ hist[j].uid = d
      OBVIOUS
    <3> HIDE DEF js
    <3>4. k \in js /\ \A j \in js : j <= k
      BY <1>1, <3>1, LastPosition
    <3> HIDE DEF k
    <3>5. hist[k].uid = d /\ k \in ReportsAt /\ \A j \in ReportsAt : hist[j].uid = hist[k].uid => j <= k
      BY <3>3, <3>4
    <3> QED BY <1>5, <3>1, <3>2, <3>5
  <2>2. u.byID = f
    BY <1>6, <1>7, <2>1
  <2>3. usageResult(u) = SumFunctionOnSet(u.byID, D)
    BY <1>9 DEF usageResult
  <2>4. Reported = SumFunctionOnSet(f, Records)
    BY <1>6, <1>9 DEF Reported
  <2>5. SumFunctionOnSet(u.byID, D) \in Nat
    BY <1>5, <1>7, SumNat
  <2>6. u.seen
    BY <1>5, <1>9
  <2> HIDE DEF f, D
  <2> QED BY <1>6, <2>2, <2>3, <2>4, <2>5, <2>6 DEF u
<1> QED BY <1>8, <1>9

(* The token limit is held against the last reports.                       *)
LEMMA UsageHolds ==
  ASSUME PassInv PROVE UsageSound
<1> SUFFICES ASSUME Drawn PROVE "max_tokens" \in verdict.bad <=> scen.maxTokens > 0 /\ Reported > scen.maxTokens
  BY DEF UsageSound
<1>1. "max_tokens" \in BudgetViolations <=> scen.maxTokens > 0 /\ acc.use.seen /\ usageResult(acc.use) > scen.maxTokens
  BY DEF BudgetViolations
<1>2. scen.maxTokens \in Int
  BY VerdictSets
<1>3. usageResult(acc.use) = Reported /\ Reported \in Nat /\ (Reported > 0 => acc.use.seen)
  BY UsageIs
<1>4. scen.maxTokens > 0 /\ Reported > scen.maxTokens => Reported > 0
  BY <1>2, <1>3
<1>5. "max_tokens" \in verdict.bad <=> "max_tokens" \in BudgetViolations
  BY VerdictParts
<1> QED BY <1>1, <1>3, <1>4, <1>5

(* The commands that were run are counted and matched.                     *)
LEMMA CommandHolds ==
  ASSUME PassInv PROVE CommandSound
<1> SUFFICES ASSUME Drawn PROVE CommandSound
  BY DEF CommandSound
<1> DEFINE fmt == scen.fmt
           L == Spoken
           cmds == acc.cmds
           C(i) == CommandsUpTo(fmt, hist[i].nodes, Len(hist[i].nodes))
<1>1. DOMAIN L = JSONAt /\ \A i \in JSONAt : L[i] = hist[i]
  BY DEF Spoken
<1>2. CommandsIn(fmt, L, cmds)
  BY DEF PassInv
<1>3. Commands = UNION {{i} \X C(i) : i \in JSONAt}
  BY DEF Commands, CommandsUpTo
<1>4. PlacesIn(fmt, L) = UNION {{i} \X C(i) : i \in JSONAt}
  <2>1. \A i \in JSONAt : CommandsUpTo(fmt, L[i].nodes, Len(L[i].nodes)) = C(i)
    BY <1>1
  <2> HIDE DEF C, L
  <2> QED BY <1>1, <2>1 DEF PlacesIn
<1>5. Len(cmds) = Cardinality(Commands)
  BY <1>2, <1>3, <1>4 DEF CommandsIn
<1>6. \A i, m : m \in C(i) => transcriptCommand(fmt, hist[i].nodes[m]) = hist[i].nodes[m].sub
  BY DEF CommandsUpTo, transcriptCommand
<1>7. \A c : c \in Said(cmds) <=> \E i \in JSONAt : \E m \in C(i) : hist[i].nodes[m].sub = c
  <2>1. \A c : c \in Said(cmds) <=> \E i \in JSONAt : \E m \in C(i) : transcriptCommand(fmt, hist[i].nodes[m]) = c
    BY <1>1, <1>2 DEF CommandsIn
  <2> HIDE DEF C
  <2> QED BY <1>6, <2>1
<1> HIDE DEF C, fmt, L
<1>8. \A c : c \in Ran <=> \E i \in JSONAt : \E m \in C(i) : hist[i].nodes[m].sub = c
  <2>1. \A x : x \in Commands <=> \E i \in JSONAt : \E m \in C(i) : x = <<i, m>>
    BY <1>3
  <2>2. \A i, m : <<i, m>>[1] = i /\ <<i, m>>[2] = m
    OBVIOUS
  <2>3. \A c : c \in Ran <=> \E x \in Commands : hist[x[1]].nodes[x[2]].sub = c
    BY DEF Ran
  <2>4. ASSUME NEW c, NEW i \in JSONAt, NEW m \in C(i), hist[i].nodes[m].sub = c PROVE c \in Ran
    <3>1. <<i, m>> \in Commands
      BY <2>1
    <3> QED BY <2>2, <2>3, <2>4, <3>1
  <2>5. ASSUME NEW c \in Ran PROVE \E i \in JSONAt : \E m \in C(i) : hist[i].nodes[m].sub = c
    <3>1. PICK x \in Commands : hist[x[1]].nodes[x[2]].sub = c
      BY <2>3
    <3>2. PICK i \in JSONAt : \E m \in C(i) : x = <<i, m>>
      BY <2>1
    <3> QED BY <2>2, <3>1, <3>2
  <2> QED BY <2>4, <2>5
<1>9. Said(cmds) = Ran
  BY <1>7, <1>8
<1>10. /\ "destructive" \in CommandViolations <=> "rm" \in Said(cmds)
       /\ "forbidden" \in CommandViolations <=> "make deploy" \in Said(cmds)
       /\ "outside" \in CommandViolations <=> \E c \in Said(cmds) : c # "make" /\ c # "make deploy"
  <2> DEFINE found(c) == CASE c = "rm" -> {"destructive", "outside"}
                           [] c = "make deploy" -> {"forbidden"}
                           [] c = "make" -> {}
                           [] OTHER -> {"outside"}
  <2>1. CommandViolations = UNION {found(cmds[k]) : k \in 1..Len(cmds)}
    BY DEF CommandViolations
  <2>2. /\ \A c : "destructive" \in found(c) <=> c = "rm"
        /\ \A c : "forbidden" \in found(c) <=> c = "make deploy"
        /\ \A c : "outside" \in found(c) <=> c # "make" /\ c # "make deploy"
    OBVIOUS
  <2> HIDE DEF found, cmds
  <2>3. \A x : x \in CommandViolations <=> \E k \in 1..Len(cmds) : x \in found(cmds[k])
    BY <2>1
  <2>4. \A x : x \in CommandViolations <=> \E c \in Said(cmds) : x \in found(c)
    BY <2>3 DEF Said
  <2> QED BY <2>2, <2>4
<1>11. "max_commands" \in BudgetViolations <=> Len(cmds) > scen.maxCmds
  BY DEF BudgetViolations
<1> HIDE DEF cmds
<1>12. "max_commands" \in verdict.bad <=> Cardinality(Commands) > scen.maxCmds
  BY <1>5, <1>11, VerdictParts
<1>13. /\ "destructive" \in verdict.bad <=> "destructive" \in CommandViolations
       /\ "forbidden" \in verdict.bad <=> "forbidden" \in CommandViolations
       /\ "outside" \in verdict.bad <=> "outside" \in CommandViolations
  BY VerdictParts
<1>14. "outside" \in CommandViolations <=> Ran \ {"make", "make deploy"} # {}
  BY <1>9, <1>10
<1> QED BY <1>9, <1>10, <1>12, <1>13, <1>14 DEF CommandSound

(* What the pass holds is what its lines say, whatever lines are printed,  *)
(* and in whichever order the children of an object are walked.            *)
THEOREM TranscriptInvariance == TranscriptSpec => []PassInv
<1>1. TranscriptInit => PassInv
  BY PassInit
<1>2. PassInv /\ [TranscriptNext]_tVars => PassInv'
  BY PassStep
<1> QED BY <1>1, <1>2, PTL DEF TranscriptSpec

(* auditTranscript finds of a transcript it could read what TranscriptSound *)
(* says of its lines, and exactly that: commands, token reports, the form  *)
(* of the lines and the session; a temporal rule up to the order of the    *)
(* nodes of one line, and the pairing of calls and answers where no line   *)
(* has both of one id.                                                     *)
THEOREM TranscriptsAreSound == TranscriptSpec => []TranscriptSound
<1>1. PassInv => TranscriptSound
  BY TemporalHolds, ConformanceHolds, FormatHolds, UsageHolds, CommandHolds DEF TranscriptSound
<1> QED BY <1>1, TranscriptInvariance, PTL

-----------------------------------------------------------------------------
(* The route                                                               *)

(* What the broker knows of a backend, and what a job asks for.            *)
Known ==
  [meets : SUBSET STRING, binary : BOOLEAN, breaker : {"CLOSED", "OPEN", "DEGRADED"}, runs : Nat, valid : Nat,
   weighted : Nat, quota : SUBSET Nat, assay : Nat, cost : Nat]
Requests ==
  [allow : SUBSET Nat, exclude : SUBSET Nat, needs : SUBSET STRING, lineage : Nat,
   objective : {"cheapest", "balanced", "most_reliable"}, risk : {"low", "medium", "high"}]
ScoreFields == {"validRate", "severity", "cost", "breaker", "quota", "affinity", "assay"}
ScoreCards == [validRate : Int, severity : Int, cost : Int, breaker : Int, quota : Int, affinity : Int, assay : Int]
WeightCards == [validRate : Nat, severity : Nat, cost : Nat, breaker : Nat, quota : Nat, affinity : Nat, assay : Nat]

(* riskAdjustedWeights moves weight and makes none, and takes no more from *)
(* the cost than it has.                                                   *)
LEMMA AdjustedWeights ==
  ASSUME NEW o \in {"cheapest", "balanced", "most_reliable"}, NEW r \in {"low", "medium", "high"}
  PROVE  LET w == riskAdjustedWeights(objectiveWeights(o), r)
         IN w \in WeightCards /\ WeightSum(w) = 10000
<1> DEFINE b == objectiveWeights(o)
           want == CASE r = "high" -> 1500 [] r = "medium" -> 500 [] OTHER -> 0
           s == IF want > b.cost THEN b.cost ELSE want
           w == riskAdjustedWeights(b, r)
<1>1. /\ b \in WeightCards /\ WeightSum(b) = 10000
      /\ b.cost \in {500, 2200, 5000}
  <2>1. CASE o = "cheapest"
    <3>1. b = [validRate |-> 1800, severity |-> 1000, cost |-> 5000, breaker |-> 500, quota |-> 500, affinity |-> 500, assay |-> 700]
      BY <2>1 DEF objectiveWeights, W
    <3> HIDE DEF b
    <3> QED BY <3>1 DEF WeightCards, WeightSum
  <2>2. CASE o = "most_reliable"
    <3>1. b = [validRate |-> 3000, severity |-> 2800, cost |-> 500, breaker |-> 1800, quota |-> 500, affinity |-> 500, assay |-> 900]
      BY <2>2 DEF objectiveWeights, W
    <3> HIDE DEF b
    <3> QED BY <3>1 DEF WeightCards, WeightSum
  <2>3. CASE o = "balanced"
    <3>1. b = [validRate |-> 2700, severity |-> 1500, cost |-> 2200, breaker |-> 1000, quota |-> 500, affinity |-> 1500, assay |-> 600]
      BY <2>3 DEF objectiveWeights, W
    <3> HIDE DEF b
    <3> QED BY <3>1 DEF WeightCards, WeightSum
  <2> QED BY <2>1, <2>2, <2>3
<1>2. want \in {0, 500, 1500}
  OBVIOUS
<1>3. s \in {0, 500, 1500}
  BY <1>1, <1>2
<1>4. w = [b EXCEPT !.cost = b.cost - s, !.validRate = b.validRate + (s * 40) \div 100,
                    !.severity = b.severity + (s * 25) \div 100, !.breaker = b.breaker + (s * 20) \div 100,
                    !.assay = b.assay + (s * 15) \div 100]
  BY DEF riskAdjustedWeights
<1>5. s <= b.cost
  BY <1>1, <1>2
<1> HIDE DEF s, w, b
<1>6. /\ (s * 40) \div 100 \in Nat /\ (s * 25) \div 100 \in Nat /\ (s * 20) \div 100 \in Nat /\ (s * 15) \div 100 \in Nat
      /\ (s * 40) \div 100 + (s * 25) \div 100 + (s * 20) \div 100 + (s * 15) \div 100 = s
  BY <1>3
<1> DEFINE d40 == (s * 40) \div 100
           d25 == (s * 25) \div 100
           d20 == (s * 20) \div 100
           d15 == (s * 15) \div 100
<1> HIDE DEF d40, d25, d20, d15
<1>7. d40 \in Nat /\ d25 \in Nat /\ d20 \in Nat /\ d15 \in Nat /\ d40 + d25 + d20 + d15 = s
  BY <1>6 DEF d40, d25, d20, d15
<1>8. /\ w = [b EXCEPT !.cost = b.cost - s, !.validRate = b.validRate + d40,
                       !.severity = b.severity + d25, !.breaker = b.breaker + d20, !.assay = b.assay + d15]
  BY <1>4 DEF d40, d25, d20, d15
<1>9. w \in WeightCards
  <2>1. b.cost - s \in Nat
    BY <1>1, <1>3, <1>5
  <2>2. b.validRate + d40 \in Nat /\ b.severity + d25 \in Nat /\ b.breaker + d20 \in Nat /\ b.assay + d15 \in Nat
    BY <1>1, <1>7 DEF WeightCards
  <2> DEFINE c == b.cost - s
             v == b.validRate + d40
             y == b.severity + d25
             k == b.breaker + d20
             a == b.assay + d15
  <2>3. c \in Nat /\ v \in Nat /\ y \in Nat /\ k \in Nat /\ a \in Nat
    BY <2>1, <2>2
  <2>4. w = [b EXCEPT !.cost = c, !.validRate = v, !.severity = y, !.breaker = k, !.assay = a]
    BY <1>8
  <2> HIDE DEF c, v, y, k, a
  <2>5. b \in WeightCards
    BY <1>1
  <2> QED BY <2>3, <2>4, <2>5 DEF WeightCards
<1>10. WeightSum(w) = 10000
  BY <1>1, <1>3, <1>7, <1>8 DEF WeightCards, WeightSum
<1> QED BY <1>9, <1>10 DEF w, b

(* A finite set with totals has a first among the best.                    *)
LEMMA BestExists ==
  ASSUME NEW S, IsFiniteSet(S), S # {}, S \subseteq Nat, NEW total \in [S -> Int]
  PROVE  \E n \in S : \A m \in S : total[n] > total[m] \/ (total[n] = total[m] /\ n <= m)
<1> DEFINE Best(n, T) == n \in T /\ \A m \in T : total[n] > total[m] \/ (total[n] = total[m] /\ n <= m)
           Bad == {T \in SUBSET S : T # {} /\ \A n \in T : ~Best(n, T)}
<1> SUFFICES ASSUME Bad # {} PROVE FALSE
  <2>1. S \in Bad \/ \E n \in S : Best(n, S)
    OBVIOUS
  <2> QED BY <2>1
<1>1. PICK T \in Bad : \A U \in Bad : U \subseteq T => U = T
  <2>1. Bad \in SUBSET (SUBSET S)
    OBVIOUS
  <2> HIDE DEF Bad
  <2>2. Bad # {} /\ IsFiniteSet(S)
    OBVIOUS
  <2> QED BY ONLY <2>1, <2>2, SmallestSet
<1>2. PICK x \in T : TRUE
  OBVIOUS
<1> DEFINE U == T \ {x}
<1>3. U \subseteq T /\ U # T /\ U \in SUBSET S
  BY <1>1, <1>2
<1>4. U \notin Bad
  BY <1>1, <1>3
<1>5. CASE U = {}
  <2>1. T = {x}
    BY <1>2, <1>5
  <2>2. Best(x, T)
    BY <1>1, <2>1
  <2> QED BY <1>1, <1>2, <2>2
<1>6. CASE U # {}
  <2>1. PICK y \in U : Best(y, U)
    BY <1>3, <1>4, <1>6
  <2>2. x \in S /\ y \in S /\ total[x] \in Int /\ total[y] \in Int /\ x \in Nat /\ y \in Nat
    BY <1>1, <1>2, <1>3, <2>1
  <2>3. \A m \in T : m \in S /\ total[m] \in Int /\ m \in Nat /\ (m = x \/ m \in U)
    BY <1>1, <1>2
  <2> HIDE DEF U
  <2>4. CASE total[y] > total[x] \/ (total[y] = total[x] /\ y <= x)
    <3>1. Best(y, T)
      BY <1>3, <2>1, <2>3, <2>4
    <3> QED BY <1>1, <1>3, <2>1, <3>1
  <2>5. CASE ~(total[y] > total[x] \/ (total[y] = total[x] /\ y <= x))
    <3>1. total[x] > total[y] \/ (total[x] = total[y] /\ x <= y)
      BY <2>2, <2>5
    <3>2. \A m \in U : m \in T
      BY <1>3
    <3>3. \A m \in U : total[x] > total[m] \/ (total[x] = total[m] /\ x <= m)
      BY <2>1, <2>2, <2>3, <3>1, <3>2
    <3>4. \A m \in T : total[x] > total[m] \/ (total[x] = total[m] /\ x <= m)
      BY <2>2, <2>3, <3>3
    <3> QED BY <1>1, <1>2, <3>4
  <2> QED BY <2>4, <2>5
<1> QED BY <1>5, <1>6

(* The largest and the smallest of finitely many costs.                    *)
LEMMA CostsAre ==
  ASSUME NEW S, IsFiniteSet(S), S # {}, NEW f \in [S -> Nat]
  PROVE  /\ \E n \in S : \A m \in S : f[n] <= f[m]
         /\ \E n \in S : \A m \in S : f[m] <= f[n]
<1> DEFINE Least(n, T) == n \in T /\ \A m \in T : f[n] <= f[m]
           Most(n, T) == n \in T /\ \A m \in T : f[m] <= f[n]
           Bad == {T \in SUBSET S : T # {} /\ ~((\E n \in T : Least(n, T)) /\ (\E n \in T : Most(n, T)))}
<1> SUFFICES ASSUME Bad # {} PROVE FALSE
  <2>1. S \in Bad \/ ((\E n \in S : Least(n, S)) /\ (\E n \in S : Most(n, S)))
    OBVIOUS
  <2> QED BY <2>1
<1>1. PICK T \in Bad : \A U \in Bad : U \subseteq T => U = T
  <2>1. Bad \in SUBSET (SUBSET S)
    OBVIOUS
  <2> HIDE DEF Bad
  <2> QED BY <2>1, SmallestSet
<1>2. PICK x \in T : TRUE
  OBVIOUS
<1> DEFINE U == T \ {x}
<1>3. U \subseteq T /\ U # T /\ U \in SUBSET S
  BY <1>1, <1>2
<1>4. U \notin Bad
  BY <1>1, <1>3
<1>5. \A m \in T : f[m] \in Nat /\ (m = x \/ m \in U)
  BY <1>1, <1>2
<1>6. CASE U = {}
  <2>1. T = {x}
    BY <1>2, <1>6
  <2>2. Least(x, T) /\ Most(x, T)
    BY <1>5, <2>1
  <2> QED BY <1>1, <1>2, <2>2
<1>7. CASE U # {}
  <2>1. (\E y \in U : Least(y, U)) /\ (\E y \in U : Most(y, U))
    BY <1>3, <1>4, <1>7
  <2> HIDE DEF U
  <2>2. \E n \in T : Least(n, T)
    <3>1. PICK y \in U : Least(y, U)
      BY <2>1
    <3>2. f[y] <= f[x] => Least(y, T)
      BY <1>2, <1>3, <1>5, <3>1
    <3>3. f[x] <= f[y] => Least(x, T)
      BY <1>2, <1>3, <1>5, <3>1
    <3>4. f[y] <= f[x] \/ f[x] <= f[y]
      BY <1>2, <1>3, <1>5
    <3> QED BY <1>2, <1>3, <3>2, <3>3, <3>4
  <2>3. \E n \in T : Most(n, T)
    <3>1. PICK y \in U : Most(y, U)
      BY <2>1
    <3>2. f[x] <= f[y] => Most(y, T)
      BY <1>2, <1>3, <1>5, <3>1
    <3>3. f[y] <= f[x] => Most(x, T)
      BY <1>2, <1>3, <1>5, <3>1
    <3>4. f[y] <= f[x] \/ f[x] <= f[y]
      BY <1>2, <1>3, <1>5
    <3> QED BY <1>2, <1>3, <3>2, <3>3, <3>4
  <2> QED BY <1>1, <2>2, <2>3
<1> QED BY <1>6, <1>7

(* Each score of a candidate is a number.                                  *)
LEMMA ScoresAre ==
  ASSUME NEW h \in [Registered -> Known], NEW S \in SUBSET Registered, NEW req \in Requests, NEW n \in S
  PROVE  Scores(h, S, req, n) \in ScoreCards
<1>1. h[n] \in Known /\ IsFiniteSet(S)
  BY RouterAssumption, FS_Subset
<1>2. \A v \in Int : clampUnit(v) \in Int
  BY DEF clampUnit
<1>3. validRateComponent(h[n].runs, h[n].valid) \in Int
  <2>1. h[n].runs \in Nat /\ h[n].valid \in Nat
    BY <1>1 DEF Known
  <2>2. h[n].runs # 0 => (100 * h[n].valid) \div h[n].runs \in Int
    BY <2>1
  <2> QED BY <1>2, <2>2 DEF validRateComponent
<1>4. severityComponent(h[n].runs, h[n].weighted) \in Int
  <2>1. h[n].runs \in Nat /\ h[n].weighted \in Nat
    BY <1>1 DEF Known
  <2>2. h[n].runs # 0 => clampUnit(h[n].weighted \div h[n].runs) \in Int
    BY <1>2, <2>1
  <2> QED BY <2>2 DEF severityComponent
<1>5. CostScore(h, S, n) \in Int
  <2> DEFINE costs == {h[m].cost : m \in S}
             lo == CHOOSE c \in costs : \A d \in costs : c <= d
             hi == CHOOSE c \in costs : \A d \in costs : d <= c
             f == [m \in S |-> h[m].cost]
  <2>1. \A m \in S : h[m].cost \in Nat
    BY DEF Known
  <2>2. f \in [S -> Nat] /\ S # {}
    BY <2>1
  <2>3. (\E m \in S : \A k \in S : f[m] <= f[k]) /\ (\E m \in S : \A k \in S : f[k] <= f[m])
    <3> HIDE DEF f
    <3> QED BY <1>1, <2>2, CostsAre
  <2>4. (\E c \in costs : \A d \in costs : c <= d) /\ (\E c \in costs : \A d \in costs : d <= c)
    BY <2>3
  <2>5. lo \in costs /\ hi \in costs
    BY <2>4
  <2>6. CostScore(h, S, n) = IF hi > lo THEN (100 * (hi - h[n].cost)) \div (hi - lo) ELSE 100
    BY DEF CostScore
  <2>7. costs \subseteq Nat
    BY <2>1
  <2> HIDE DEF lo, hi, costs
  <2>8. lo \in Nat /\ hi \in Nat /\ h[n].cost \in Nat
    BY <2>1, <2>5, <2>7
  <2>9. hi > lo => (100 * (hi - h[n].cost)) \div (hi - lo) \in Int
    <3> DEFINE a == 100 * (hi - h[n].cost)
               b == hi - lo
    <3>1. a \in Int /\ b \in Int /\ (hi > lo => b > 0)
      BY <2>8
    <3> HIDE DEF a, b
    <3>2. hi > lo => a \div b \in Int
      BY <3>1
    <3> QED BY <3>2 DEF a, b
  <2> QED BY <2>6, <2>9
<1>6. quotaScore(h[n].quota) \in Int
  <2>1. h[n].quota \subseteq Nat
    BY <1>1 DEF Known
  <2>2. h[n].quota # {} => (CHOOSE k \in h[n].quota : TRUE) \in h[n].quota
    OBVIOUS
  <2>3. h[n].quota # {} => (CHOOSE k \in h[n].quota : TRUE) \in Int
    BY <2>1, <2>2
  <2> QED BY <1>2, <2>3 DEF quotaScore
<1>7. breakerScore(h[n].breaker) \in Int /\ affinityScore(req.lineage, n) \in Int /\ h[n].assay \in Int
  BY <1>1 DEF breakerScore, affinityScore, Known
<1> QED BY <1>3, <1>4, <1>5, <1>6, <1>7 DEF Scores, ScoreCards

(* Weighting keeps the order of two scores, and tells them apart if the    *)
(* weight is not 0.                                                        *)
LEMMA Weighted ==
  ASSUME NEW a \in Int, NEW b \in Int, NEW w \in Nat, a >= b
  PROVE  a * w \in Int /\ b * w \in Int /\ a * w >= b * w /\ (w > 0 /\ a * w = b * w => a = b)
<1>1. (a - b) * w \in Nat /\ (w > 0 /\ a - b > 0 => (a - b) * w > 0)
  OBVIOUS
<1>2. (a - b) * w = a * w - b * w
  OBVIOUS
<1>3. a * w \in Int /\ b * w \in Int
  OBVIOUS
<1> QED BY <1>1, <1>2, <1>3

(* Of two sums of which one is term by term at least the other.            *)
LEMMA SevenTerms ==
  ASSUME NEW p1 \in Int, NEW p2 \in Int, NEW p3 \in Int, NEW p4 \in Int, NEW p5 \in Int, NEW p6 \in Int, NEW p7 \in Int,
         NEW q1 \in Int, NEW q2 \in Int, NEW q3 \in Int, NEW q4 \in Int, NEW q5 \in Int, NEW q6 \in Int, NEW q7 \in Int,
         p1 >= q1, p2 >= q2, p3 >= q3, p4 >= q4, p5 >= q5, p6 >= q6, p7 >= q7
  PROVE  LET p == p1 + p2 + p3 + p4 + p5 + p6 + p7
             q == q1 + q2 + q3 + q4 + q5 + q6 + q7
         IN /\ p \in Int /\ q \in Int /\ p >= q
            /\ p = q => p1 = q1 /\ p2 = q2 /\ p3 = q3 /\ p4 = q4 /\ p5 = q5 /\ p6 = q6 /\ p7 = q7
OBVIOUS

(* One that is at least as good everywhere and not better in total is as   *)
(* good wherever there is a weight.                                        *)
LEMMA NoBetterInTotal ==
  ASSUME NEW s \in ScoreCards, NEW t \in ScoreCards, NEW w \in WeightCards, AtLeast(s, t)
  PROVE  /\ totalScore(s, w) \in Int /\ totalScore(t, w) \in Int /\ totalScore(s, w) >= totalScore(t, w)
         /\ totalScore(s, w) = totalScore(t, w) => \A f \in ScoreFields : w[f] > 0 => s[f] = t[f]
<1> DEFINE P(f) == s[f] * w[f]
           Q(f) == t[f] * w[f]
<1>1. \A f \in ScoreFields : s[f] \in Int /\ t[f] \in Int /\ w[f] \in Nat /\ s[f] >= t[f]
  <2>1. DOMAIN s = ScoreFields
    BY DEF ScoreCards, ScoreFields
  <2>2. \A f \in ScoreFields : s[f] >= t[f]
    BY <2>1 DEF AtLeast
  <2>3. \A f \in ScoreFields : s[f] \in Int /\ t[f] \in Int
    BY DEF ScoreCards, ScoreFields
  <2>4. \A f \in ScoreFields : w[f] \in Nat
    BY DEF WeightCards, ScoreFields
  <2> QED BY <2>2, <2>3, <2>4
<1>2. \A f \in ScoreFields : P(f) \in Int /\ Q(f) \in Int /\ P(f) >= Q(f) /\ (w[f] > 0 /\ P(f) = Q(f) => s[f] = t[f])
  BY <1>1, Weighted
<1>3. /\ totalScore(s, w) = P("validRate") + P("severity") + P("cost") + P("breaker") + P("quota") + P("affinity") + P("assay")
      /\ totalScore(t, w) = Q("validRate") + Q("severity") + Q("cost") + Q("breaker") + Q("quota") + Q("affinity") + Q("assay")
  BY DEF totalScore, ScoreCards, WeightCards
<1> HIDE DEF P, Q
<1>4. /\ totalScore(s, w) \in Int /\ totalScore(t, w) \in Int /\ totalScore(s, w) >= totalScore(t, w)
      /\ totalScore(s, w) = totalScore(t, w) => \A f \in ScoreFields : P(f) = Q(f)
  <2>1. \A f \in ScoreFields : P(f) \in Int /\ Q(f) \in Int /\ P(f) >= Q(f)
    BY <1>2
  <2>2. /\ totalScore(s, w) \in Int /\ totalScore(t, w) \in Int /\ totalScore(s, w) >= totalScore(t, w)
        /\ totalScore(s, w) = totalScore(t, w) =>
             /\ P("validRate") = Q("validRate") /\ P("severity") = Q("severity") /\ P("cost") = Q("cost")
             /\ P("breaker") = Q("breaker") /\ P("quota") = Q("quota") /\ P("affinity") = Q("affinity") /\ P("assay") = Q("assay")
    BY <1>3, <2>1, SevenTerms DEF ScoreFields
  <2> QED BY <2>2 DEF ScoreFields
<1> QED BY <1>2, <1>4

(* selectWinner, whatever is known of any number of backends and whatever  *)
(* the job asks for: the route is a candidate nothing excludes, there is   *)
(* one if there is such a candidate, none is better, and of equals the     *)
(* first name wins.                                                        *)
THEOREM WinnersAreSound ==
  ASSUME NEW h \in [Registered -> Known], NEW req \in Requests
  PROVE  WinnerSound(h, req)
<1> DEFINE S == {n \in candidatePool(req.allow) : ~Excluded(h, req, n)}
           w == riskAdjustedWeights(objectiveWeights(req.objective), req.risk)
           total == [n \in S |-> totalScore(Scores(h, S, req, n), w)]
           win == Resolve(h, req)
           best == Scores(h, S, req, win)
           beats(n) == \A m \in S : total[n] > total[m] \/ (total[n] = total[m] /\ n <= m)
<1>1. S \in SUBSET Registered /\ IsFiniteSet(S) /\ S \subseteq Nat /\ NoAgent \notin S
  <2>1. S \in SUBSET Registered
    BY DEF candidatePool
  <2> HIDE DEF S
  <2> QED BY <2>1, RouterAssumption, FS_Subset
<1>2. w \in WeightCards
  BY AdjustedWeights DEF Requests
<1>3. \A n \in S : Scores(h, S, req, n) \in ScoreCards
  BY <1>1, ScoresAre
<1>4. win = IF S = {} THEN NoAgent ELSE CHOOSE n \in S : beats(n)
  BY DEF Resolve, selectWinner
<1>5. total = [n \in S |-> totalScore(Scores(h, S, req, n), w)]
  OBVIOUS
<1> HIDE DEF S, w, total
<1>6. ASSUME NEW s \in ScoreCards PROVE totalScore(s, w) \in Int
  <2>1. AtLeast(s, s)
    <3>1. \A f \in DOMAIN s : s[f] \in Int
      BY DEF ScoreCards
    <3> QED BY <3>1 DEF AtLeast
  <2> QED BY <1>2, <2>1, NoBetterInTotal
<1>7. total \in [S -> Int]
  BY <1>3, <1>5, <1>6
<1>8. CASE S = {}
  <2>1. win = NoAgent
    BY <1>4, <1>8
  <2> QED BY <1>8, <2>1 DEF WinnerSound, S
<1>9. CASE S # {}
  <2>1. win \in S /\ beats(win)
    <3>1. \E n \in S : beats(n)
      BY <1>1, <1>7, <1>9, BestExists
    <3> QED BY <1>4, <1>9, <3>1
  <2> HIDE DEF win
  <2>2. ASSUME NEW n \in S, AtLeast(Scores(h, S, req, n), best)
        PROVE  (\A f \in DOMAIN Scores(h, S, req, n) : w[f] > 0 => Scores(h, S, req, n)[f] = best[f]) /\ win <= n
    <3> DEFINE s == Scores(h, S, req, n)
    <3>1. s \in ScoreCards /\ best \in ScoreCards /\ AtLeast(s, best)
      BY <1>3, <2>1, <2>2
    <3>2. total[n] = totalScore(s, w) /\ total[win] = totalScore(best, w)
      BY <1>5, <2>1
    <3> HIDE DEF s, best
    <3>3. /\ totalScore(s, w) \in Int /\ totalScore(best, w) \in Int /\ totalScore(s, w) >= totalScore(best, w)
          /\ totalScore(s, w) = totalScore(best, w) => \A f \in ScoreFields : w[f] > 0 => s[f] = best[f]
      BY <1>2, <3>1, NoBetterInTotal
    <3>4. total[win] > total[n] \/ (total[win] = total[n] /\ win <= n)
      BY <2>1
    <3>5. totalScore(s, w) = totalScore(best, w) /\ win <= n
      BY <3>2, <3>3, <3>4
    <3>6. DOMAIN s = ScoreFields
      BY <3>1 DEF ScoreCards, ScoreFields
    <3> QED BY <3>3, <3>5, <3>6 DEF s
  <2>3. win # NoAgent
    BY <1>1, <2>1
  <2> QED BY <1>9, <2>1, <2>2, <2>3 DEF WinnerSound, S, w, win
<1> QED BY <1>8, <1>9

-----------------------------------------------------------------------------
(* The demand for containment                                              *)

(* A contract has a known risk label and runner, and carries one signed    *)
(* override or none.                                                       *)
IsContract(c) ==
  /\ c.risk \in {"", "low", "medium", "high"} /\ c.runner \in {"local", "docker"}
  /\ c.netForbidden \in BOOLEAN /\ c.hardened \in BOOLEAN
  /\ \A o, p \in c.override : o = p

(* The labels in their order.                                              *)
LEMMA RanksAre == RankOf("") = 1 /\ RankOf("low") = 2 /\ RankOf("medium") = 3 /\ RankOf("high") = 4
<1> DEFINE R(i) == Risks[i]
<1>1. R(1) = "" /\ R(2) = "low" /\ R(3) = "medium" /\ R(4) = "high" /\ 1..4 = {1, 2, 3, 4}
  BY DEF Risks
<1> HIDE DEF R
<1>2. \A r : RankOf(r) = CHOOSE i \in 1..4 : R(i) = r
  BY DEF RankOf, R
<1>3. (CHOOSE i \in 1..4 : R(i) = "") = 1
  BY <1>1
<1>4. (CHOOSE i \in 1..4 : R(i) = "low") = 2
  BY <1>1
<1>5. (CHOOSE i \in 1..4 : R(i) = "medium") = 3
  BY <1>1
<1>6. (CHOOSE i \in 1..4 : R(i) = "high") = 4
  BY <1>1
<1> QED BY <1>2, <1>3, <1>4, <1>5, <1>6

(* No rank is as high as a later one.                                      *)
LEMMA RanksApart == ~(1 >= 2) /\ ~(1 >= 3) /\ ~(1 >= 4) /\ ~(2 >= 3) /\ ~(2 >= 4) /\ ~(3 >= 4)
OBVIOUS

(* A label that ranks as high as another is as strong.                     *)
LEMMA LabelsRank ==
  ASSUME NEW x \in {"", "low", "medium", "high"}, NEW y \in {"", "low", "medium", "high"}, RankOf(y) >= RankOf(x)
  PROVE  (x = "high" => y = "high") /\ (x # "" => y # "") /\ (x = "medium" => y \in {"medium", "high"})
<1>1. ~(1 >= 2) /\ ~(1 >= 3) /\ ~(1 >= 4) /\ ~(2 >= 3) /\ ~(2 >= 4) /\ ~(3 >= 4)
  BY RanksApart
<1>2. CASE x = "high"
  <2>1. y # "" /\ y # "low" /\ y # "medium"
    BY <1>1, <1>2, RanksAre
  <2> QED BY <1>2, <2>1
<1>3. CASE x = "medium"
  <2>1. y # "" /\ y # "low"
    BY <1>1, <1>3, RanksAre
  <2> QED BY <1>3, <2>1
<1>4. CASE x = "low"
  <2>1. y # ""
    BY <1>1, <1>4, RanksAre
  <2> QED BY <1>4, <2>1
<1> QED BY <1>2, <1>3, <1>4

(* RequiresHostContainment asks more of a contract with a higher label or  *)
(* more authority, and a local run's label alone changes nothing; what     *)
(* EnforcePolicy lets through needs no proof, has one, or is signed for as *)
(* it stands: for every contract, configuration and key.                   *)
THEOREM ContainmentIsSound ==
  ASSUME NEW contracts, \A d \in contracts : IsContract(d), NEW c, IsContract(c),
         NEW external \in BOOLEAN, NEW key, NEW tiering \in BOOLEAN
  PROVE  ContainmentSound(c, contracts, external, key, tiering)
<1>1. ASSUME NEW d \in contracts, AsStrict(d, c), RequiresHostContainment(c, tiering)
      PROVE  RequiresHostContainment(d, tiering)
  <2>1. /\ d.runner = c.runner /\ c.authority \subseteq d.authority /\ (c.netForbidden => d.netForbidden)
        /\ RankOf(d.risk) >= RankOf(c.risk)
    BY <1>1 DEF AsStrict
  <2>2. /\ c.risk = "high" => d.risk = "high"
        /\ c.risk # "" => d.risk # ""
        /\ c.risk = "medium" => d.risk \in {"medium", "high"}
    <3>1. d.risk \in {"", "low", "medium", "high"} /\ c.risk \in {"", "low", "medium", "high"}
      BY DEF IsContract
    <3>2. RankOf(d.risk) >= RankOf(c.risk)
      BY <2>1
    <3> QED BY <3>1, <3>2, LabelsRank
  <2>3. c.authority # {} => d.authority # {}
    BY <2>1
  <2> QED BY <1>1, <2>1, <2>2, <2>3 DEF RequiresHostContainment, Effectful, NetworkForbidden
<1>2. ASSUME NEW d \in contracts, d.runner = "local", c.runner = "local", d.risk # "high", c.risk # "high",
             d.authority = c.authority, d.netForbidden = c.netForbidden
      PROVE  RequiresHostContainment(c, tiering) <=> RequiresHostContainment(d, tiering)
  BY <1>2 DEF RequiresHostContainment, Effectful, NetworkForbidden
<1>3. ASSUME EnforcePolicy(c, external, key, tiering)
      PROVE  \/ c.risk # "high" /\ ~c.netForbidden /\ (~tiering \/ c.authority = {} \/ (c.runner = "docker" /\ c.risk # "medium"))
             \/ c.risk = "" /\ c.runner = "docker"
             \/ c.runner = "docker" /\ c.hardened
             \/ c.runner = "local" /\ external
             \/ \E o \in c.override : o.key = key /\ o.signed = <<c.job, [c EXCEPT !.override = {}], {o.reason}>>
  <2>1. CASE ~RequiresHostContainment(c, tiering)
    BY <2>1 DEF RequiresHostContainment, Effectful, NetworkForbidden, IsContract
  <2>2. CASE VerifyOverride(c, key)
    <3>1. PICK o \in c.override : o.key = key /\ o.signed = SigningMessage(c)
      BY <2>2 DEF VerifyOverride
    <3>2. {p.reason : p \in c.override} = {o.reason}
      BY DEF IsContract
    <3>3. o.signed = <<c.job, [c EXCEPT !.override = {}], {o.reason}>>
      BY <3>1, <3>2 DEF SigningMessage
    <3> QED BY <3>1, <3>3
  <2>3. CASE RequiresHostContainment(c, tiering) /\ ~VerifyOverride(c, key)
    BY <1>3, <2>3 DEF EnforcePolicy
  <2> QED BY <2>1, <2>2, <2>3
<1> QED BY <1>1, <1>2, <1>3 DEF ContainmentSound

-----------------------------------------------------------------------------
(* What a stage changed                                                    *)

(* Trees over finitely many paths, none of them empty.                     *)
IsTree(t) == IsFiniteSet(DOMAIN t) /\ "" \notin DOMAIN t

(* Renames so far: each of a path tried and a path gone, and no path twice. *)
RenamesFit(done, tried, gone) ==
  /\ \A e \in done : e = Effect("renamed", e.path, e.from) /\ e.path \in tried /\ e.from \in gone
  /\ \A e, f \in done : e.path = f.path \/ e.from = f.from => e = f

(* RenamesOf pairs created paths with deleted ones, one with one.          *)
LEMMA RenamesAre ==
  ASSUME NEW created, NEW gone, NEW order, NEW N \in Nat, order \in [1..N -> created],
         \A i, j \in 1..N : i # j => order[i] # order[j], NEW byKey, \A k \in DOMAIN byKey : byKey[k] \in gone, NEW after
  PROVE  RenamesFit(RenamesOf(order, byKey, after), created, gone)
<1> DEFINE T == SUBSET [op : {"renamed"}, path : created, from : gone]
           step == [p \in T \X (1..N) |-> Renamed(p[1], order[p[2]], byKey, after)]
           Fits(h) == h = [i \in 0..N |-> IF i = 0 THEN {} ELSE Renamed(h[i - 1], order[i], byKey, after)]
           h == CHOOSE h : Fits(h)
<1>1. Len(order) = N
  OBVIOUS
<1>2. \A t \in T, i \in 1..N : Renamed(t, order[i], byKey, after) \in T
  <2> SUFFICES ASSUME NEW t \in T, NEW i \in 1..N PROVE Renamed(t, order[i], byKey, after) \in T
    OBVIOUS
  <2> DEFINE k == renameKey(after[order[i]])
             e == Effect("renamed", order[i], byKey[k])
  <2>1. Renamed(t, order[i], byKey, after) \in {t, t \cup {e}}
    BY DEF Renamed
  <2>2. Renamed(t, order[i], byKey, after) = t \/ k \in DOMAIN byKey
    BY DEF Renamed
  <2>3. k \in DOMAIN byKey => e \in [op : {"renamed"}, path : created, from : gone]
    BY DEF Effect
  <2> HIDE DEF k, e
  <2> QED BY <2>1, <2>2, <2>3
<1>3. Fits(h)
  <2>1. \A t \in T, i \in 1..N : step[<<t, i>>] = Renamed(t, order[i], byKey, after)
    OBVIOUS
  <2>2. StaysIn(step, T, N)
    BY <1>2, <2>1 DEF StaysIn
  <2> HIDE DEF step
  <2>3. {} \in T
    OBVIOUS
  <2> HIDE DEF T
  <2>4. PICK g : Iterates(g, step, T, {}, N)
    BY <2>2, <2>3, IterationExists
  <2>5. Fits(g)
    <3> SUFFICES ASSUME NEW i \in 0..N PROVE g[i] = IF i = 0 THEN {} ELSE Renamed(g[i - 1], order[i], byKey, after)
      BY <2>4 DEF Iterates
    <3>1. i # 0 => i \in 1..N /\ i - 1 \in 0..N
      OBVIOUS
    <3>2. i # 0 => g[i - 1] \in T /\ g[i] = step[<<g[i - 1], i>>]
      BY <2>4, <3>1 DEF Iterates
    <3>3. g[0] = {}
      BY <2>4 DEF Iterates
    <3> QED BY <2>1, <3>1, <3>2, <3>3
  <2> QED BY <2>5
<1>4. RenamesOf(order, byKey, after) = h[N]
  BY <1>1 DEF RenamesOf
<1> HIDE DEF h, T, step
<1> DEFINE tried(i) == {order[m] : m \in 1..i}
           S == {i \in 0..N : RenamesFit(h[i], tried(i), gone)}
<1>5. 0 \in S
  <2>1. h[0] = {} /\ 0 \in 0..N
    BY <1>3
  <2> QED BY <2>1 DEF RenamesFit
<1>6. \A i \in 0..N : i \in S /\ i < N => i + 1 \in S
  <2> SUFFICES ASSUME NEW i \in 0..N, RenamesFit(h[i], tried(i), gone), i < N PROVE i + 1 \in 0..N /\ RenamesFit(h[i + 1], tried(i + 1), gone)
    OBVIOUS
  <2> DEFINE p == order[i + 1]
             k == renameKey(after[p])
             e == Effect("renamed", p, byKey[k])
             done == h[i]
  <2>1. i + 1 \in 1..N /\ i + 1 \in 0..N /\ i + 1 # 0 /\ (i + 1) - 1 = i
    OBVIOUS
  <2>2. h[i + 1] = Renamed(done, p, byKey, after)
    BY <1>3, <2>1
  <2>3. tried(i) \subseteq tried(i + 1) /\ p \in tried(i + 1)
    BY <2>1
  <2>4. p \notin tried(i)
    <3>1. \A m \in 1..i : m \in 1..N /\ m # i + 1
      OBVIOUS
    <3>2. \A m \in 1..i : order[m] # p
      BY <2>1, <3>1
    <3> QED BY <3>2
  <2>5. CASE h[i + 1] = done
    BY <2>1, <2>3, <2>5 DEF RenamesFit
  <2>6. CASE h[i + 1] = done \cup {e} /\ k \in DOMAIN byKey /\ \A f \in done : f.from # byKey[k]
    <3>1. e = Effect("renamed", e.path, e.from) /\ e.path = p /\ e.from = byKey[k] /\ e.from \in gone
      BY <2>6 DEF Effect
    <3> HIDE DEF e, p, k, done, tried
    <3>2. \A f \in done : f.path # e.path /\ f.from # e.from
      BY <2>4, <2>6, <3>1 DEF RenamesFit, done
    <3>3. \A f \in done \cup {e} : f = Effect("renamed", f.path, f.from) /\ f.path \in tried(i + 1) /\ f.from \in gone
      BY <2>3, <3>1 DEF RenamesFit, done
    <3>4. \A f, g \in done \cup {e} : f.path = g.path \/ f.from = g.from => f = g
      BY <3>2 DEF RenamesFit, done
    <3>5. RenamesFit(h[i + 1], tried(i + 1), gone)
      BY <2>6, <3>3, <3>4 DEF RenamesFit
    <3> QED BY <2>1, <3>5
  <2>7. \/ h[i + 1] = done
        \/ h[i + 1] = done \cup {e} /\ k \in DOMAIN byKey /\ \A f \in done : f.from # byKey[k]
    BY <2>2 DEF Renamed
  <2> QED BY <2>5, <2>6, <2>7
<1>7. N \in S
  <2> HIDE DEF S
  <2>1. \A i \in 0..N : i \in S
    BY <1>5, <1>6, UpTo
  <2> QED BY <2>1
<1>8. tried(N) \subseteq created
  OBVIOUS
<1> HIDE DEF tried
<1> QED BY <1>4, <1>7, <1>8 DEF RenamesFit

(* The effects that touch a path, by what became of it.                    *)
OnPath(p, renamed, created, gone, changed) ==
  {e \in renamed : e.path = p \/ e.from = p}
  \cup {e \in {Effect("created", p, "")} : p \in created /\ \A r \in renamed : r.path # p}
  \cup {e \in {Effect("deleted", p, "")} : p \in gone /\ \A r \in renamed : r.from # p}
  \cup {e \in {Effect("modified", p, "")} : p \in changed}

(* The effects that touch a path.                                          *)
Touching(p, effects) == {e \in effects : p \in Touches(e)}

(* What is no rename touches its own path alone.                           *)
LEMMA TouchesOne == \A op, q : q # "" => Touches(Effect(op, q, "")) = {q}
BY DEF Touches, Effect

(* A path is touched by what became of it and by nothing else.             *)
LEMMA EffectsAre ==
  ASSUME NEW created, NEW gone, NEW changed, NEW renamed, RenamesFit(renamed, created, gone),
         "" \notin created, "" \notin gone, "" \notin changed, NEW p
  PROVE  Touching(p, EffectsOf(renamed, created, gone, changed)) = OnPath(p, renamed, created, gone, changed)
<1> DEFINE F(q) == Effect("created", q, "")
           G(q) == Effect("deleted", q, "")
           H(q) == Effect("modified", q, "")
           effects == EffectsOf(renamed, created, gone, changed)
           touching == OnPath(p, renamed, created, gone, changed)
<1>1. /\ \A q \in created : Touches(F(q)) = {q}
      /\ \A q \in gone : Touches(G(q)) = {q}
      /\ \A q \in changed : Touches(H(q)) = {q}
  BY TouchesOne
<1>2. \A e \in renamed : Touches(e) = {e.path, e.from}
  <2> SUFFICES ASSUME NEW e \in renamed PROVE Touches(e) = {e.path, e.from}
    OBVIOUS
  <2>1. e.path # "" /\ e.from # ""
    BY DEF RenamesFit
  <2> QED BY <2>1 DEF Touches
<1>3. \A e : e \in effects <=>
        \/ e \in renamed
        \/ \E q \in created : (\A r \in renamed : r.path # q) /\ e = F(q)
        \/ \E q \in gone : (\A r \in renamed : r.from # q) /\ e = G(q)
        \/ \E q \in changed : e = H(q)
  BY DEF EffectsOf
<1>4. \A e : e \in touching <=>
        \/ e \in renamed /\ (e.path = p \/ e.from = p)
        \/ e = F(p) /\ p \in created /\ \A r \in renamed : r.path # p
        \/ e = G(p) /\ p \in gone /\ \A r \in renamed : r.from # p
        \/ e = H(p) /\ p \in changed
  BY DEF OnPath
<1> HIDE DEF F, G, H, effects, touching
<1>5. ASSUME NEW e \in effects, p \in Touches(e) PROVE e \in touching
  <2>1. CASE e \in renamed
    BY <1>2, <1>4, <1>5, <2>1
  <2>2. ASSUME NEW q \in created, \A r \in renamed : r.path # q, e = F(q) PROVE e \in touching
    <3>1. Touches(e) = {q}
      BY <1>1, <2>2
    <3>2. p \in {q}
      BY <1>5, <3>1
    <3>3. q = p
      BY <3>2
    <3> QED BY <1>4, <2>2, <3>3
  <2>3. ASSUME NEW q \in gone, \A r \in renamed : r.from # q, e = G(q) PROVE e \in touching
    <3>1. Touches(e) = {q}
      BY <1>1, <2>3
    <3>2. p \in {q}
      BY <1>5, <3>1
    <3>3. q = p
      BY <3>2
    <3> QED BY <1>4, <2>3, <3>3
  <2>4. ASSUME NEW q \in changed, e = H(q) PROVE e \in touching
    <3>1. Touches(e) = {q}
      BY <1>1, <2>4
    <3>2. p \in {q}
      BY <1>5, <3>1
    <3>3. q = p
      BY <3>2
    <3> QED BY <1>4, <2>4, <3>3
  <2> QED BY <1>3, <2>1, <2>2, <2>3, <2>4
<1>6. ASSUME NEW e \in touching PROVE e \in effects /\ p \in Touches(e)
  <2>1. CASE e \in renamed /\ (e.path = p \/ e.from = p)
    <3>1. p \in {e.path, e.from}
      BY <2>1
    <3> QED BY <1>2, <1>3, <2>1, <3>1
  <2>2. CASE e = F(p) /\ p \in created /\ \A r \in renamed : r.path # p
    BY <1>1, <1>3, <2>2
  <2>3. CASE e = G(p) /\ p \in gone /\ \A r \in renamed : r.from # p
    BY <1>1, <1>3, <2>3
  <2>4. CASE e = H(p) /\ p \in changed
    BY <1>1, <1>3, <2>4
  <2>5. \/ e \in renamed /\ (e.path = p \/ e.from = p)
        \/ e = F(p) /\ p \in created /\ \A r \in renamed : r.path # p
        \/ e = G(p) /\ p \in gone /\ \A r \in renamed : r.from # p
        \/ e = H(p) /\ p \in changed
    BY <1>4, <1>6
  <2> QED BY <2>1, <2>2, <2>3, <2>4, <2>5
<1>7. Touching(p, effects) = touching
  BY <1>5, <1>6 DEF Touching
<1> QED BY <1>7 DEF effects, touching

(* The walk over Go's maps takes any order and pairs a key with any of its *)
(* paths: whichever, reconcileWriteSet gives every path that differs one   *)
(* effect, every path that does not none, and renames only what went to    *)
(* what came: for every pair of trees, however their inodes coincide.      *)
THEOREM WriteSetsAreSound ==
  ASSUME NEW before, IsTree(before), NEW after, IsTree(after)
  PROVE  WriteSetSound(before, after)
<1> DEFINE b == snapshotWriteRoots(before)
           a == snapshotWriteRoots(after)
           created == DOMAIN a \ DOMAIN b
           gone == DOMAIN b \ DOMAIN a
           changed == {p \in DOMAIN b \cap DOMAIN a : b[p] # a[p]}
           keys == {renameKey(b[p]) : p \in gone} \ {NoKey}
<1>1. /\ DOMAIN b \subseteq DOMAIN before /\ DOMAIN a \subseteq DOMAIN after
      /\ "" \notin DOMAIN b /\ "" \notin DOMAIN a
  BY DEF snapshotWriteRoots, IsTree
<1>2. Cardinality(created) \in Nat
  <2>1. IsFiniteSet(created)
    BY <1>1, FS_Subset DEF IsTree
  <2> QED BY <2>1, FS_CardinalityType
<1> HIDE DEF b, a
<1> SUFFICES ASSUME NEW effects \in reconcileWriteSet(b, a)
             PROVE  /\ \A p \in DOMAIN before \cup DOMAIN after :
                         Cardinality({e \in effects : p \in Touches(e)}) = IF Differs(p, b, a) THEN 1 ELSE 0
                    /\ \A e \in effects : e.op = "renamed" => e.path \in created /\ e.from \in gone
  BY DEF WriteSetSound, b, a
<1>3. PICK order \in SetToSeqs(created), byKey \in [keys -> gone] :
        effects = EffectsOf(RenamesOf(order, byKey, a), created, gone, changed)
  <2> DEFINE Out(order, byKey) == EffectsOf(RenamesOf(order, byKey, a), created, gone, changed)
             Pairings == {f \in [keys -> gone] : \A k \in keys : renameKey(b[f[k]]) = k}
  <2>1. reconcileWriteSet(b, a) = {Out(order, byKey) : order \in SetToSeqs(created), byKey \in Pairings}
    BY DEF reconcileWriteSet
  <2>2. Pairings \subseteq [keys -> gone]
    OBVIOUS
  <2> HIDE DEF Out, Pairings, created, gone, keys, changed
  <2>3. PICK order \in SetToSeqs(created), byKey \in Pairings : effects = Out(order, byKey)
    BY <2>1
  <2>4. byKey \in [keys -> gone] /\ effects = Out(order, byKey)
    BY <2>2, <2>3
  <2> QED BY <2>4 DEF Out
<1> DEFINE renamed == RenamesOf(order, byKey, a)
<1>4. RenamesFit(renamed, created, gone)
  <2> DEFINE N == Cardinality(created)
  <2>1. order \in [1..N -> created] /\ \A i, j \in 1..N : i # j => order[i] # order[j]
    BY DEF SetToSeqs, IsInjective
  <2>2. \A k \in DOMAIN byKey : byKey[k] \in gone
    OBVIOUS
  <2> HIDE DEF N, created, gone, keys
  <2> QED BY <1>2, <2>1, <2>2, RenamesAre DEF N
<1>5. effects = EffectsOf(renamed, created, gone, changed)
  BY <1>3
<1> HIDE DEF renamed
<1>6. "" \notin created /\ "" \notin gone /\ "" \notin changed
  BY <1>1
<1>7. ASSUME NEW p PROVE Cardinality({e \in effects : p \in Touches(e)}) = IF Differs(p, b, a) THEN 1 ELSE 0
  <2> DEFINE R == {e \in renamed : e.path = p \/ e.from = p}
             C == {e \in {Effect("created", p, "")} : p \in created /\ \A r \in renamed : r.path # p}
             D == {e \in {Effect("deleted", p, "")} : p \in gone /\ \A r \in renamed : r.from # p}
             M == {e \in {Effect("modified", p, "")} : p \in changed}
             touching == Touching(p, effects)
  <2>1. touching = R \cup C \cup D \cup M
    <3>1. R \cup C \cup D \cup M = OnPath(p, renamed, created, gone, changed)
      BY DEF OnPath
    <3> HIDE DEF created, gone, changed, R, C, D, M
    <3>2. Touching(p, EffectsOf(renamed, created, gone, changed)) = OnPath(p, renamed, created, gone, changed)
      BY <1>4, <1>6, EffectsAre
    <3> QED BY <1>5, <3>1, <3>2
  <2>2. Differs(p, b, a) <=> p \in created \/ p \in gone \/ p \in changed
    BY DEF Differs
  <2>3. ~(p \in created /\ p \in gone) /\ ~(p \in created /\ p \in changed) /\ ~(p \in gone /\ p \in changed)
    OBVIOUS
  <2>4. \A e \in renamed : e.path \in created /\ e.from \in gone
    BY <1>4 DEF RenamesFit
  <2>5. \A e, f \in renamed : e.path = f.path \/ e.from = f.from => e = f
    BY <1>4 DEF RenamesFit
  <2> SUFFICES Cardinality(touching) = IF Differs(p, b, a) THEN 1 ELSE 0
    BY DEF Touching
  <2> HIDE DEF created, gone, changed, touching
  <2>6. CASE p \notin created /\ p \notin gone /\ p \notin changed
    <3>1. touching = {}
      BY <2>1, <2>4, <2>6
    <3> QED BY <2>2, <2>6, <3>1, FS_EmptySet
  <2>7. ASSUME NEW e, touching = {e}, p \in created \/ p \in gone \/ p \in changed
        PROVE  Cardinality(touching) = IF Differs(p, b, a) THEN 1 ELSE 0
    BY <2>2, <2>7, FS_Singleton
  <2>8. CASE p \in changed
    <3>1. touching = {Effect("modified", p, "")}
      BY <2>1, <2>3, <2>4, <2>8
    <3> QED BY <2>7, <2>8, <3>1
  <2>9. ASSUME p \in created \/ p \in gone, NEW r \in renamed, r.path = p \/ r.from = p
        PROVE  touching = {r}
    <3>1. R = {r}
      BY <2>3, <2>4, <2>5, <2>9
    <3>2. C = {} /\ D = {} /\ M = {}
      BY <2>3, <2>4, <2>9
    <3> QED BY <2>1, <3>1, <3>2
  <2>10. CASE p \in created
    <3>1. CASE \E r \in renamed : r.path = p
      BY <2>7, <2>9, <2>10, <3>1
    <3>2. CASE \A r \in renamed : r.path # p
      <4>1. touching = {Effect("created", p, "")}
        BY <2>1, <2>3, <2>4, <2>10, <3>2
      <4> QED BY <2>7, <2>10, <4>1
    <3> QED BY <3>1, <3>2
  <2>11. CASE p \in gone
    <3>1. CASE \E r \in renamed : r.from = p
      BY <2>7, <2>9, <2>11, <3>1
    <3>2. CASE \A r \in renamed : r.from # p
      <4>1. touching = {Effect("deleted", p, "")}
        BY <2>1, <2>3, <2>4, <2>11, <3>2
      <4> QED BY <2>7, <2>11, <4>1
    <3> QED BY <3>1, <3>2
  <2> QED BY <2>6, <2>8, <2>10, <2>11
<1>8. ASSUME NEW e \in effects, e.op = "renamed" PROVE e.path \in created /\ e.from \in gone
  <2>1. \A q : /\ Effect("created", q, "").op = "created" /\ Effect("deleted", q, "").op = "deleted"
              /\ Effect("modified", q, "").op = "modified"
    BY DEF Effect
  <2>2. e \in renamed
    <3> HIDE DEF created, gone, changed
    <3> QED BY <1>5, <1>8, <2>1 DEF EffectsOf
  <2> QED BY <1>4, <2>2 DEF RenamesFit
<1> QED BY <1>7, <1>8

-----------------------------------------------------------------------------
(* Patterns                                                                *)

(* r holds the positions each prefix of p can end at in n.                 *)
Ends(r, p, n, separators) ==
  /\ r[0] = {0} /\ \A k \in 0..Len(p) : r[k] \subseteq 0..Len(n)
  /\ \A k \in 1..Len(p) : r[k] = Advance(r[k - 1], p[k], n, separators)

(* One more symbol ends within n.                                          *)
LEMMA AdvanceIn ==
  ASSUME NEW at, NEW s, NEW n, Len(n) \in Nat, NEW separators
  PROVE  Advance(at, s, n, separators) \subseteq 0..Len(n)
<1>1. 1..Len(n) \subseteq 0..Len(n)
  OBVIOUS
<1>2. CASE s = "**"
  BY <1>2 DEF Advance
<1>3. CASE s = "*"
  BY <1>3 DEF Advance
<1>4. CASE s = "?"
  BY <1>1, <1>4 DEF Advance
<1>5. CASE s \notin {"**", "*", "?"}
  BY <1>1, <1>5 DEF Advance
<1> QED BY <1>2, <1>3, <1>4, <1>5

(* Reach has a solution.                                                   *)
LEMMA ReachIs ==
  ASSUME NEW p, Len(p) \in Nat, NEW n, Len(n) \in Nat, NEW separators
  PROVE  Ends(Reach(p, n, separators), p, n, separators)
<1> DEFINE T == SUBSET (0..Len(n))
           N == Len(p)
           step == [x \in T \X (1..N) |-> Advance(x[1], p[x[2]], n, separators)]
           Fits(at) == at = [k \in 0..N |-> IF k = 0 THEN {0} ELSE Advance(at[k - 1], p[k], n, separators)]
           r == CHOOSE at : Fits(at)
<1>1. \A t \in T, k \in 1..N : Advance(t, p[k], n, separators) \in T
  BY AdvanceIn
<1>2. Fits(r)
  <2>1. \A t \in T, k \in 1..N : step[<<t, k>>] = Advance(t, p[k], n, separators)
    OBVIOUS
  <2> HIDE DEF step
  <2>2. StaysIn(step, T, N)
    BY <1>1, <2>1 DEF StaysIn
  <2>3. {0} \in T
    OBVIOUS
  <2> HIDE DEF T
  <2>4. PICK g : Iterates(g, step, T, {0}, N)
    BY <2>2, <2>3, IterationExists
  <2>5. Fits(g)
    <3> SUFFICES ASSUME NEW k \in 0..N PROVE g[k] = IF k = 0 THEN {0} ELSE Advance(g[k - 1], p[k], n, separators)
      BY <2>4 DEF Iterates
    <3>1. k # 0 => k \in 1..N /\ k - 1 \in 0..N
      OBVIOUS
    <3>2. k # 0 => g[k - 1] \in T /\ g[k] = step[<<g[k - 1], k>>]
      BY <2>4, <3>1 DEF Iterates
    <3>3. g[0] = {0}
      BY <2>4 DEF Iterates
    <3> QED BY <2>1, <3>1, <3>2, <3>3
  <2> QED BY <2>5
<1>3. Reach(p, n, separators) = r
  BY DEF Reach
<1> HIDE DEF r
<1>4. r[0] = {0} /\ \A k \in 1..N : r[k] = Advance(r[k - 1], p[k], n, separators)
  <2>1. 0 \in 0..N /\ \A k \in 1..N : k \in 0..N /\ k # 0
    OBVIOUS
  <2> QED BY <1>2, <2>1
<1>5. \A k \in 0..N : r[k] \subseteq 0..Len(n)
  <2> SUFFICES ASSUME NEW k \in 0..N PROVE r[k] \subseteq 0..Len(n)
    OBVIOUS
  <2>1. CASE k = 0
    BY <1>4, <2>1
  <2>2. CASE k \in 1..N
    BY <1>4, <2>2, AdvanceIn
  <2> QED BY <2>1, <2>2
<1> QED BY <1>3, <1>4, <1>5 DEF Ends

(* A name begins with the first symbols of a pattern, as they stand.       *)
Begins(n, p, k) == k <= Len(n) /\ \A i \in 1..k : n[i] = p[i]

(* Every name begins with none, and with one more if that is the next.     *)
LEMMA BeginsMore ==
  ASSUME NEW p, NEW n, Len(n) \in Nat, NEW k \in Nat
  PROVE  /\ Begins(n, p, 0)
         /\ Begins(n, p, k + 1) <=> Begins(n, p, k) /\ k + 1 <= Len(n) /\ n[k + 1] = p[k + 1]
<1>1. Begins(n, p, 0)
  BY DEF Begins
<1>2. ASSUME Begins(n, p, k + 1) PROVE Begins(n, p, k) /\ k + 1 <= Len(n) /\ n[k + 1] = p[k + 1]
  <2>1. k + 1 \in 1..k + 1 /\ \A i \in 1..k : i \in 1..k + 1
    OBVIOUS
  <2> QED BY <1>2, <2>1 DEF Begins
<1>3. ASSUME Begins(n, p, k), k + 1 <= Len(n), n[k + 1] = p[k + 1] PROVE Begins(n, p, k + 1)
  <2>1. \A i \in 1..k + 1 : i \in 1..k \/ i = k + 1
    OBVIOUS
  <2> QED BY <1>3, <2>1 DEF Begins
<1> QED BY <1>1, <1>2, <1>3

(* A letter takes what ended before it one further.                        *)
LEMMA AdvanceLetter ==
  ASSUME NEW at, NEW s, s \notin {"**", "*", "?"}, NEW n, NEW separators
  PROVE  Advance(at, s, n, separators) = {j \in 1..Len(n) : j - 1 \in at /\ n[j] = s}
BY DEF Advance

(* A letter of a pattern stands for itself.                                *)
LEMMA LettersReach ==
  ASSUME NEW p, Len(p) \in Nat, NEW n, Len(n) \in Nat, NEW separators, NEW K \in 0..Len(p),
         \A i \in 1..K : p[i] \notin {"**", "*", "?"}, NEW r, Ends(r, p, n, separators), NEW m \in 0..K
  PROVE  r[m] = IF Begins(n, p, m) THEN {m} ELSE {}
<1> DEFINE S == {k \in 0..K : r[k] = IF Begins(n, p, k) THEN {k} ELSE {}}
<1>1. 0 \in S
  <2>1. r[0] = {0} /\ Begins(n, p, 0)
    BY BeginsMore DEF Ends
  <2> QED BY <2>1
<1>2. \A k \in 0..K : k \in S /\ k < K => k + 1 \in S
  <2> SUFFICES ASSUME NEW k \in 0..K, k \in S, k < K
               PROVE  r[k + 1] = IF Begins(n, p, k + 1) THEN {k + 1} ELSE {}
    <3>1. \A k \in 0..K : k < K => k + 1 \in 0..K
      OBVIOUS
    <3> QED BY <3>1
  <2>1. k + 1 \in 1..Len(p) /\ k + 1 \in 1..K /\ (k + 1) - 1 = k /\ k \in Nat
    OBVIOUS
  <2>2. p[k + 1] \notin {"**", "*", "?"}
    BY <2>1
  <2>3. r[k + 1] = Advance(r[k], p[k + 1], n, separators)
    BY <2>1 DEF Ends
  <2>4. r[k + 1] = {j \in 1..Len(n) : j - 1 \in r[k] /\ n[j] = p[k + 1]}
    BY <2>2, <2>3, AdvanceLetter
  <2>5. Begins(n, p, k + 1) <=> Begins(n, p, k) /\ k + 1 <= Len(n) /\ n[k + 1] = p[k + 1]
    BY <2>1, BeginsMore
  <2>6. r[k] = IF Begins(n, p, k) THEN {k} ELSE {}
    OBVIOUS
  <2>7. \A j \in 1..Len(n) : j - 1 = k <=> j = k + 1
    BY <2>1
  <2> HIDE DEF S
  <2>8. CASE Begins(n, p, k)
    <3>1. r[k + 1] = {j \in 1..Len(n) : j = k + 1 /\ n[k + 1] = p[k + 1]}
      BY <2>4, <2>6, <2>7, <2>8
    <3>2. k + 1 \in 1..Len(n) <=> k + 1 <= Len(n)
      BY <2>1
    <3> QED BY <2>5, <2>8, <3>1, <3>2
  <2>9. CASE ~Begins(n, p, k)
    BY <2>4, <2>5, <2>6, <2>9
  <2> QED BY <2>8, <2>9
<1>3. m \in S
  <2> HIDE DEF S
  <2>a. K \in Nat
    OBVIOUS
  <2>1. \A k \in 0..K : k \in S
    BY ONLY <1>1, <1>2, <2>a, UpTo
  <2> QED BY <2>1
<1> QED BY <1>3

(* What cannot begin cannot end.                                           *)
LEMMA DeadStays ==
  ASSUME NEW p, Len(p) \in Nat, NEW n, Len(n) \in Nat, NEW separators,
         NEW r, Ends(r, p, n, separators), NEW K \in 0..Len(p), r[K] = {}
  PROVE  r[Len(p)] = {}
<1> DEFINE N == Len(p)
           S == {k \in 0..N : k >= K => r[k] = {}}
<1>1. 0 \in S
  BY DEF Ends
<1>2. \A k \in 0..N : k \in S /\ k < N => k + 1 \in S
  <2> SUFFICES ASSUME NEW k \in 0..N, k \in S, k < N, k + 1 >= K PROVE r[k + 1] = {}
    OBVIOUS
  <2>1. CASE K = k + 1
    BY <2>1
  <2>2. CASE K # k + 1
    <3>1. r[k] = {}
      BY <2>2
    <3>2. k + 1 \in 1..N /\ (k + 1) - 1 = k
      OBVIOUS
    <3>3. r[k + 1] = Advance({}, p[k + 1], n, separators)
      BY <3>1, <3>2 DEF Ends
    <3>4. \A s : Advance({}, s, n, separators) = {}
      BY DEF Advance
    <3> QED BY <3>3, <3>4
  <2> QED BY <2>1, <2>2
<1>3. N \in S
  <2> HIDE DEF S
  <2>1. \A k \in 0..N : k \in S
    BY <1>1, <1>2, UpTo
  <2> QED BY <2>1
<1> QED BY <1>3

(* A name that matches begins with the letters its pattern begins with.    *)
LEMMA LettersForced ==
  ASSUME NEW p, Len(p) \in Nat, NEW n, Len(n) \in Nat, glob(p, n), NEW K \in 0..Len(p),
         \A i \in 1..K : p[i] \notin {"**", "*", "?"}
  PROVE  Begins(n, p, K)
<1> DEFINE r == Reach(p, n, {"/"})
<1>1. Ends(r, p, n, {"/"})
  BY ReachIs
<1>2. Len(n) \in r[Len(p)]
  BY DEF glob
<1> HIDE DEF r
<1>3. r[K] # {}
  BY <1>1, <1>2, DeadStays
<1>4. r[K] = IF Begins(n, p, K) THEN {K} ELSE {}
  <2>1. K \in 0..K
    OBVIOUS
  <2> QED BY <1>1, <2>1, LettersReach
<1> QED BY <1>3, <1>4

(* A name that begins with the letters of a directory matches all below.   *)
LEMMA AllBelow ==
  ASSUME NEW c, Len(c) \in Nat, NEW K \in 0..Len(c), Len(c) = K + 1, c[K + 1] = "**", NEW n, Len(n) \in Nat, Begins(n, c, K),
         \A i \in 1..K : c[i] \notin {"**", "*", "?"}
  PROVE  glob(c, n)
<1> DEFINE r == Reach(c, n, {"/"})
<1>1. K + 1 \in 1..Len(c) /\ (K + 1) - 1 = K
  OBVIOUS
<1>2. Ends(r, c, n, {"/"})
  BY ReachIs
<1> HIDE DEF r
<1>3. r[K] = IF Begins(n, c, K) THEN {K} ELSE {}
  <2> DEFINE N == Len(c)
  <2>1. N \in Nat /\ K \in 0..N /\ K \in 0..K
    OBVIOUS
  <2>2. \A i \in 1..K : c[i] \notin {"**", "*", "?"}
    OBVIOUS
  <2> QED BY ONLY <1>2, <2>1, <2>2, LettersReach, Len(n) \in Nat
<1>4. K \in r[K] /\ K <= Len(n)
  BY <1>3 DEF Begins
<1>5. r[K + 1] = Advance(r[K], "**", n, {"/"})
  BY <1>1, <1>2 DEF Ends
<1>6. r[K + 1] = {j \in 0..Len(n) : \E i \in r[K] : i <= j}
  BY <1>5 DEF Advance
<1>7. Len(n) \in r[K + 1]
  BY <1>4, <1>6
<1> QED BY <1>7 DEF glob, r

(* A pattern of letters matches itself and nothing else.                   *)
LEMMA LettersMatch ==
  ASSUME NEW p, Len(p) \in Nat, NEW n, Len(n) \in Nat, NEW separators, \A i \in 1..Len(p) : p[i] \notin {"**", "*", "?"}
  PROVE  Len(n) \in Reach(p, n, separators)[Len(p)] <=> Len(n) = Len(p) /\ Begins(n, p, Len(p))
<1> DEFINE r == Reach(p, n, separators)
<1>1. Ends(r, p, n, separators) /\ Len(p) \in 0..Len(p)
  BY ReachIs
<1> HIDE DEF r
<1>2. r[Len(p)] = IF Begins(n, p, Len(p)) THEN {Len(p)} ELSE {}
  BY <1>1, LettersReach
<1> QED BY <1>2 DEF r

(* Sequences of one length that begin alike are equal.                     *)
LEMMA BeginsEqual ==
  ASSUME NEW S, NEW p \in Seq(S), NEW n \in Seq(S), Len(n) = Len(p), Begins(n, p, Len(p))
  PROVE  n = p
<1>1. \A i \in 1..Len(p) : n[i] = p[i]
  BY DEF Begins
<1> QED BY <1>1

(* What precedes the first wildcard is letters.                            *)
LEMMA FirstWildIs ==
  ASSUME NEW p, Len(p) \in Nat, ~IsLiteral(p)
  PROVE  FirstWild(p) \in 1..Len(p) /\ \A j \in 1..FirstWild(p) - 1 : p[j] \notin Wild
<1> DEFINE wild == {i \in 1..Len(p) : p[i] \in Wild}
<1>1. wild # {} /\ wild \subseteq Nat
  BY DEF IsLiteral
<1>2. PICK f \in wild : \A j \in wild : f <= j
  <2> HIDE DEF wild
  <2> QED BY <1>1, LeastNumber
<1>3. \A j \in 1..f - 1 : j \in 1..Len(p) /\ ~(f <= j)
  OBVIOUS
<1>4. \A j \in 1..f - 1 : p[j] \notin Wild
  BY <1>2, <1>3
<1>5. f \in 1..Len(p) /\ p[f] \in Wild
  BY <1>2
<1> HIDE DEF W
<1>6. \E i \in 1..Len(p) : p[i] \in Wild /\ \A j \in 1..i - 1 : p[j] \notin Wild
  BY <1>4, <1>5
<1> QED BY <1>6 DEF FirstWild

(* What has ended at a position has as many slashes as the name has there. *)
SlashesTo(s, k) == Cardinality({i \in 1..k : s[i] = "/"})

LEMMA SlashesMore ==
  ASSUME NEW s, NEW k \in Nat
  PROVE  /\ SlashesTo(s, 0) = 0 /\ SlashesTo(s, k) \in Nat
         /\ SlashesTo(s, k + 1) = IF s[k + 1] = "/" THEN SlashesTo(s, k) + 1 ELSE SlashesTo(s, k)
<1> DEFINE A(m) == {i \in 1..m : s[i] = "/"}
<1>1. IsFiniteSet(A(k)) /\ Cardinality(A(k)) \in Nat
  <2>1. IsFiniteSet(1..k)
    BY FS_Interval
  <2>2. IsFiniteSet(A(k))
    BY <2>1, FS_Subset
  <2> HIDE DEF A
  <2> QED BY <2>2, FS_CardinalityType
<1>2. A(0) = {}
  OBVIOUS
<1>3. k + 1 \notin A(k)
  OBVIOUS
<1>4. A(k + 1) = IF s[k + 1] = "/" THEN A(k) \cup {k + 1} ELSE A(k)
  <2>1. 1..k + 1 = 1..k \cup {k + 1}
    OBVIOUS
  <2> QED BY <2>1
<1>5. SlashesTo(s, 0) = Cardinality(A(0)) /\ SlashesTo(s, k) = Cardinality(A(k)) /\ SlashesTo(s, k + 1) = Cardinality(A(k + 1))
  BY DEF SlashesTo
<1> HIDE DEF A
<1>6. Cardinality(A(k) \cup {k + 1}) = Cardinality(A(k)) + 1
  BY <1>1, <1>3, FS_AddElement
<1> QED BY <1>1, <1>2, <1>4, <1>5, <1>6, FS_EmptySet

(* Without "**", what ends at a position has the slashes the name has.     *)
LEMMA SlashesAgree ==
  ASSUME NEW p, Len(p) \in Nat, NEW n, Len(n) \in Nat, \A i \in 1..Len(p) : p[i] # "**",
         NEW r, Ends(r, p, n, {"/"}), NEW m \in 0..Len(p), NEW e \in r[m]
  PROVE  SlashesTo(p, m) = SlashesTo(n, e)
<1> DEFINE Same(k) == \A j \in r[k] : SlashesTo(p, k) = SlashesTo(n, j)
           S == {k \in 0..Len(p) : Same(k)}
<1>1. 0 \in S
  <2>1. r[0] = {0} /\ SlashesTo(p, 0) = 0 /\ SlashesTo(n, 0) = 0
    BY SlashesMore DEF Ends
  <2> QED BY <2>1
<1>2. \A k \in 0..Len(p) : k \in S /\ k < Len(p) => k + 1 \in S
  <2> SUFFICES ASSUME NEW k \in 0..Len(p), Same(k), k < Len(p) PROVE Same(k + 1)
    <3>1. \A k \in 0..Len(p) : k < Len(p) => k + 1 \in 0..Len(p)
      OBVIOUS
    <3> QED BY <3>1
  <2>1. k + 1 \in 1..Len(p) /\ (k + 1) - 1 = k /\ k \in Nat
    OBVIOUS
  <2> DEFINE s == p[k + 1]
  <2>2. r[k + 1] = Advance(r[k], s, n, {"/"}) /\ s # "**"
    BY <2>1 DEF Ends
  <2>3. SlashesTo(p, k + 1) = IF s = "/" THEN SlashesTo(p, k) + 1 ELSE SlashesTo(p, k)
    BY <2>1, SlashesMore
  <2>4. r[k] \subseteq 0..Len(n)
    BY DEF Ends
  <2>5. \A j \in r[k] : SlashesTo(p, k) = SlashesTo(n, j)
    OBVIOUS
  <2> HIDE DEF s, S, Same
  <2>6. CASE s = "*"
    <3> SUFFICES ASSUME NEW j \in r[k + 1] PROVE SlashesTo(p, k + 1) = SlashesTo(n, j)
      BY DEF Same
    <3>1. PICK i \in r[k] : j \in 0..Len(n) /\ i <= j /\ \A x \in i + 1..j : n[x] \notin {"/"}
      BY <2>2, <2>6 DEF Advance
    <3>2. {x \in 1..j : n[x] = "/"} = {x \in 1..i : n[x] = "/"}
      <4>1. i \in Nat /\ j \in Nat
        BY <2>4, <3>1
      <4>2. \A x \in 1..j : x \in 1..i \/ x \in i + 1..j
        BY <4>1
      <4>3. \A x \in 1..i : x \in 1..j
        BY <3>1, <4>1
      <4> QED BY <3>1, <4>2, <4>3
    <3>3. SlashesTo(n, j) = SlashesTo(n, i)
      BY <3>2 DEF SlashesTo
    <3>4. s # "/"
      BY <2>6
    <3> QED BY <2>3, <2>5, <3>3, <3>4
  <2>7. CASE s # "*"
    <3> SUFFICES ASSUME NEW j \in r[k + 1] PROVE SlashesTo(p, k + 1) = SlashesTo(n, j)
      BY DEF Same
    <3>1. j \in 1..Len(n) /\ j - 1 \in r[k] /\ (n[j] = "/" <=> s = "/")
      <4>1. CASE s = "?"
        <5>1. j \in {x \in 1..Len(n) : x - 1 \in r[k] /\ n[x] \notin {"/"}}
          BY <2>2, <4>1 DEF Advance
        <5> QED BY <4>1, <5>1
      <4>2. CASE s # "?"
        <5>1. s \notin {"**", "*", "?"}
          BY <2>2, <2>7, <4>2
        <5>2. j \in {x \in 1..Len(n) : x - 1 \in r[k] /\ n[x] = s}
          BY <2>2, <5>1, AdvanceLetter
        <5> QED BY <5>2
      <4> QED BY <4>1, <4>2
    <3>2. j - 1 \in Nat /\ (j - 1) + 1 = j
      BY <3>1
    <3>3. SlashesTo(n, j) = IF n[j] = "/" THEN SlashesTo(n, j - 1) + 1 ELSE SlashesTo(n, j - 1)
      <4>1. SlashesTo(n, (j - 1) + 1) = IF n[(j - 1) + 1] = "/" THEN SlashesTo(n, j - 1) + 1 ELSE SlashesTo(n, j - 1)
        BY <3>2, SlashesMore
      <4> QED BY <3>2, <4>1
    <3>4. SlashesTo(p, k) = SlashesTo(n, j - 1)
      BY <2>5, <3>1
    <3> QED BY <2>3, <3>1, <3>3, <3>4
  <2> QED BY <2>6, <2>7
<1>3. m \in S
  <2> HIDE DEF S
  <2>1. \A k \in 0..Len(p) : k \in S
    BY <1>1, <1>2, UpTo
  <2> QED BY <2>1
<1> QED BY <1>3

(* Separators only hinder.                                                 *)
LEMMA SeparatorsHinder ==
  ASSUME NEW p, Len(p) \in Nat, NEW n, Len(n) \in Nat, NEW separators, NEW r, Ends(r, p, n, separators),
         NEW q, Ends(q, p, n, {}), NEW m \in 0..Len(p)
  PROVE  r[m] \subseteq q[m]
<1> DEFINE S == {k \in 0..Len(p) : r[k] \subseteq q[k]}
<1>1. 0 \in S
  BY DEF Ends
<1>2. \A k \in 0..Len(p) : k \in S /\ k < Len(p) => k + 1 \in S
  <2> SUFFICES ASSUME NEW k \in 0..Len(p), r[k] \subseteq q[k], k < Len(p) PROVE r[k + 1] \subseteq q[k + 1]
    <3>1. \A k \in 0..Len(p) : k < Len(p) => k + 1 \in 0..Len(p)
      OBVIOUS
    <3> QED BY <3>1
  <2>1. k + 1 \in 1..Len(p) /\ (k + 1) - 1 = k
    OBVIOUS
  <2>2. r[k + 1] = Advance(r[k], p[k + 1], n, separators) /\ q[k + 1] = Advance(q[k], p[k + 1], n, {})
    BY <2>1 DEF Ends
  <2>3. ASSUME NEW a, NEW b, a \subseteq b, NEW s PROVE Advance(a, s, n, separators) \subseteq Advance(b, s, n, {})
    <3>1. CASE s = "**"
      BY <2>3, <3>1 DEF Advance
    <3>2. CASE s = "*"
      BY <2>3, <3>2 DEF Advance
    <3>3. CASE s = "?"
      BY <2>3, <3>3 DEF Advance
    <3>4. CASE s \notin {"**", "*", "?"}
      BY <2>3, <3>4, AdvanceLetter
    <3> QED BY <3>1, <3>2, <3>3, <3>4
  <2> QED BY <2>2, <2>3
<1>3. m \in S
  <2> HIDE DEF S
  <2>1. \A k \in 0..Len(p) : k \in S
    BY <1>1, <1>2, UpTo
  <2> QED BY <2>1
<1> QED BY <1>3

(* Copied from a name and cut with a "*", a command pattern matches it.    *)
LEMMA CutMatches ==
  ASSUME NEW S, NEW n \in Seq(S), NEW i \in 1..Len(n) + 1, NEW p, p = SubSeq(n, 1, i - 1) \o <<"*">>
  PROVE  commandMatches(p, n)
<1>1. Len(p) = i /\ p[i] = "*" /\ \A k \in 1..i - 1 : p[k] = n[k]
  <2> DEFINE h == SubSeq(n, 1, i - 1)
  <2>1. h \in Seq(S) /\ Len(h) = i - 1 /\ \A k \in 1..i - 1 : h[k] = n[k]
    OBVIOUS
  <2> HIDE DEF h
  <2>2. p = h \o <<"*">>
    BY DEF h
  <2>3. Len(p) = i
    BY <2>1, <2>2
  <2>4. p[i] = "*"
    BY <2>1, <2>2
  <2>5. \A k \in 1..i - 1 : p[k] = h[k]
    BY <2>1, <2>2
  <2> QED BY <2>1, <2>3, <2>4, <2>5
<1> DEFINE r == Reach(p, n, {})
           T == {k \in 0..i - 1 : k \in r[k]}
<1>2. Len(p) \in Nat /\ Len(n) \in Nat /\ i - 1 \in Nat /\ i - 1 <= Len(n)
  BY <1>1
<1>3. Ends(r, p, n, {})
  BY <1>2, ReachIs
<1> HIDE DEF r
<1>4. 0 \in T
  BY <1>2, <1>3 DEF Ends
<1>5. \A k \in 0..i - 1 : k \in T /\ k < i - 1 => k + 1 \in T
  <2> SUFFICES ASSUME NEW k \in 0..i - 1, k \in r[k], k < i - 1 PROVE k + 1 \in r[k + 1] /\ k + 1 \in 0..i - 1
    OBVIOUS
  <2>1. k + 1 \in 1..Len(p) /\ k + 1 \in 1..i - 1 /\ k + 1 \in 1..Len(n) /\ k + 1 \in 0..Len(n) /\ (k + 1) - 1 = k /\ k <= k + 1
    BY <1>1
  <2>2. r[k + 1] = Advance(r[k], n[k + 1], n, {})
    BY <1>1, <1>3, <2>1 DEF Ends
  <2> DEFINE s == n[k + 1]
             j == k + 1
  <2> HIDE DEF j
  <2>3. j \in 1..Len(n) /\ j \in 0..Len(n) /\ j - 1 = k /\ k <= j /\ n[j] = s
    BY <2>1 DEF j
  <2> HIDE DEF s
  <2>4. j \in Advance(r[k], s, n, {})
    <3>1. CASE s = "**"
      BY <2>3, <3>1 DEF Advance
    <3>2. CASE s = "*"
      BY <2>3, <3>2 DEF Advance
    <3>3. CASE s = "?"
      BY <2>3, <3>3 DEF Advance
    <3>4. CASE s \notin {"**", "*", "?"}
      BY <2>3, <3>4, AdvanceLetter
    <3> QED BY <3>1, <3>2, <3>3, <3>4
  <2> QED BY <2>1, <2>2, <2>4 DEF j, s
<1>6. i - 1 \in r[i - 1]
  <2> HIDE DEF T
  <2>1. \A k \in 0..i - 1 : k \in T
    BY <1>2, <1>4, <1>5, UpTo
  <2>2. i - 1 \in T
    BY <1>2, <2>1
  <2> QED BY <2>2 DEF T
<1>7. r[i] = Advance(r[i - 1], "*", n, {})
  <2>1. i \in 1..Len(p)
    BY <1>1
  <2> QED BY <1>1, <1>3, <2>1 DEF Ends
<1>8. r[i] = {j \in 0..Len(n) : \E x \in r[i - 1] : x <= j /\ \A k \in x + 1..j : n[k] \notin {}}
  BY <1>7 DEF Advance
<1>9. Len(n) \in r[i]
  BY <1>2, <1>6, <1>8
<1> QED BY <1>1, <1>9 DEF commandMatches, r

(* A path pattern's "*" stays in its component and its letters stand for   *)
(* themselves; a command pattern matches whatever a path pattern does, and *)
(* a "*" that ends it matches all that follows: for every pattern and name.*)
THEOREM GlobsAreSound ==
  ASSUME NEW S, NEW p \in Seq(S), NEW n \in Seq(S)
  PROVE  GlobSound(p, n)
<1>1. Len(p) \in Nat /\ Len(n) \in Nat
  OBVIOUS
<1>2. ASSUME IsLiteral(p) PROVE glob(p, n) <=> p = n
  <2>1. \A i \in 1..Len(p) : p[i] \notin {"**", "*", "?"}
    BY <1>2 DEF IsLiteral, Wild
  <2>2. glob(p, n) <=> Len(n) = Len(p) /\ Begins(n, p, Len(p))
    BY <1>1, <2>1, LettersMatch DEF glob
  <2>3. p = n => Len(n) = Len(p) /\ Begins(n, p, Len(p))
    BY <1>1 DEF Begins
  <2> QED BY <2>2, <2>3, BeginsEqual
<1>3. ASSUME glob(p, n), "**" \notin ToSet(p) PROVE Slashes(p) = Slashes(n)
  <2> DEFINE r == Reach(p, n, {"/"})
  <2>1. Ends(r, p, n, {"/"}) /\ Len(n) \in r[Len(p)]
    BY <1>1, <1>3, ReachIs DEF glob
  <2>2. \A i \in 1..Len(p) : p[i] # "**"
    BY <1>3 DEF ToSet
  <2> HIDE DEF r
  <2>3. Len(p) \in 0..Len(p)
    BY <1>1
  <2>4. SlashesTo(p, Len(p)) = SlashesTo(n, Len(n))
    BY <1>1, <2>1, <2>2, <2>3, SlashesAgree
  <2> QED BY <2>4 DEF SlashesTo, Slashes
<1>4. ASSUME glob(p, n) PROVE commandMatches(p, n)
  <2> DEFINE r == Reach(p, n, {"/"})
             q == Reach(p, n, {})
  <2>1. Ends(r, p, n, {"/"}) /\ Ends(q, p, n, {}) /\ Len(n) \in r[Len(p)]
    BY <1>1, <1>4, ReachIs DEF glob
  <2>2. Len(p) \in 0..Len(p)
    BY <1>1
  <2> HIDE DEF r, q
  <2>3. r[Len(p)] \subseteq q[Len(p)]
    BY <1>1, <2>1, <2>2, SeparatorsHinder
  <2> QED BY <2>1, <2>3 DEF commandMatches, q
<1>5. ASSUME NEW i \in 1..Len(n) + 1, p = SubSeq(n, 1, i - 1) \o <<"*">> PROVE commandMatches(p, n)
  BY <1>5, CutMatches
<1> QED BY <1>2, <1>3, <1>4, <1>5 DEF GlobSound

(* What precedes the "/**" of an allowed pattern.                          *)
LEMMA EndsAllIs ==
  ASSUME NEW S, NEW c \in Seq(S), EndsAll(c), NEW A \in Nat, Len(c) = A + 2, NEW ap, ap = SubSeq(c, 1, A)
  PROVE  /\ ap \in Seq(S) /\ Len(ap) = A
         /\ \A i \in 1..A : ap[i] = c[i]
         /\ c[A + 1] = "/" /\ c[A + 2] = "**"
<1>1. A \in Nat /\ Len(c) = A + 2
  OBVIOUS
<1>2. A <= Len(c) /\ Len(c) \in Nat
  BY <1>1
<1>3. ap \in Seq(S) /\ Len(ap) = A /\ \A i \in 1..A : ap[i] = c[i]
  BY <1>1, <1>2
<1> DEFINE t == SubSeq(c, A + 1, A + 2)
<1> HIDE DEF t
<1>4. t[1] = c[A + 1] /\ t[2] = c[A + 2]
  BY <1>1 DEF t
<1>5. t = <<"/", "**">>
  <2>1. SubSeq(c, Len(c) - 1, Len(c)) = <<"/", "**">>
    BY DEF EndsAll
  <2>2. Len(c) - 1 = A + 1
    BY <1>1
  <2> QED BY <1>1, <2>1, <2>2 DEF t
<1>6. t[1] = "/" /\ t[2] = "**"
  BY ONLY <1>5
<1> QED BY <1>1, <1>3, <1>4, <1>6

(* A prefix agrees symbol by symbol.                                       *)
LEMMA PrefixIs ==
  ASSUME NEW S, NEW s \in Seq(S), NEW t \in Seq(S), IsPrefix(s, t)
  PROVE  Begins(t, s, Len(s))
<1>1. Len(s) <= Len(t) /\ Len(s) \in Nat /\ Len(t) \in Nat
  BY DEF IsPrefix
<1>2. SubSeq(s, 1, Len(s)) = SubSeq(t, 1, Len(s))
  BY DEF IsPrefix
<1>3. \A i \in 1..Len(s) : SubSeq(s, 1, Len(s))[i] = s[i] /\ SubSeq(t, 1, Len(s))[i] = t[i]
  BY <1>1
<1> QED BY <1>1, <1>2, <1>3 DEF Begins

(* "dir/**" matches what matches a pattern that begins with "dir/".        *)
LEMMA BelowDirectory ==
  ASSUME NEW p, Len(p) \in Nat, NEW n, Len(n) \in Nat, NEW c, Len(c) \in Nat, NEW A \in Nat, Len(c) = A + 2,
         c[A + 1] = "/", c[A + 2] = "**", NEW K \in 0..Len(p), \A i \in 1..K : p[i] \notin Wild,
         A + 1 <= K, Begins(p, c, A + 1), glob(p, n)
  PROVE  glob(c, n)
<1>1. Begins(n, p, K)
  BY LettersForced DEF Wild
<1>2. \A i \in 1..A + 1 : i \in 1..K
  OBVIOUS
<1>3. Begins(n, c, A + 1) /\ \A i \in 1..A + 1 : c[i] \notin {"**", "*", "?"}
  BY <1>1, <1>2 DEF Begins, Wild
<1>4. A + 1 \in 0..Len(c) /\ Len(c) = (A + 1) + 1 /\ c[(A + 1) + 1] = "**"
  <2>1. (A + 1) + 1 = A + 2
    OBVIOUS
  <2> QED BY <2>1
<1> QED BY <1>3, <1>4, AllBelow

(* An intended write within the allowed ones writes nothing outside them,  *)
(* for every name.  The allowed ones are relative, which contracts demands,*)
(* and have no empty component.                                            *)
THEOREM WithinIsSound ==
  ASSUME NEW S, NEW p \in Seq(S), NEW allowed \in SUBSET Seq(S), \A c \in allowed : Tidy(c),
         NEW names \in SUBSET Seq(S)
  PROVE  WithinSound(p, allowed, names)
<1> SUFFICES ASSUME patternWithin(p, allowed), CutsAtSlash(p), ~NamesRoot(p, allowed), NEW n \in names, glob(p, n)
             PROVE  \E c \in allowed : glob(c, n)
  BY DEF WithinSound, MatchesAny
<1>1. PICK c \in allowed :
        \/ c = <<"**">> \/ c = p
        \/ IsLiteral(p) /\ glob(c, p)
        \/ LET ap == SubSeq(c, 1, Len(c) - 2)
           IN EndsAll(c) /\ (staticPrefix(p) = ap \/ IsPrefix(Append(DropSlash(ap), "/"), staticPrefix(p)))
  BY DEF patternWithin
<1>2. p \in Seq(S) /\ c \in Seq(S) /\ n \in Seq(S) /\ Len(p) \in Nat /\ Len(c) \in Nat /\ Len(n) \in Nat
  OBVIOUS
<1>3. CASE c = <<"**">>
  <2>1. Len(c) = 0 + 1 /\ c[0 + 1] = "**" /\ 0 \in 0..Len(c) /\ 1..0 = {}
    BY <1>3
  <2>2. Begins(n, c, 0) /\ \A i \in 1..0 : c[i] \notin {"**", "*", "?"}
    BY <1>2, <2>1, BeginsMore
  <2>3. glob(c, n)
    BY <1>2, <2>1, <2>2, AllBelow
  <2> QED BY <2>3
<1>4. CASE IsLiteral(p) /\ glob(c, p)
  <2>1. GlobSound(p, n)
    BY <1>2, GlobsAreSound
  <2>2. p = n
    BY <1>4, <2>1 DEF GlobSound
  <2> QED BY <1>4, <2>2
<1>5. ASSUME NEW ap, ap = SubSeq(c, 1, Len(c) - 2), EndsAll(c),
             staticPrefix(p) = ap \/ IsPrefix(Append(ap, "/"), staticPrefix(p))
      PROVE  glob(c, n)
  <2> DEFINE A == Len(c) - 2
             sp == staticPrefix(p)
             d == Append(ap, "/")
  <2>a. A \in Nat /\ Len(c) = A + 2
    BY <1>2, <1>5 DEF EndsAll
  <2>b. ap = SubSeq(c, 1, A)
    BY <1>5
  <2> HIDE DEF A
  <2>1. ap \in Seq(S) /\ Len(ap) = A /\ A \in Nat /\ Len(c) = A + 2 /\ c[A + 1] = "/" /\ c[A + 2] = "**"
    BY <1>2, <1>5, <2>a, <2>b, EndsAllIs
  <2>2. \A i \in 1..A : ap[i] = c[i]
    BY <1>2, <1>5, <2>a, <2>b, EndsAllIs
  <2>3. d \in Seq(S) /\ Len(d) = A + 1 /\ d[A + 1] = "/" /\ \A i \in 1..A : d[i] = ap[i]
    <3>1. c[A + 1] \in S
      BY <1>2, <2>1
    <3> QED BY <2>1, <3>1
  <2>4. \A i \in 1..A + 1 : d[i] = c[i]
    <3>1. \A i \in 1..A + 1 : i \in 1..A \/ i = A + 1
      BY <2>1
    <3> QED BY <2>1, <2>2, <2>3, <3>1
  <2> HIDE DEF d
  <2>5. ASSUME NEW K \in 0..Len(p), \A i \in 1..K : p[i] \notin Wild, NEW t \in Seq(S), Len(t) <= K,
               \A i \in 1..Len(t) : t[i] = p[i], IsPrefix(d, t)
        PROVE  glob(c, n)
    <3>1. Begins(t, d, A + 1)
      BY <2>3, <2>5, PrefixIs
    <3>2. A + 1 <= K /\ \A i \in 1..A + 1 : i \in 1..Len(t)
      BY <1>2, <2>1, <2>5, <3>1 DEF Begins
    <3>3. Begins(p, c, A + 1)
      <4>1. Len(p) >= A + 1
        BY <1>2, <2>1, <3>2
      <4>2. \A i \in 1..A + 1 : t[i] = d[i]
        BY <3>1 DEF Begins
      <4>3. \A i \in 1..A + 1 : p[i] = c[i]
        BY <2>4, <2>5, <3>2, <4>2
      <4> QED BY <4>1, <4>3 DEF Begins
    <3> QED BY <1>2, <2>1, <2>5, <3>2, <3>3, BelowDirectory
  <2>6. CASE IsLiteral(p)
    <3>1. sp = p
      BY <2>6 DEF staticPrefix
    <3>2. ASSUME p = ap PROVE FALSE
      <4>1. Append(Append(p, "/"), "**") = c
        <5> DEFINE e == Append(d, "**")
        <5>1. c[A + 2] \in S
          BY <1>2, <2>1
        <5>2. e \in Seq(S) /\ Len(e) = A + 2 /\ e[A + 2] = "**" /\ \A i \in 1..A + 1 : e[i] = d[i]
          BY <2>1, <2>3, <5>1
        <5>3. \A i \in 1..A + 2 : i \in 1..A + 1 \/ i = A + 2
          BY <2>1
        <5> HIDE DEF e
        <5>4. \A i \in 1..A + 2 : e[i] = c[i]
          BY <2>1, <2>4, <5>2, <5>3
        <5>5. e = c
          BY <1>2, <2>1, <5>2, <5>4
        <5> QED BY <3>2, <5>5 DEF d, e
      <4> QED BY <2>6, <4>1 DEF NamesRoot
    <3>3. IsPrefix(d, p)
      BY <1>5, <3>1, <3>2 DEF d
    <3>4. Len(p) \in 0..Len(p) /\ \A i \in 1..Len(p) : p[i] \notin Wild
      BY <1>2, <2>6 DEF IsLiteral
    <3> QED BY <1>2, <2>5, <3>3, <3>4
  <2>7. CASE ~IsLiteral(p)
    <3> DEFINE F == FirstWild(p)
               L == SubSeq(p, 1, F - 1)
    <3>1. F \in 1..Len(p) /\ \A j \in 1..F - 1 : p[j] \notin Wild
      BY <1>2, <2>7, FirstWildIs
    <3>2. F = 1 \/ p[F - 1] = "/"
      BY <2>7 DEF CutsAtSlash
    <3> HIDE DEF F
    <3>3. L \in Seq(S) /\ Len(L) = F - 1 /\ \A i \in 1..F - 1 : L[i] = p[i]
      BY <1>2, <3>1
    <3>4. sp = DropSlash(L)
      BY <2>7 DEF staticPrefix, F
    <3> HIDE DEF sp, L
    <3>5. CASE F = 1
      <4>1. Len(L) = 0 /\ L = <<>>
        BY <3>3, <3>5
      <4>2. sp = <<>> /\ Len(sp) = 0
        BY <3>4, <4>1 DEF DropSlash
      <4>3. sp # ap
        <5>1. sp = ap => A = 0
          BY <2>1, <4>2
        <5>2. ASSUME A = 0 PROVE c[1] = "/" /\ Len(c) >= 1
          <6>1. A + 1 = 1 /\ Len(c) >= 1
            BY <2>1, <5>2
          <6> QED BY <2>1, <6>1
        <5>3. Len(c) >= 1 => c[1] # "/"
          <6>1. Len(c) >= 1 => 1 \in 1..Len(c)
            BY <1>2
          <6> QED BY <6>1 DEF Tidy
        <5> QED BY <5>1, <5>2, <5>3
      <4>4. ~IsPrefix(d, sp)
        BY <2>1, <2>3, <4>2 DEF IsPrefix
      <4> QED BY <1>5, <4>3, <4>4 DEF d, sp
    <3>6. CASE F # 1
      <4>1. L # <<>> /\ Last(L) = "/"
        BY <3>1, <3>2, <3>3, <3>6 DEF Last
      <4>2. sp = SubSeq(L, 1, F - 2)
        BY <3>1, <3>3, <3>4, <4>1 DEF DropSlash, Front
      <4>3. sp \in Seq(S) /\ Len(sp) = F - 2 /\ \A i \in 1..F - 2 : sp[i] = L[i]
        BY <3>1, <3>3, <3>6, <4>2
      <4>4. F - 1 \in 0..Len(p) /\ F - 2 <= F - 1 /\ \A i \in 1..F - 2 : i \in 1..F - 1
        BY <1>2, <3>1, <3>6
      <4>5. CASE IsPrefix(d, sp)
        <5>1. \A i \in 1..Len(sp) : sp[i] = p[i]
          BY <3>3, <4>3, <4>4
        <5>2. Len(sp) <= F - 1
          BY <4>3, <4>4
        <5> QED BY <2>5, <3>1, <4>3, <4>4, <4>5, <5>1, <5>2
      <4>6. CASE sp = ap
        <5>1. A = F - 2
          BY <2>1, <4>3, <4>6
        <5>2. A + 1 = F - 1
          BY <3>1, <5>1
        <5>3. \A i \in 1..A + 1 : c[i] = p[i]
          <6>1. \A i \in 1..A + 1 : i \in 1..A \/ i = A + 1
            BY <2>1
          <6>2. \A i \in 1..A : c[i] = p[i]
            BY <2>2, <3>3, <4>3, <4>4, <4>6, <5>1
          <6>3. c[A + 1] = p[A + 1]
            BY <2>1, <3>2, <3>6, <5>2
          <6> QED BY <6>1, <6>2, <6>3
        <5>4. Begins(p, c, A + 1) /\ A + 1 <= F - 1
          BY <1>2, <3>1, <5>2, <5>3 DEF Begins
        <5> QED BY <1>2, <2>1, <3>1, <4>4, <5>4, BelowDirectory
      <4> QED BY <1>5, <4>5, <4>6 DEF d, sp
    <3> QED BY <3>5, <3>6
  <2> QED BY <2>6, <2>7
<1>6. CASE LET ap == SubSeq(c, 1, Len(c) - 2)
           IN EndsAll(c) /\ (staticPrefix(p) = ap \/ IsPrefix(Append(DropSlash(ap), "/"), staticPrefix(p)))
  <2> DEFINE A == Len(c) - 2
             ap == SubSeq(c, 1, A)
  <2>1. EndsAll(c) /\ (staticPrefix(p) = ap \/ IsPrefix(Append(DropSlash(ap), "/"), staticPrefix(p)))
    BY <1>6
  <2>2. A \in Nat /\ Len(c) = A + 2
    BY <1>2, <2>1 DEF EndsAll
  <2> HIDE DEF A
  <2>b. ap = SubSeq(c, 1, A)
    OBVIOUS
  <2> HIDE DEF ap
  <2>3. /\ ap \in Seq(S) /\ Len(ap) = A /\ \A i \in 1..A : ap[i] = c[i]
        /\ c[A + 1] = "/"
    BY <1>2, <2>1, <2>2, <2>b, EndsAllIs
  <2>4. ASSUME ap # <<>> PROVE Last(ap) # "/"
    <3>1. A # 0
      BY <2>2, <2>3, <2>4
    <3>2. A + 1 \in 1..Len(c) /\ (A + 1) - 1 = A /\ A \in 1..A
      BY <2>2, <3>1
    <3>3. c[A] # "/"
      BY <2>3, <3>2 DEF Tidy
    <3>4. Last(ap) = ap[A]
      BY <2>3 DEF Last
    <3> QED BY <2>3, <3>2, <3>3, <3>4
  <2>5. DropSlash(ap) = ap
    BY <2>4 DEF DropSlash
  <2>6. EndsAll(c) /\ (staticPrefix(p) = ap \/ IsPrefix(Append(ap, "/"), staticPrefix(p)))
    BY <2>1, <2>5
  <2> QED BY <1>5, <2>6 DEF ap, A
<1> QED BY <1>1, <1>3, <1>4, <1>6

(* Preflight lets through no write outside the allowed ones, no command    *)
(* that destroys, and nothing boundless that nobody has scouted or         *)
(* approved: for every contract and every name.                            *)
THEOREM PreflightIsSound ==
  ASSUME NEW S, NEW c, c.writes \in SUBSET Seq(S), c.allowed \in SUBSET Seq(S), \A a \in c.allowed : Tidy(a),
         c.destructive \in BOOLEAN, c.scouted \in BOOLEAN, c.approved \in BOOLEAN, NEW names \in SUBSET Seq(S)
  PROVE  PreflightSound(c, names)
<1> SUFFICES ASSUME ~PreflightRefuses(c)
             PROVE  /\ ~c.destructive
                    /\ c.size = "large" \/ <<"**">> \in c.writes => c.scouted \/ c.approved
                    /\ \A p \in c.writes : WithinSound(p, c.allowed, names)
                    /\ \A n \in names : (\E p \in c.writes : CutsAtSlash(p) /\ ~NamesRoot(p, c.allowed) /\ glob(p, n))
                                          => MatchesAny(c.allowed, n)
  BY DEF PreflightSound
<1>1. Preflight(c) # "BLOCKED" /\ (Preflight(c) = "HIGH" => c.scouted \/ c.approved)
  BY DEF PreflightRefuses
<1>2. ~c.destructive /\ \A p \in c.writes : patternWithin(p, c.allowed)
  BY <1>1 DEF Preflight, Blocked
<1>3. \A p \in c.writes : WithinSound(p, c.allowed, names)
  BY WithinIsSound
<1>4. staticPrefix(<<"**">>) = <<>>
  <2> DEFINE w == <<"**">>
  <2>1. Len(w) = 1 /\ w[1] = "**" /\ w \in Seq({"**"})
    OBVIOUS
  <2> HIDE DEF w
  <2>2. ~IsLiteral(w)
    BY <2>1 DEF IsLiteral, Wild
  <2>3. FirstWild(w) \in 1..1
    BY <2>1, <2>2, FirstWildIs
  <2>4. FirstWild(w) = 1
    BY <2>3
  <2>5. SubSeq(w, 1, 0) = <<>>
    BY <2>1
  <2>6. DropSlash(<<>>) = <<>>
    BY DEF DropSlash
  <2>7. staticPrefix(w) = DropSlash(SubSeq(w, 1, 0))
    BY <2>2, <2>4 DEF staticPrefix
  <2> QED BY <2>5, <2>6, <2>7 DEF w
<1>5. ASSUME c.size = "large" \/ <<"**">> \in c.writes PROVE Preflight(c) = "HIGH"
  <2>1. Broad(c) \/ c.size = "large"
    BY <1>4, <1>5 DEF Broad
  <2>2. ~Blocked(c)
    BY <1>2 DEF Blocked
  <2> QED BY <2>1, <2>2 DEF Preflight
<1>6. ASSUME NEW n \in names, NEW p \in c.writes, CutsAtSlash(p), ~NamesRoot(p, c.allowed), glob(p, n)
      PROVE  MatchesAny(c.allowed, n)
  BY <1>2, <1>3, <1>6 DEF WithinSound
<1> QED BY <1>1, <1>2, <1>3, <1>5, <1>6

-----------------------------------------------------------------------------
(* The policy engine                                                       *)

VerdictSet == {"ALLOW", "FLAG", "ASK", "DENY"}
Members(s) == {s[i] : i \in 1..Len(s)}

(* b is not of a higher layer than a.                                      *)
NotBefore(a, b) == \E k, m \in 1..4 : k <= m /\ a.source = layerPrecedence[k] /\ b.source = layerPrecedence[m]
Sorted(s) == \A i, j \in 1..Len(s) : i < j => NotBefore(s[i], s[j])

(* What out has of s after n turns of the loop.                            *)
KeptSoFar(out, s, K, n) ==
  /\ \A j \in 1..Len(out) : \E i \in K : i <= n /\ out[j] = s[i]
  /\ \A i \in K : i <= n => \E j \in 1..Len(out) : out[j] = s[i]
  /\ Sorted(s) => Sorted(out)

(* One turn of it.                                                         *)
LEMMA KeepStep ==
  ASSUME NEW S, NEW s \in Seq(S), NEW K \in SUBSET (1..Len(s)), NEW n \in Nat, n + 1 \in 1..Len(s),
         NEW out \in Seq(S), KeptSoFar(out, s, K, n),
         NEW next, next = IF n + 1 \in K THEN Append(out, s[n + 1]) ELSE out
  PROVE  next \in Seq(S) /\ KeptSoFar(next, s, K, n + 1)
<1>1. s[n + 1] \in S /\ \A i \in K : i \in Nat
  OBVIOUS
<1>2. CASE n + 1 \notin K
  <2>1. next = out
    BY <1>2
  <2>2. \A i \in K : i <= n + 1 <=> i <= n
    BY <1>1, <1>2
  <2> QED BY <2>1, <2>2 DEF KeptSoFar
<1>3. CASE n + 1 \in K
  <2> DEFINE L == Len(out)
  <2>1. next = Append(out, s[n + 1])
    BY <1>3
  <2>2. next \in Seq(S) /\ L \in Nat /\ Len(next) = L + 1 /\ next[L + 1] = s[n + 1] /\ \A j \in 1..L : next[j] = out[j]
    BY <1>1, <2>1
  <2>3. \A j \in 1..L + 1 : j \in 1..L \/ j = L + 1
    BY <2>2
  <2>4. \A j \in 1..L : j \in 1..L + 1
    BY <2>2
  <2>5. L + 1 \in 1..L + 1 /\ n <= n + 1 /\ \A i \in K : (i <= n => i <= n + 1) /\ (i <= n + 1 => i <= n \/ i = n + 1)
    BY <1>1, <2>2
  <2>6. \A j \in 1..L : \E i \in K : i <= n /\ out[j] = s[i]
    BY DEF KeptSoFar
  <2>7. \A i \in K : i <= n => \E j \in 1..L : out[j] = s[i]
    BY DEF KeptSoFar
  <2> HIDE DEF L
  <2>8. \A j \in 1..L + 1 : \E i \in K : i <= n + 1 /\ next[j] = s[i]
    BY <1>3, <2>2, <2>3, <2>5, <2>6
  <2>9. \A i \in K : i <= n + 1 => \E j \in 1..L + 1 : next[j] = s[i]
    BY <2>2, <2>4, <2>5, <2>7
  <2>10. ASSUME Sorted(s) PROVE Sorted(next)
    <3>1. \A i, j \in 1..L : i < j => NotBefore(out[i], out[j])
      BY <2>10 DEF KeptSoFar, Sorted, L
    <3>2. \A j \in 1..L : NotBefore(out[j], s[n + 1])
      <4> SUFFICES ASSUME NEW j \in 1..L PROVE NotBefore(out[j], s[n + 1])
        OBVIOUS
      <4>1. PICK i \in K : i <= n /\ out[j] = s[i]
        BY <2>6
      <4>2. i \in 1..Len(s) /\ i < n + 1
        BY <4>1
      <4> QED BY <2>10, <4>1, <4>2 DEF Sorted
    <3> SUFFICES ASSUME NEW i \in 1..L + 1, NEW j \in 1..L + 1, i < j PROVE NotBefore(next[i], next[j])
      BY <2>2 DEF Sorted
    <3>3. i \in 1..L
      BY <2>2
    <3>4. CASE j \in 1..L
      BY <2>2, <3>1, <3>3, <3>4
    <3>5. CASE j = L + 1
      BY <2>2, <3>2, <3>3, <3>5
    <3> QED BY <2>3, <3>4, <3>5
  <2> QED BY <2>2, <2>8, <2>9, <2>10 DEF KeptSoFar
<1> QED BY <1>2, <1>3

(* Kept holds the members at K, and keeps them sorted.                     *)
LEMMA KeptIs ==
  ASSUME NEW S, NEW s \in Seq(S), NEW K \in SUBSET (1..Len(s))
  PROVE  /\ Kept(s, K) \in Seq(S) /\ Members(Kept(s, K)) = {s[i] : i \in K}
         /\ Sorted(s) => Sorted(Kept(s, K))
<1> DEFINE T == Seq(S)
           N == Len(s)
           step == [p \in T \X (1..N) |-> IF p[2] \in K THEN Append(p[1], s[p[2]]) ELSE p[1]]
           Fits(h) == h = [i \in 0..N |-> IF i = 0 THEN <<>> ELSE IF i \in K THEN Append(h[i - 1], s[i]) ELSE h[i - 1]]
           h == CHOOSE h : Fits(h)
<1>1. N \in Nat
  OBVIOUS
<1>2. \A t \in T, i \in 1..N : (IF i \in K THEN Append(t, s[i]) ELSE t) \in T
  OBVIOUS
<1>3. Fits(h) /\ \A i \in 0..N : h[i] \in T
  <2>1. \A t \in T, i \in 1..N : step[<<t, i>>] = IF i \in K THEN Append(t, s[i]) ELSE t
    OBVIOUS
  <2>2. StaysIn(step, T, N)
    BY <1>2, <2>1 DEF StaysIn
  <2> HIDE DEF step
  <2>3. <<>> \in T
    OBVIOUS
  <2> HIDE DEF T
  <2>4. PICK g : Iterates(g, step, T, <<>>, N)
    BY <1>1, <2>2, <2>3, IterationExists
  <2>5. Fits(g)
    <3> SUFFICES ASSUME NEW i \in 0..N
                 PROVE  g[i] = IF i = 0 THEN <<>> ELSE IF i \in K THEN Append(g[i - 1], s[i]) ELSE g[i - 1]
      BY <2>4 DEF Iterates
    <3>1. i # 0 => i \in 1..N /\ i - 1 \in 0..N
      BY <1>1
    <3>2. i # 0 => g[i - 1] \in T /\ g[i] = step[<<g[i - 1], i>>]
      BY <2>4, <3>1 DEF Iterates
    <3>3. g[0] = <<>>
      BY <2>4 DEF Iterates
    <3> QED BY <2>1, <3>1, <3>2, <3>3
  <2>6. Fits(h)
    BY <2>5
  <2> HIDE DEF h
  <2> DEFINE In == {i \in 0..N : h[i] \in T}
  <2>7. 0 \in In
    <3>1. 0 \in 0..N
      BY <1>1
    <3>2. h[0] = <<>>
      BY <2>6, <3>1
    <3> QED BY <2>3, <3>1, <3>2
  <2>8. \A i \in 0..N : i \in In /\ i < N => i + 1 \in In
    <3> SUFFICES ASSUME NEW i \in 0..N, h[i] \in T, i < N PROVE i + 1 \in 0..N /\ h[i + 1] \in T
      OBVIOUS
    <3>1. i + 1 \in 1..N /\ i + 1 \in 0..N /\ i + 1 # 0 /\ (i + 1) - 1 = i
      BY <1>1
    <3>2. h[i + 1] = IF i + 1 \in K THEN Append(h[i], s[i + 1]) ELSE h[i]
      BY <2>6, <3>1
    <3> QED BY <1>2, <3>1, <3>2
  <2> HIDE DEF In
  <2>9. \A i \in 0..N : i \in In
    BY <1>1, <2>7, <2>8, UpTo
  <2> QED BY <2>6, <2>9 DEF In
<1>4. Kept(s, K) = h[N]
  BY DEF Kept
<1> HIDE DEF h, step
<1> DEFINE Good == {i \in 0..N : KeptSoFar(h[i], s, K, i)}
<1>5. 0 \in Good
  <2>1. h[0] = <<>> /\ 0 \in 0..N /\ Len(<<>>) = 0 /\ 1..0 = {}
    BY <1>1, <1>3
  <2>2. \A i \in K : ~(i <= 0)
    OBVIOUS
  <2> QED BY <2>1, <2>2 DEF KeptSoFar, Sorted
<1>6. \A i \in 0..N : i \in Good /\ i < N => i + 1 \in Good
  <2> SUFFICES ASSUME NEW i \in 0..N, KeptSoFar(h[i], s, K, i), i < N PROVE i + 1 \in 0..N /\ KeptSoFar(h[i + 1], s, K, i + 1)
    OBVIOUS
  <2>1. i \in Nat /\ i + 1 \in 1..N /\ i + 1 \in 0..N /\ i + 1 # 0 /\ (i + 1) - 1 = i
    BY <1>1
  <2>2. h[i + 1] = IF i + 1 \in K THEN Append(h[i], s[i + 1]) ELSE h[i]
    BY <1>3, <2>1
  <2>3. h[i] \in Seq(S)
    BY <1>3
  <2> QED BY <2>1, <2>2, <2>3, KeepStep
<1>7. KeptSoFar(h[N], s, K, N) /\ h[N] \in Seq(S)
  <2> HIDE DEF Good
  <2>1. \A i \in 0..N : i \in Good
    BY <1>1, <1>5, <1>6, UpTo
  <2>2. N \in 0..N
    BY <1>1
  <2> QED BY <1>3, <2>1, <2>2 DEF Good
<1>8. \A i \in K : i <= N
  OBVIOUS
<1> HIDE DEF N
<1>9. Members(h[N]) = {s[i] : i \in K}
  <2> DEFINE out == h[N]
  <2>1. \A j \in 1..Len(out) : \E i \in K : out[j] = s[i]
    BY <1>7 DEF KeptSoFar
  <2>2. \A i \in K : \E j \in 1..Len(out) : out[j] = s[i]
    BY <1>7, <1>8 DEF KeptSoFar
  <2> HIDE DEF out
  <2>3. Members(out) \subseteq {s[i] : i \in K}
    BY <2>1 DEF Members
  <2>4. {s[i] : i \in K} \subseteq Members(out)
    BY <2>2 DEF Members
  <2>5. Members(out) = {s[i] : i \in K}
    BY <2>3, <2>4
  <2> QED BY <2>5 DEF out
<1> QED BY <1>4, <1>7, <1>9 DEF KeptSoFar

(* Two sequences, one after the other.                                     *)
LEMMA JoinIs ==
  ASSUME NEW S, NEW a \in Seq(S), NEW b \in Seq(S)
  PROVE  /\ a \o b \in Seq(S) /\ Members(a \o b) = Members(a) \cup Members(b)
         /\ Sorted(a) /\ Sorted(b) /\ (\A x \in Members(a), y \in Members(b) : NotBefore(x, y)) => Sorted(a \o b)
<1> DEFINE q == a \o b
           A == Len(a)
           B == Len(b)
<1>1. A \in Nat /\ B \in Nat /\ q \in Seq(S) /\ Len(q) = A + B
  OBVIOUS
<1>2. (\A i \in 1..A : q[i] = a[i]) /\ \A i \in 1..B : q[A + i] = b[i]
  OBVIOUS
<1>3. \A i \in 1..A + B : i \in 1..A \/ (i - A \in 1..B /\ A + (i - A) = i)
  BY <1>1
<1>4. (\A i \in 1..A : i \in 1..A + B) /\ \A i \in 1..B : A + i \in 1..A + B
  BY <1>1
<1> HIDE DEF q, A, B
<1>5. \A i \in 1..A + B : i \in 1..A \/ q[i] = b[i - A]
  BY <1>2, <1>3
<1>6. Members(q) = Members(a) \cup Members(b)
  <2>1. \A x \in Members(q) : x \in Members(a) \cup Members(b)
    BY <1>1, <1>2, <1>3, <1>5 DEF Members, A, B
  <2>2. \A x \in Members(a) : x \in Members(q)
    BY <1>1, <1>2, <1>4 DEF Members, A
  <2>3. \A x \in Members(b) : x \in Members(q)
    BY <1>1, <1>2, <1>4 DEF Members, B
  <2> QED BY <2>1, <2>2, <2>3
<1>7. ASSUME Sorted(a), Sorted(b), \A x \in Members(a), y \in Members(b) : NotBefore(x, y) PROVE Sorted(q)
  <2> SUFFICES ASSUME NEW i \in 1..A + B, NEW j \in 1..A + B, i < j PROVE NotBefore(q[i], q[j])
    BY <1>1 DEF Sorted
  <2>1. CASE j \in 1..A
    <3>1. i \in 1..A
      BY <1>1, <2>1
    <3> QED BY <1>2, <1>7, <2>1, <3>1 DEF Sorted, A
  <2>2. CASE j \notin 1..A /\ i \in 1..A
    <3>1. q[i] \in Members(a) /\ q[j] \in Members(b)
      BY <1>2, <1>3, <1>5, <2>2 DEF Members, A, B
    <3> QED BY <1>7, <3>1
  <2>3. CASE j \notin 1..A /\ i \notin 1..A
    <3>1. i - A \in 1..B /\ j - A \in 1..B /\ i - A < j - A
      BY <1>1, <1>3, <2>3
    <3>2. q[i] = b[i - A] /\ q[j] = b[j - A]
      BY <1>5, <2>3
    <3> QED BY <1>7, <3>1, <3>2 DEF Sorted, B
  <2> QED BY <2>1, <2>2, <2>3
<1> QED BY <1>1, <1>6, <1>7 DEF q

(* The strongest of verdicts, ALLOW among them, is one of them, and as     *)
(* strong as each.                                                         *)
LEMMA StrongestIs ==
  ASSUME NEW vs \in Seq(VerdictSet)
  PROVE  /\ Strongest(vs) \in VerdictSet
         /\ Strongest(vs) = "ALLOW" \/ \E i \in 1..Len(vs) : Strongest(vs) = vs[i]
         /\ \A i \in 1..Len(vs) : verdictRank(vs[i]) <= verdictRank(Strongest(vs))
<1> DEFINE N == Len(vs)
           step == [p \in VerdictSet \X (1..N) |-> IF verdictRank(vs[p[2]]) > verdictRank(p[1]) THEN vs[p[2]] ELSE p[1]]
           Fits(h) == h = [i \in 0..N |-> IF i = 0 THEN "ALLOW"
                                          ELSE IF verdictRank(vs[i]) > verdictRank(h[i - 1]) THEN vs[i] ELSE h[i - 1]]
           h == CHOOSE h : Fits(h)
<1>1. N \in Nat /\ \A i \in 1..N : vs[i] \in VerdictSet
  OBVIOUS
<1>2. \A v \in VerdictSet : verdictRank(v) \in Nat
  BY DEF VerdictSet, verdictRank
<1>3. Fits(h)
  <2>1. \A t \in VerdictSet, i \in 1..N : step[<<t, i>>] = IF verdictRank(vs[i]) > verdictRank(t) THEN vs[i] ELSE t
    OBVIOUS
  <2>2. StaysIn(step, VerdictSet, N)
    BY <1>1, <2>1 DEF StaysIn
  <2> HIDE DEF step
  <2>3. "ALLOW" \in VerdictSet
    BY DEF VerdictSet
  <2>4. PICK g : Iterates(g, step, VerdictSet, "ALLOW", N)
    BY <1>1, <2>2, <2>3, IterationExists
  <2>5. Fits(g)
    <3> SUFFICES ASSUME NEW i \in 0..N
                 PROVE  g[i] = IF i = 0 THEN "ALLOW" ELSE IF verdictRank(vs[i]) > verdictRank(g[i - 1]) THEN vs[i] ELSE g[i - 1]
      BY <2>4 DEF Iterates
    <3>1. i # 0 => i \in 1..N /\ i - 1 \in 0..N
      BY <1>1
    <3>2. i # 0 => g[i - 1] \in VerdictSet /\ g[i] = step[<<g[i - 1], i>>]
      BY <2>4, <3>1 DEF Iterates
    <3>3. g[0] = "ALLOW"
      BY <2>4 DEF Iterates
    <3> QED BY <2>1, <3>1, <3>2, <3>3
  <2> QED BY <2>5
<1>4. Strongest(vs) = h[N]
  BY DEF Strongest
<1> HIDE DEF h, step
<1> DEFINE Best(v, n) == /\ v \in VerdictSet /\ (v = "ALLOW" \/ \E i \in 1..n : v = vs[i])
                         /\ \A i \in 1..n : verdictRank(vs[i]) <= verdictRank(v)
           Good == {i \in 0..N : Best(h[i], i)}
<1>5. 0 \in Good
  <2>1. h[0] = "ALLOW" /\ 0 \in 0..N /\ 1..0 = {}
    BY <1>1, <1>3
  <2> QED BY <2>1 DEF VerdictSet
<1>6. \A i \in 0..N : i \in Good /\ i < N => i + 1 \in Good
  <2> SUFFICES ASSUME NEW i \in 0..N, Best(h[i], i), i < N PROVE i + 1 \in 0..N /\ Best(h[i + 1], i + 1)
    OBVIOUS
  <2> DEFINE v == h[i]
             w == vs[i + 1]
  <2>1. i + 1 \in 1..N /\ i + 1 \in 0..N /\ i + 1 # 0 /\ (i + 1) - 1 = i
    BY <1>1
  <2>2. h[i + 1] = IF verdictRank(w) > verdictRank(v) THEN w ELSE v
    BY <1>3, <2>1
  <2>3. v \in VerdictSet /\ w \in VerdictSet
    BY <1>1, <2>1
  <2>4. i + 1 \in 1..i + 1 /\ \A k \in 1..i + 1 : k \in 1..i \/ k = i + 1
    BY <2>1
  <2>5. \A k \in 1..i : k \in 1..i + 1 /\ vs[k] \in VerdictSet /\ verdictRank(vs[k]) <= verdictRank(v)
    BY <1>1
  <2>6. v = "ALLOW" \/ \E k \in 1..i : v = vs[k]
    OBVIOUS
  <2> HIDE DEF v, w
  <2>7. CASE h[i + 1] = w /\ verdictRank(w) > verdictRank(v)
    <3>1. \A k \in 1..i : verdictRank(vs[k]) <= verdictRank(w)
      BY <1>2, <2>3, <2>5, <2>7
    <3>2. verdictRank(w) <= verdictRank(w)
      BY <1>2, <2>3
    <3> QED BY <2>1, <2>3, <2>4, <2>7, <3>1, <3>2 DEF w
  <2>8. CASE h[i + 1] = v /\ ~(verdictRank(w) > verdictRank(v))
    <3>1. verdictRank(w) <= verdictRank(v)
      BY <1>2, <2>3, <2>8
    <3> QED BY <2>1, <2>3, <2>4, <2>5, <2>6, <2>8, <3>1 DEF w
  <2> QED BY <2>2, <2>7, <2>8
<1>7. Best(h[N], N)
  <2> HIDE DEF Good, Best
  <2>1. \A i \in 0..N : i \in Good
    BY <1>1, <1>5, <1>6, UpTo
  <2>2. N \in 0..N
    BY <1>1
  <2> QED BY <2>1, <2>2 DEF Good
<1> QED BY <1>4, <1>7

(* What a result of any layer is, before and after the overrides.          *)
Results(Rule) ==
  [source : {layerPrecedence[k] : k \in 1..4}, verdict : VerdictSet, id : {r.id : r \in Rule},
   target : {overrideTarget(layerPrecedence[k], r) : k \in 1..3, r \in Rule}]

(* Sorting keeps the results.                                              *)
LEMMA SortedIs ==
  ASSUME NEW Rule, NEW results \in Seq(Results(Rule))
  PROVE  /\ InPrecedence(results) \in Seq(Results(Rule)) /\ Members(InPrecedence(results)) = Members(results)
         /\ Sorted(InPrecedence(results))
<1> DEFINE R == Results(Rule)
           at(k) == {i \in 1..Len(results) : results[i].source = layerPrecedence[k]}
           of(k) == Kept(results, at(k))
<1>1. \A k \in 1..4 : of(k) \in Seq(R) /\ Members(of(k)) = {results[i] : i \in at(k)}
  <2> SUFFICES ASSUME NEW k \in 1..4 PROVE of(k) \in Seq(R) /\ Members(of(k)) = {results[i] : i \in at(k)}
    OBVIOUS
  <2>1. at(k) \in SUBSET (1..Len(results))
    OBVIOUS
  <2> HIDE DEF at, R
  <2> QED BY <2>1, KeptIs DEF R
<1>2. \A k \in 1..4 : \A x \in Members(of(k)) : x.source = layerPrecedence[k]
  <2> SUFFICES ASSUME NEW k \in 1..4, NEW x \in Members(of(k)) PROVE x.source = layerPrecedence[k]
    OBVIOUS
  <2>1. x \in {results[i] : i \in at(k)}
    BY <1>1
  <2> QED BY <2>1
<1> DEFINE Upto(q, m) == /\ q \in Seq(R) /\ Sorted(q)
                         /\ Members(q) = UNION {Members(of(k)) : k \in 1..m}
<1> HIDE DEF of
<1>3. \A k \in 1..4 : Sorted(of(k))
  <2> SUFFICES ASSUME NEW k \in 1..4, NEW i \in 1..Len(of(k)), NEW j \in 1..Len(of(k)) PROVE NotBefore(of(k)[i], of(k)[j])
    BY DEF Sorted
  <2>1. of(k)[i].source = layerPrecedence[k] /\ of(k)[j].source = layerPrecedence[k]
    BY <1>2 DEF Members
  <2>2. k <= k
    OBVIOUS
  <2> QED BY <2>1, <2>2 DEF NotBefore
<1>4. ASSUME NEW q, NEW m \in 1..3, Upto(q, m) PROVE Upto(q \o of(m + 1), m + 1)
  <2>1. m + 1 \in 1..4 /\ \A k \in 1..m : k \in 1..4 /\ k <= m + 1
    OBVIOUS
  <2>2. \A x \in Members(q), y \in Members(of(m + 1)) : NotBefore(x, y)
    <3> SUFFICES ASSUME NEW x \in Members(q), NEW y \in Members(of(m + 1)) PROVE NotBefore(x, y)
      OBVIOUS
    <3>1. PICK k \in 1..m : x \in Members(of(k))
      BY <1>4
    <3>2. x.source = layerPrecedence[k] /\ y.source = layerPrecedence[m + 1]
      BY <1>2, <2>1, <3>1
    <3> QED BY <2>1, <3>2 DEF NotBefore
  <2>3. q \in Seq(R) /\ of(m + 1) \in Seq(R) /\ Sorted(q) /\ Sorted(of(m + 1))
    BY <1>1, <1>3, <1>4, <2>1
  <2> HIDE DEF R
  <2>4. q \o of(m + 1) \in Seq(R) /\ Sorted(q \o of(m + 1)) /\ Members(q \o of(m + 1)) = Members(q) \cup Members(of(m + 1))
    BY <2>2, <2>3, JoinIs
  <2>5. Members(q) \cup Members(of(m + 1)) = UNION {Members(of(k)) : k \in 1..m + 1}
    <3> DEFINE U == UNION {Members(of(k)) : k \in 1..m + 1}
    <3>1. Members(q) = UNION {Members(of(k)) : k \in 1..m}
      BY <1>4
    <3>2. ASSUME NEW x \in U PROVE x \in Members(q) \cup Members(of(m + 1))
      <4>1. PICK k \in 1..m + 1 : x \in Members(of(k))
        BY <3>2
      <4>2. CASE k \in 1..m
        BY <3>1, <4>1, <4>2
      <4>3. CASE k = m + 1
        BY <4>1, <4>3
      <4>4. k \in 1..m \/ k = m + 1
        OBVIOUS
      <4> QED BY <4>2, <4>3, <4>4
    <3>3. m + 1 \in 1..m + 1 /\ \A k \in 1..m : k \in 1..m + 1
      OBVIOUS
    <3>4. ASSUME NEW x \in Members(q) PROVE x \in U
      <4>1. PICK k \in 1..m : x \in Members(of(k))
        BY <3>1, <3>4
      <4> QED BY <3>3, <4>1
    <3>5. ASSUME NEW x \in Members(of(m + 1)) PROVE x \in U
      BY <3>3, <3>5
    <3> HIDE DEF U
    <3>6. Members(q) \cup Members(of(m + 1)) = U
      BY <3>2, <3>4, <3>5
    <3> QED BY <3>6 DEF U
  <2> QED BY <1>4, <2>4, <2>5
<1>5. Upto(of(1), 1)
  <2>1. 1 \in 1..4 /\ 1..1 = {1}
    OBVIOUS
  <2> QED BY <1>1, <1>3, <2>1
<1> DEFINE q == of(1) \o of(2) \o of(3) \o of(4)
<1>6. Upto(q, 4)
  <2> HIDE DEF Upto
  <2>1. Upto(of(1) \o of(2), 2)
    <3>1. Upto(of(1) \o of(1 + 1), 1 + 1)
      BY <1>4, <1>5
    <3>2. 1 + 1 = 2
      OBVIOUS
    <3> QED BY <3>1, <3>2
  <2>2. Upto(of(1) \o of(2) \o of(3), 3)
    <3>1. Upto(of(1) \o of(2) \o of(2 + 1), 2 + 1)
      BY <1>4, <2>1
    <3>2. 2 + 1 = 3
      OBVIOUS
    <3> QED BY <3>1, <3>2
  <2>3. Upto(q, 4)
    <3>1. Upto(of(1) \o of(2) \o of(3) \o of(3 + 1), 3 + 1)
      BY <1>4, <2>2
    <3>2. 3 + 1 = 4
      OBVIOUS
    <3> QED BY <3>1, <3>2
  <2> QED BY <2>3
<1>7. InPrecedence(results) = q
  BY DEF InPrecedence, of
<1>8. UNION {Members(of(k)) : k \in 1..4} = Members(results)
  <2>1. \A i \in 1..Len(results) : \E k \in 1..4 : i \in at(k)
    <3> SUFFICES ASSUME NEW i \in 1..Len(results) PROVE \E k \in 1..4 : i \in at(k)
      OBVIOUS
    <3>1. results[i] \in Results(Rule)
      OBVIOUS
    <3>2. results[i].source \in {layerPrecedence[k] : k \in 1..4}
      BY <3>1 DEF Results
    <3> QED BY <3>2
  <2>2. \A k \in 1..4 : \A i \in at(k) : i \in 1..Len(results)
    OBVIOUS
  <2> HIDE DEF at
  <2>3. UNION {Members(of(k)) : k \in 1..4} = UNION {{results[i] : i \in at(k)} : k \in 1..4}
    BY <1>1
  <2>4. UNION {{results[i] : i \in at(k)} : k \in 1..4} = {results[i] : i \in 1..Len(results)}
    BY <2>1, <2>2
  <2> QED BY <2>3, <2>4 DEF Members
<1> HIDE DEF q
<1> QED BY <1>6, <1>7, <1>8

(* What a layer says.                                                      *)
LEMMA SaidIs ==
  ASSUME NEW Rule, \A r \in Rule : r.verdict \in VerdictSet, NEW rules \in Seq(Rule), NEW k \in 1..3, NEW facts,
         NEW said, said = EvaluateConditionRules(layerPrecedence[k], rules, facts)
  PROVE  /\ said \in Seq(Results(Rule))
         /\ Members(said) = {LayerResult(layerPrecedence[k], r) : r \in {r \in ToSet(rules) : Fires(r, facts)}}
<1> DEFINE source == layerPrecedence[k]
           at == {i \in 1..Len(rules) : Fires(rules[i], facts)}
           fired == Kept(rules, at)
<1>1. at \in SUBSET (1..Len(rules))
  OBVIOUS
<1>2. fired \in Seq(Rule) /\ Members(fired) = {rules[i] : i \in at}
  <2> HIDE DEF at
  <2> QED BY <1>1, KeptIs
<1>3. {rules[i] : i \in at} = {r \in ToSet(rules) : Fires(r, facts)}
  BY DEF ToSet
<1>4. said = [i \in 1..Len(fired) |-> LayerResult(source, fired[i])]
  BY DEF EvaluateConditionRules
<1>5. \A r \in Rule : LayerResult(source, r) \in Results(Rule)
  <2>1. k \in 1..4
    OBVIOUS
  <2> QED BY <2>1 DEF LayerResult, Results
<1> HIDE DEF at, fired, source
<1>6. Len(said) = Len(fired) /\ said \in Seq(Results(Rule)) /\ \A i \in 1..Len(fired) : said[i] = LayerResult(source, fired[i])
  <2>1. \A i \in 1..Len(fired) : fired[i] \in Rule /\ LayerResult(source, fired[i]) \in Results(Rule)
    BY <1>2, <1>5
  <2>2. Len(fired) \in Nat
    BY <1>2
  <2> QED BY <1>4, <2>1, <2>2
<1>7. Members(said) = {LayerResult(source, r) : r \in Members(fired)}
  BY <1>6 DEF Members
<1> QED BY <1>2, <1>3, <1>6, <1>7 DEF source

(* The first override of a target.                                         *)
LEMMA FirstForIs ==
  ASSUME NEW overrides, Len(overrides) \in Nat, NEW t, \E i \in 1..Len(overrides) : overrides[i].target = t
  PROVE  /\ FirstFor(overrides, t) \in 1..Len(overrides) /\ overrides[FirstFor(overrides, t)].target = t
         /\ \A j \in 1..Len(overrides) : overrides[j].target = t => FirstFor(overrides, t) <= j
<1> DEFINE is == {i \in 1..Len(overrides) : overrides[i].target = t}
<1>1. is # {} /\ is \in SUBSET Nat
  OBVIOUS
<1>2. FirstFor(overrides, t) = CHOOSE i \in is : \A j \in is : i <= j
  BY DEF FirstFor
<1>3. \A j \in is : j \in 1..Len(overrides) /\ overrides[j].target = t
  OBVIOUS
<1>4. \A j \in 1..Len(overrides) : overrides[j].target = t => j \in is
  OBVIOUS
<1> HIDE DEF is
<1>5. \E i \in is : \A j \in is : i <= j
  BY <1>1, LeastNumber
<1>6. FirstFor(overrides, t) \in is /\ \A j \in is : FirstFor(overrides, t) <= j
  BY <1>2, <1>5
<1> QED BY <1>3, <1>4, <1>6

(* A result once the operator's overrides are applied to it.               *)
Settled(overrides, r) ==
  IF Overridden(overrides, r)
    THEN [r EXCEPT !.source = "session_override", !.verdict = overrides[FirstFor(overrides, r.target)].verdict]
    ELSE r

(* Two columns of a row are written.                                       *)
LEMMA RowStays ==
  ASSUME NEW A, NEW V, NEW I, NEW T, NEW r \in [source : A, verdict : V, id : I, target : T], NEW a \in A, NEW v \in V
  PROVE  [r EXCEPT !.source = a, !.verdict = v] \in [source : A, verdict : V, id : I, target : T]
OBVIOUS

(* It is still the result of some layer.                                   *)
LEMMA SettledIs ==
  ASSUME NEW Rule, NEW overrides, Len(overrides) \in Nat, \A i \in 1..Len(overrides) : overrides[i].verdict \in VerdictSet,
         NEW r \in Results(Rule)
  PROVE  Settled(overrides, r) \in Results(Rule)
<1>1. CASE Overridden(overrides, r)
  <2>1. overrides[FirstFor(overrides, r.target)].verdict \in VerdictSet
    BY <1>1, FirstForIs DEF Overridden
  <2>2. "session_override" \in {layerPrecedence[k] : k \in 1..4}
    <3>1. 4 \in 1..4 /\ layerPrecedence[4] = "session_override"
      BY DEF layerPrecedence
    <3> QED BY <3>1
  <2> DEFINE v == overrides[FirstFor(overrides, r.target)].verdict
             A == {layerPrecedence[k] : k \in 1..4}
             I == {x.id : x \in Rule}
             T == {overrideTarget(layerPrecedence[k], x) : k \in 1..3, x \in Rule}
  <2>3. r \in [source : A, verdict : VerdictSet, id : I, target : T]
    BY DEF Results
  <2>4. Settled(overrides, r) = [r EXCEPT !.source = "session_override", !.verdict = v]
    BY <1>1 DEF Settled
  <2> HIDE DEF v, A, I, T
  <2>5. Settled(overrides, r) \in [source : A, verdict : VerdictSet, id : I, target : T]
    <3>1. v \in VerdictSet /\ "session_override" \in A
      BY <2>1, <2>2 DEF v, A
    <3>2. [r EXCEPT !.source = "session_override", !.verdict = v] \in [source : A, verdict : VerdictSet, id : I, target : T]
      BY ONLY <2>3, <3>1, RowStays
    <3> QED BY <2>4, <3>2
  <2> QED BY <2>5 DEF A, I, T, Results
<1>2. CASE ~Overridden(overrides, r)
  BY <1>2 DEF Settled
<1> QED BY <1>1, <1>2

(* Positions below a position.                                             *)
LEMMA BelowPosition ==
  ASSUME NEW N \in Nat, NEW f \in 1..N
  PROVE  /\ \A j \in 1..f - 1 : j \in 1..N /\ ~(f <= j)
         /\ \A i \in 1..N : (f < i => f \in 1..i - 1) /\ (f <= i /\ ~(f < i) => f = i)
OBVIOUS

(* A rule's verdict once they are, as Effective reads it.                  *)
VerdictGiven(overrides, source, rule) ==
  IF rule.verdict = "ASK" /\ \E i \in 1..Len(overrides) : overrides[i].target = <<source, rule.id, <<rule.when, rule.verdict>>>>
    THEN overrides[CHOOSE i \in 1..Len(overrides) :
                     /\ overrides[i].target = <<source, rule.id, <<rule.when, rule.verdict>>>>
                     /\ \A j \in 1..i - 1 : overrides[j].target # overrides[i].target].verdict
    ELSE rule.verdict

LEMMA SettledVerdict ==
  ASSUME NEW source, NEW rule, rule.id # "", NEW overrides, Len(overrides) \in Nat
  PROVE  Settled(overrides, LayerResult(source, rule)).verdict = VerdictGiven(overrides, source, rule)
<1> DEFINE t == <<source, rule.id, <<rule.when, rule.verdict>>>>
<1>t. VerdictGiven(overrides, source, rule) =
        IF rule.verdict = "ASK" /\ \E i \in 1..Len(overrides) : overrides[i].target = t
          THEN overrides[CHOOSE i \in 1..Len(overrides) :
                           overrides[i].target = t /\ \A j \in 1..i - 1 : overrides[j].target # overrides[i].target].verdict
          ELSE rule.verdict
  BY DEF VerdictGiven
<1> DEFINE r == LayerResult(source, rule)
           f == FirstFor(overrides, t)
           P(i) == overrides[i].target = t /\ \A j \in 1..i - 1 : overrides[j].target # overrides[i].target
           c == CHOOSE i \in 1..Len(overrides) : P(i)
<1>1. r.verdict = rule.verdict /\ r.id = rule.id /\ r.target = t
  BY DEF LayerResult, overrideTarget
<1> HIDE DEF t
<1>2. Overridden(overrides, r) <=> rule.verdict = "ASK" /\ \E i \in 1..Len(overrides) : overrides[i].target = t
  BY <1>1 DEF Overridden
<1>3. CASE ~Overridden(overrides, r)
  BY <1>1, <1>2, <1>3, <1>t DEF Settled
<1>4. CASE Overridden(overrides, r)
  <2>1. /\ f \in 1..Len(overrides) /\ overrides[f].target = t
        /\ \A j \in 1..Len(overrides) : overrides[j].target = t => f <= j
    BY <1>2, <1>4, FirstForIs
  <2> HIDE DEF f, r
  <2> DEFINE N == Len(overrides)
  <2>a. N \in Nat /\ f \in 1..N
    BY <2>1
  <2> HIDE DEF N
  <2>b. /\ \A j \in 1..f - 1 : j \in 1..N /\ ~(f <= j)
        /\ \A i \in 1..N : (f < i => f \in 1..i - 1) /\ (f <= i /\ ~(f < i) => f = i)
    BY <2>a, BelowPosition
  <2>2. \A j \in 1..f - 1 : j \in 1..Len(overrides) /\ ~(f <= j)
    BY <2>b DEF N
  <2>3. P(f)
    BY <2>1, <2>2
  <2>4. c \in 1..Len(overrides) /\ P(c)
    BY <2>1, <2>3
  <2> HIDE DEF c
  <2>5. f <= c
    BY <2>1, <2>4
  <2>6. ~(f < c)
    <3>1. f < c => f \in 1..c - 1
      BY <2>b, <2>4 DEF N
    <3> QED BY <2>1, <2>4, <3>1
  <2>7. f = c
    BY <2>b, <2>4, <2>5, <2>6 DEF N
  <2>8. Settled(overrides, r).verdict = overrides[f].verdict
    <3>1. "verdict" \in DOMAIN r
      BY DEF r, LayerResult
    <3>2. Settled(overrides, r) = [r EXCEPT !.source = "session_override", !.verdict = overrides[f].verdict]
      BY <1>1, <1>4 DEF Settled, f
    <3> QED BY <3>1, <3>2 DEF r, LayerResult
  <2>9. Settled(overrides, r).verdict = overrides[c].verdict
    BY <2>7, <2>8
  <2> QED BY <1>2, <1>4, <1>t, <2>9 DEF c, r
<1> QED BY <1>3, <1>4

(* The layers with rules.                                                  *)
LEMMA ThreeLayers == 1 \in 1..3 /\ 2 \in 1..3 /\ 3 \in 1..3 /\ \A k \in 1..3 : k = 1 \/ k = 2 \/ k = 3
OBVIOUS

(* No verdict is weaker than ALLOW.                                        *)
LEMMA AllowIsLeast == \A v \in VerdictSet : verdictRank("ALLOW") <= verdictRank(v)
BY DEF VerdictSet, verdictRank

(* A sequence mapped member by member.                                     *)
LEMMA MappedIs ==
  ASSUME NEW S, NEW s \in Seq(S), NEW f, NEW T, f = [i \in 1..Len(s) |-> f[i]], \A i \in 1..Len(s) : f[i] \in T
  PROVE  f \in Seq(T) /\ Len(f) = Len(s)
<1>1. Len(s) \in Nat
  OBVIOUS
<1> QED BY <1>1

(* The members of a sequence.                                              *)
LEMMA MemberIs == \A S : \A s \in Seq(S) : Len(s) \in Nat /\ Members(s) = ToSet(s) /\ (\A x \in Members(s) : x \in S) /\ \A i \in 1..Len(s) : s[i] \in Members(s)
BY DEF Members, ToSet

(* Rules that Validate lets through, three layers of them, and overrides.  *)
GateInput(Rule, layers, overrides) ==
  /\ \A r \in Rule : r.verdict \in VerdictSet /\ r.id # ""
  /\ \A k \in 1..3 : layers[k] \in Seq(Rule)
  /\ Len(overrides) \in Nat /\ \A i \in 1..Len(overrides) : overrides[i].verdict \in VerdictSet

(* The verdict of the gate is the strongest of what firing rules say once  *)
(* the operator's overrides are applied, each to the very rule it names;   *)
(* an override is used up only by a question it answered, and the reasons  *)
(* are listed from the highest layer down: for all rules, overrides, facts.*)
THEOREM GatesAreSound ==
  ASSUME NEW Rule, NEW layers, NEW overrides, GateInput(Rule, layers, overrides), NEW facts
  PROVE  GateSound(layers, overrides, facts)
<1> DEFINE R == Results(Rule)
           said(k) == EvaluateConditionRules(layerPrecedence[k], layers[k], facts)
           fired(k) == {r \in ToSet(layers[k]) : Fires(r, facts)}
           results == said(1) \o said(2) \o said(3)
           settled == ResolveOverrides(results, overrides)
           sorted == InPrecedence(settled)
           reasons == Objections(settled)
           verdicts == [i \in 1..Len(reasons) |-> reasons[i].verdict]
           v == Strongest(verdicts)
           g == Gate(layers, overrides, facts)
           eff == Effective(layers, overrides, facts)
           Means(k, r) == Settled(overrides, LayerResult(layerPrecedence[k], r))
<1> HIDE DEF R, said, fired, results, settled, sorted, reasons, verdicts, v, g, eff, Means
<1>1. \A k \in 1..3 : /\ said(k) \in Seq(R)
                      /\ Members(said(k)) = {LayerResult(layerPrecedence[k], r) : r \in fired(k)}
  <2> SUFFICES ASSUME NEW k \in 1..3
               PROVE  /\ said(k) \in Seq(R)
                      /\ Members(said(k)) = {LayerResult(layerPrecedence[k], r) : r \in fired(k)}
    OBVIOUS
  <2>1. layers[k] \in Seq(Rule) /\ \A r \in Rule : r.verdict \in VerdictSet
    BY DEF GateInput
  <2>2. said(k) = EvaluateConditionRules(layerPrecedence[k], layers[k], facts)
    BY DEF said
  <2> QED BY ONLY <2>1, <2>2, SaidIs DEF R, fired
<1>2. /\ results \in Seq(R)
      /\ \A x : x \in Members(results) <=> x \in Members(said(1)) \/ x \in Members(said(2)) \/ x \in Members(said(3))
  <2>1. said(1) \in Seq(R) /\ said(2) \in Seq(R) /\ said(3) \in Seq(R)
    BY <1>1, ThreeLayers
  <2>2. said(1) \o said(2) \in Seq(R) /\ Members(said(1) \o said(2)) = Members(said(1)) \cup Members(said(2))
    BY <2>1, JoinIs
  <2> DEFINE two == said(1) \o said(2)
  <2> HIDE DEF two
  <2>3. two \o said(3) \in Seq(R) /\ Members(two \o said(3)) = Members(two) \cup Members(said(3))
    <3>1. two \in Seq(R)
      BY <2>2 DEF two
    <3> QED BY <2>1, <3>1, JoinIs
  <2>4. results = two \o said(3)
    BY DEF results, two
  <2> QED BY <2>2, <2>3, <2>4 DEF two
<1>3. \A x : x \in Members(results) <=> \E k \in 1..3 : \E r \in fired(k) : x = LayerResult(layerPrecedence[k], r)
  <2> SUFFICES ASSUME NEW x
               PROVE  x \in Members(results) <=> \E k \in 1..3 : \E r \in fired(k) : x = LayerResult(layerPrecedence[k], r)
    OBVIOUS
  <2>1. x \in Members(results) <=> \E k \in 1..3 : x \in Members(said(k))
    BY <1>2, ThreeLayers
  <2>2. \A k \in 1..3 : x \in Members(said(k)) <=> \E r \in fired(k) : x = LayerResult(layerPrecedence[k], r)
    BY <1>1
  <2> QED BY <2>1, <2>2
<1>4. settled \in Seq(R) /\ \A x : x \in Members(settled) <=> \E y \in Members(results) : x = Settled(overrides, y)
  <2>1. \A x \in R : Settled(overrides, x) \in R
    BY SettledIs DEF R, GateInput
  <2>2. settled = [i \in 1..Len(results) |-> Settled(overrides, results[i])]
    BY DEF ResolveOverrides, Settled, settled
  <2>3. Len(results) \in Nat /\ \A i \in 1..Len(results) : results[i] \in R
    BY <1>2
  <2>4. \A i \in 1..Len(results) : settled[i] = Settled(overrides, results[i]) /\ settled[i] \in R
    BY <2>1, <2>2, <2>3
  <2>5. settled \in Seq(R) /\ Len(settled) = Len(results)
    BY <1>2, <2>2, <2>4, MappedIs
  <2> QED BY <2>4, <2>5 DEF Members
<1>5. sorted \in Seq(R) /\ Members(sorted) = Members(settled) /\ Sorted(sorted)
  BY <1>4, SortedIs DEF R, sorted
<1>6. /\ reasons \in Seq(R) /\ Sorted(reasons)
      /\ \A x : x \in Members(reasons) <=> x \in Members(settled) /\ x.verdict # "ALLOW"
  <2> DEFINE at == {i \in 1..Len(sorted) : sorted[i].verdict # "ALLOW"}
  <2>1. at \in SUBSET (1..Len(sorted)) /\ reasons = Kept(sorted, at)
    BY DEF Objections, reasons, sorted
  <2>2. \A x : x \in {sorted[i] : i \in at} <=> x \in Members(sorted) /\ x.verdict # "ALLOW"
    BY DEF Members
  <2> HIDE DEF at
  <2>3. reasons \in Seq(R) /\ Members(reasons) = {sorted[i] : i \in at} /\ Sorted(reasons)
    BY <1>5, <2>1, KeptIs
  <2> QED BY <1>5, <2>2, <2>3
<1>7. verdicts \in Seq(VerdictSet) /\ Len(verdicts) = Len(reasons) /\ \A i \in 1..Len(reasons) : verdicts[i] = reasons[i].verdict
  <2>1. Len(reasons) \in Nat /\ \A i \in 1..Len(reasons) : reasons[i] \in R
    BY <1>6
  <2>2. \A x \in R : x.verdict \in VerdictSet
    BY DEF R, Results
  <2>3. \A i \in 1..Len(reasons) : verdicts[i] = reasons[i].verdict /\ verdicts[i] \in VerdictSet
    BY <2>1, <2>2 DEF verdicts
  <2>4. verdicts = [i \in 1..Len(reasons) |-> verdicts[i]]
    BY DEF verdicts
  <2> QED BY <1>6, <2>3, <2>4, MappedIs
<1>8. /\ v \in VerdictSet /\ (v = "ALLOW" \/ \E x \in Members(reasons) : v = x.verdict)
      /\ \A x \in Members(reasons) : verdictRank(x.verdict) <= verdictRank(v)
  <2>1. /\ v \in VerdictSet /\ (v = "ALLOW" \/ \E i \in 1..Len(verdicts) : v = verdicts[i])
        /\ \A i \in 1..Len(verdicts) : verdictRank(verdicts[i]) <= verdictRank(v)
    BY <1>7, StrongestIs DEF v
  <2> QED BY <1>7, <2>1 DEF Members
<1>9. /\ g.decision.verdict = v /\ g.decision.reasons = reasons /\ (g.decision.allowed <=> v \in {"ALLOW", "FLAG"})
      /\ g.applied = UsedUp(results, overrides) /\ g.results = results
  BY DEF g, Gate, EvaluateLayers, v, verdicts, reasons, settled, results, said
<1>10. \A w : w \in eff <=> \E x \in Members(settled) : w = x.verdict
  <2> DEFINE E(p) == VerdictGiven(overrides, p[1], p[2])
             D == {p \in UNION {{layerPrecedence[k]} \X ToSet(layers[k]) : k \in 1..3} : Fires(p[2], facts)}
  <2>1. eff = {E(p) : p \in D}
    BY DEF Effective, VerdictGiven, eff
  <2>2. \A k \in 1..3 : \A r \in fired(k) : E(<<layerPrecedence[k], r>>) = Means(k, r).verdict
    <3> SUFFICES ASSUME NEW k \in 1..3, NEW r \in fired(k) PROVE E(<<layerPrecedence[k], r>>) = Means(k, r).verdict
      OBVIOUS
    <3>1. layers[k] \in Seq(Rule) /\ r \in ToSet(layers[k])
      BY DEF fired, GateInput
    <3>2. r \in Rule
      BY <3>1, MemberIs
    <3>3. r.id # "" /\ Len(overrides) \in Nat
      BY <3>2 DEF GateInput
    <3>4. <<layerPrecedence[k], r>>[1] = layerPrecedence[k] /\ <<layerPrecedence[k], r>>[2] = r
      OBVIOUS
    <3>5. Settled(overrides, LayerResult(layerPrecedence[k], r)).verdict = VerdictGiven(overrides, layerPrecedence[k], r)
      BY <3>3, SettledVerdict
    <3> QED BY <3>4, <3>5 DEF Means
  <2>3. ASSUME NEW p \in D PROVE \E k \in 1..3 : \E r \in fired(k) : p = <<layerPrecedence[k], r>>
    <3>1. PICK k \in 1..3 : p \in {layerPrecedence[k]} \X ToSet(layers[k])
      BY <2>3
    <3>2. p = <<layerPrecedence[k], p[2]>> /\ p[2] \in ToSet(layers[k]) /\ Fires(p[2], facts)
      BY <2>3, <3>1
    <3> QED BY <3>2 DEF fired
  <2>4. ASSUME NEW k \in 1..3, NEW r \in fired(k) PROVE <<layerPrecedence[k], r>> \in D
    BY <2>4 DEF fired
  <2> HIDE DEF E, D
  <2>5. \A w : w \in eff <=> \E k \in 1..3 : \E r \in fired(k) : w = Means(k, r).verdict
    <3> SUFFICES ASSUME NEW w PROVE w \in eff <=> \E k \in 1..3 : \E r \in fired(k) : w = Means(k, r).verdict
      OBVIOUS
    <3>1. ASSUME w \in eff PROVE \E k \in 1..3 : \E r \in fired(k) : w = Means(k, r).verdict
      <4>1. PICK p \in D : w = E(p)
        BY <2>1, <3>1
      <4> QED BY <2>2, <2>3, <4>1
    <3>2. ASSUME NEW k \in 1..3, NEW r \in fired(k), w = Means(k, r).verdict PROVE w \in eff
      BY <2>1, <2>2, <2>4, <3>2
    <3> QED BY <3>1, <3>2
  <2>6. \A x : x \in Members(settled) <=> \E k \in 1..3 : \E r \in fired(k) : x = Means(k, r)
    <3> SUFFICES ASSUME NEW x PROVE x \in Members(settled) <=> \E k \in 1..3 : \E r \in fired(k) : x = Means(k, r)
      OBVIOUS
    <3>1. x \in Members(settled) <=> \E y \in Members(results) : x = Settled(overrides, y)
      BY <1>4
    <3>2. (\E y \in Members(results) : x = Settled(overrides, y)) <=> \E k \in 1..3 : \E r \in fired(k) : x = Means(k, r)
      BY <1>3 DEF Means
    <3> QED BY <3>1, <3>2
  <2> QED BY <2>5, <2>6
<1>11. v \in eff \cup {"ALLOW"} /\ \A w \in eff \cup {"ALLOW"} : verdictRank(w) <= verdictRank(v)
  <2>1. v \in eff \cup {"ALLOW"}
    BY <1>6, <1>8, <1>10
  <2>2. verdictRank("ALLOW") <= verdictRank(v)
    BY <1>8, AllowIsLeast
  <2>3. ASSUME NEW w \in eff PROVE verdictRank(w) <= verdictRank(v)
    <3>1. PICK x \in Members(settled) : w = x.verdict
      BY <1>10
    <3>2. CASE x.verdict = "ALLOW"
      BY <2>2, <3>1, <3>2
    <3>3. CASE x.verdict # "ALLOW"
      BY <1>6, <1>8, <3>1, <3>3
    <3> QED BY <3>2, <3>3
  <2> QED BY <2>1, <2>2, <2>3
<1>12. Blocks(g.decision) <=> ~g.decision.allowed
  BY <1>8, <1>9 DEF Blocks, VerdictSet
<1>13. ASSUME NEW i \in UsedUp(results, overrides)
       PROVE  \E x \in Members(results) : /\ Overridden(overrides, x) /\ i = FirstFor(overrides, x.target)
                                          /\ x.target = overrides[i].target
  <2>1. PICK n \in 1..Len(results) : Overridden(overrides, results[n]) /\ i = FirstFor(overrides, results[n].target)
    BY <1>13 DEF UsedUp
  <2>2. overrides[i].target = results[n].target
    BY <2>1, FirstForIs DEF Overridden, GateInput
  <2> QED BY <2>1, <2>2 DEF Members
<1>14. \A i \in g.applied : \E r \in ToSet(g.results) : r.verdict = "ASK" /\ r.target = overrides[i].target
  <2>1. Members(results) = ToSet(results)
    BY <1>2, MemberIs
  <2> SUFFICES ASSUME NEW i \in UsedUp(results, overrides)
               PROVE  \E r \in Members(results) : r.verdict = "ASK" /\ r.target = overrides[i].target
    BY <1>9, <2>1
  <2> QED BY <1>13 DEF Overridden
<1>15. ASSUME NEW i \in g.applied, NEW j \in g.applied, overrides[i].target = overrides[j].target PROVE i = j
  <2>1. i = FirstFor(overrides, overrides[i].target)
    BY <1>9, <1>13, <1>15
  <2>2. j = FirstFor(overrides, overrides[j].target)
    BY <1>9, <1>13, <1>15
  <2> QED BY <1>15, <2>1, <2>2
<1>16. \A i, j \in 1..Len(g.decision.reasons) :
         i < j => \E k, m \in 1..4 : k <= m /\ g.decision.reasons[i].source = layerPrecedence[k]
                                           /\ g.decision.reasons[j].source = layerPrecedence[m]
  <2>1. Sorted(g.decision.reasons)
    BY <1>6, <1>9
  <2> QED BY <2>1 DEF Sorted, NotBefore
<1>17. /\ g.decision.verdict \in eff \cup {"ALLOW"}
       /\ \A w \in eff \cup {"ALLOW"} : verdictRank(w) <= verdictRank(g.decision.verdict)
  BY <1>9, <1>11
<1> QED BY <1>12, <1>14, <1>15, <1>16, <1>17 DEF GateSound, g, eff
=============================================================================
