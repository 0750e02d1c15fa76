-------------------------------- MODULE Retry --------------------------------
(***************************************************************************)
(* One job from the outside: Runner.Run's fallback loop over backends and  *)
(* RunWithAutoRepair's loop over repair runs.  runOnce is one step with an *)
(* outcome (RunPipeline has its inside) and the route it resolved.         *)
(***************************************************************************)
EXTENDS Router, Sequences

CONSTANTS Allowlists,     \* routing.candidates of the contract, {} when unset
          FallbackSet,    \* routing.max_attempts, 0 when unset
          RepairSet       \* repair.max_attempts, 0 when unset

\* Backends are numbered, known or not; the contract's validation has refused
\* what is negative.
ASSUME RetryAssumption ==
    Allowlists \subseteq SUBSET Nat /\ FallbackSet \subseteq Nat /\ RepairSet \subseteq Nat

VARIABLES
    job,    \* the contract: agent, allow, max, auto, repairMax, backend, readonly
    rtPc,   \* where Run and RunWithAutoRepair stand
    cur,    \* the contract of this Run: allowlist, automatic agent, repair
    att,    \* attempt of the fallback loop, backends that failed, backends launched
    rec,    \* the record runOnce returned
    led,    \* the ledger: rows with repair_of = root, the last fallback attempt
    keep    \* the record RunWithAutoRepair would return

rtVars == <<job, rtPc, cur, att, rec, led, keep>>

RoutineInfra == {"RATE_LIMIT", "QUOTA_EXHAUSTED", "AUTH_EXPIRED"}
IsUnusualInfraFailure(t) == t \in {"BINARY_MISSING", "FLAG_DRIFT", "TRANSIENT_UPSTREAM"}
IsInfraFailure(t) == t \in RoutineInfra \/ IsUnusualInfraFailure(t)

RoutingMaxAttempts(n) == IF n = 0 THEN 2 ELSE n
RepairMaxAttempts(n) == IF n <= 0 THEN 1 ELSE IF n > 2 THEN 2 ELSE n

NoRec == [id |-> FALSE, st |-> "none", tax |-> "", agent |-> NoAgent, clean |-> FALSE, err |-> FALSE]
FirstAttempt == [n |-> 1, failed |-> {}, launched |-> <<>>]

RetryInit ==
    /\ \E auto, fix, ro \in BOOLEAN, a \in Allowlists, m \in FallbackSet, k \in RepairSet, b \in Registered \cup {NoAgent} :
         /\ ~auto => a = {} /\ m = 0
         /\ ~fix => k = 0 /\ ~ro /\ b = NoAgent
         /\ job = [auto |-> auto, allow |-> a, max |-> RoutingMaxAttempts(m),
                   fix |-> fix, fixMax |-> RepairMaxAttempts(k), backend |-> b, readonly |-> ro]
    /\ rtPc = "run" /\ cur = [auto |-> job.auto, allow |-> job.allow, repair |-> FALSE]
    /\ att = FirstAttempt /\ rec = NoRec /\ keep = NoRec /\ led = [repairs |-> 0, fallback |-> 0]

routingFallbackEnabled == cur.auto /\ job.max > 1

----------------------------------------------------------------------------
\* withExcludedRoutingCandidates: names that are no backend are dropped too.
withExcludedRoutingCandidates(allow, failed) ==
    IF failed = {} THEN allow ELSE candidatePool(allow) \ failed

\* Mutant: there is always a candidate left.
hasRemainingRoutingCandidate_True(allow, failed) == TRUE

hasRemainingRoutingCandidate(allow, failed) == candidatePool(allow) \ failed # {}

\* The agent of a contract that names one: the fixed backend 1.
FixedAgent == 1
RouteChoices == IF cur.auto THEN candidatePool(cur.allow) ELSE {IF cur.repair /\ job.backend # NoAgent THEN job.backend ELSE FixedAgent}

\* runOnce: an error before or after its row is written, a refusal by the spend
\* cap, or a verdict.  A clean record changed nothing, called no tool and
\* touched no file.  A repair's row names the root of the lineage.
Rec(id, st, tax, agent, clean, err) ==
    [id |-> id, st |-> st, tax |-> tax, agent |-> agent, clean |-> clean, err |-> err]

RunOnceRefused ==
    {[NoRec EXCEPT !.err = TRUE], Rec(TRUE, "QUARANTINED", "SPEND_CAP", NoAgent, FALSE, FALSE)}
RunOnceRecords(n, clean) ==
    {Rec(TRUE, "APPROVED", "", n, FALSE, FALSE), Rec(TRUE, "RUNNING", "", n, FALSE, TRUE),
     Rec(TRUE, "QUARANTINED", "VALIDATION", n, FALSE, FALSE),
     Rec(TRUE, "QUARANTINED", "RATE_LIMIT", n, clean, FALSE),
     Rec(TRUE, "QUARANTINED", "FLAG_DRIFT", n, clean, FALSE)}

RunOnceReturns ==
    /\ rtPc = "run"
    /\ \/ rec' \in RunOnceRefused
       \/ \E n \in RouteChoices, clean \in BOOLEAN : rec' \in RunOnceRecords(n, clean)
    /\ att' = [att EXCEPT !.launched = IF rec'.agent = NoAgent THEN @ ELSE Append(@, rec'.agent)]
    /\ led' = [led EXCEPT !.repairs = IF rec'.id /\ cur.repair THEN @ + 1 ELSE @]
    /\ rtPc' = IF routingFallbackEnabled THEN "eligible" ELSE "returned"
    /\ UNCHANGED <<job, cur, keep>>

\* fallbackEligible: an infrastructure failure of a clean run; an unusual one
\* asks the policy gate, which may block, and gives back what the gate reserved.
Candidate == rec.id /\ IsInfraFailure(rec.tax) /\ rec.clean
Eligible(e) == IF Candidate THEN e \/ IsUnusualInfraFailure(rec.tax) ELSE ~e

\* The ledger, the policies or the gate cannot be read, or the attempt not
\* recorded.
EligibilityFails ==
    /\ rtPc = "eligible" /\ rec.id /\ (Candidate \/ att.n > 1)
    /\ rtPc' = "returned" /\ rec' = [rec EXCEPT !.err = TRUE]
    /\ UNCHANGED <<job, cur, att, led, keep>>

\* Run's loop: the attempt is recorded, then the loop returns or goes on with
\* the candidates that did not fail.
Fallback ==
    /\ rtPc = "eligible"
    /\ \E e \in BOOLEAN :
       LET failed == att.failed \cup {rec.agent} IN
       /\ Eligible(e)
       /\ led' = [led EXCEPT !.fallback = IF (e \/ att.n > 1) /\ rec.id THEN att.n ELSE @]
       /\ IF \/ rec.err \/ ~e \/ att.n >= job.max \/ rec.agent = NoAgent
             \/ ~hasRemainingRoutingCandidate(job.allow, failed)
          THEN rtPc' = "returned" /\ UNCHANGED <<cur, att>>
          ELSE /\ rtPc' = "run" /\ att' = [att EXCEPT !.n = @ + 1, !.failed = failed]
               /\ cur' = [cur EXCEPT !.allow = withExcludedRoutingCandidates(@, failed)]
    /\ UNCHANGED <<job, rec, keep>>

----------------------------------------------------------------------------
\* RunWithAutoRepair after a Run: the first one, or a repair whose error leaves
\* the record of the run before it.  keep is that record (current).
Repairable == keep'.st = "QUARANTINED" /\ keep'.tax # "SPEND_CAP" /\ job.fix /\ ~job.readonly

RunReturns ==
    /\ rtPc = "returned"
    /\ keep' = IF cur.repair /\ rec.err THEN keep ELSE rec
    /\ rtPc' = IF ~rec.err /\ Repairable THEN "count" ELSE "done"
    /\ UNCHANGED <<job, cur, att, rec, led>>

\* RepairAttempts counts the rows of the lineage; the packet is generated from
\* the run that failed last; then the repair contract runs like any other.
CountAttempts ==
    /\ rtPc = "count"
    /\ \/ rtPc' = "done" /\ UNCHANGED <<cur, att>>   \* the bound, or a read that fails
       \/ /\ led.repairs < job.fixMax
          /\ rtPc' = "run" /\ att' = FirstAttempt
          /\ cur' = [allow |-> job.allow, auto |-> job.auto /\ job.backend = NoAgent, repair |-> TRUE]
    /\ UNCHANGED <<job, rec, led, keep>>

RetryNext == RunOnceReturns \/ EligibilityFails \/ Fallback \/ RunReturns \/ CountAttempts

----------------------------------------------------------------------------
\* Within one Run no backend is launched twice: one that failed is out of the
\* candidate list, and a list that would be empty, which means every backend,
\* is never used; what is launched is one of the contract's candidates, and no
\* more are launched than max_attempts allows, nor more repairs run than the
\* lineage's bound.
NoBackendTwice ==
    /\ cur.auto => \A i \in DOMAIN att.launched : att.launched[i] \in candidatePool(job.allow)
    /\ led.repairs <= job.fixMax - 1 + job.max
    /\ \A i, j \in DOMAIN att.launched : att.launched[i] = att.launched[j] => i = j
    /\ Len(att.launched) <= job.max
=============================================================================
