----------------------------- MODULE MCSchedule ------------------------------
(***************************************************************************)
(* Batches and panels (Batch) and one job's fallbacks and repairs (Retry). *)
(* A behaviour is of one kind; the part that does not run stays where it   *)
(* began.                                                                  *)
(***************************************************************************)
EXTENDS Batch, Retry

VARIABLE part   \* "batch" or "job"

mcVars == <<part, bVars, rtVars>>

\* Plans of up to four jobs; a job produces the artifact of its own number.
P(jobs, deps, consumes, tokens) ==
    [jobs |-> jobs, ok |-> [j \in jobs |-> TRUE], tokens |-> [j \in jobs |-> tokens],
     deps |-> [j \in jobs |-> IF j \in DOMAIN deps THEN deps[j] ELSE {}],
     produces |-> [j \in jobs |-> {j}],
     consumes |-> [j \in jobs |-> IF j \in DOMAIN consumes THEN consumes[j] ELSE {}],
     mode |-> [j \in jobs |-> "architect"]]

Chain == P(1..3, <<{}, {1}, {2}>>, <<{}, {1}, {1}>>, 1)
Diamond == P(1..4, <<{}, {1}, {1}, {2, 3}>>, <<{}, {}, {1}, {2, 3}>>, 1)
Wide == P(1..3, <<>>, <<>>, 1)
Backwards == P(1..3, <<{3}, {3}, {}>>, <<{3}, {}, {}>>, 1)
Cycle == P(1..2, <<{2}, {1}>>, <<>>, 1)
SelfLoop == P(1..1, <<{1}>>, <<>>, 1)
Unknown == P(1..2, <<{}, {7}>>, <<>>, 1)
Orphan == P(1..2, <<>>, <<{}, {1}>>, 1)
TooDear == P(1..3, <<>>, <<>>, 4)
Bad == [Wide EXCEPT !.ok[2] = FALSE]

MCPlans == {Chain, Diamond, Wide, Backwards, Cycle, SelfLoop, Unknown, Orphan, TooDear, Bad}

G == GeneratePlan(3, 8, 2)
\* A panel of two beside a job that no panel knows.
Guest == LET g == GeneratePlan(2, 8, 0)  more(f, v) == [j \in 1..5 |-> IF j = 5 THEN v ELSE f[j]] IN
         [g EXCEPT !.plan = [jobs |-> 1..5, ok |-> more(@.ok, TRUE), tokens |-> more(@.tokens, 1),
                             deps |-> more(@.deps, {}), produces |-> more(@.produces, {5}),
                             consumes |-> more(@.consumes, {}), mode |-> more(@.mode, "scout")]]
MCPanels ==
    {G, GeneratePlan(2, 8, 0),
     [G EXCEPT !.spec.minUnique = 2, !.spec.fallbackBy = "model_family"],
     [G EXCEPT !.spec.minSuccess = 1],                        \* no quorum of one
     [G EXCEPT !.spec.hardTimeout = 1, !.spec.memberTimeout = 2],
     [G EXCEPT !.plan.mode[1] = "worker"],
     [G EXCEPT !.plan.consumes[5] = {4, 1}],                  \* the judge reads a member
     [G EXCEPT !.plan.deps[5] = {4}],
     Guest}

NoJob == [auto |-> FALSE, allow |-> {}, max |-> 2, fix |-> FALSE, fixMax |-> 1, backend |-> NoAgent, readonly |-> FALSE]
NoPlan == [plan |-> SelfLoop, panel |-> NoSpec, halt |-> FALSE, par |-> 1]

MCInit ==
    \/ part = "batch" /\ job = NoJob /\ RetryInit /\ BatchInit
    \/ part = "job" /\ bPlan = NoPlan /\ BatchInit /\ RetryInit

InBatch == part = "batch" /\ UNCHANGED <<part, rtVars>>
InJob == part = "job" /\ UNCHANGED <<part, bVars>>

MCNext == (InBatch /\ BatchNext) \/ (InJob /\ RetryNext)

MCSpec ==
    /\ MCInit /\ [][MCNext]_mcVars
    /\ WF_mcVars(InBatch /\ BatchStep) /\ (\A w \in Workers : WF_mcVars(InBatch /\ WorkerStep(w)))
    /\ WF_mcVars(InJob /\ RetryNext)

\* Whatever a batch, a panel or a job meets, it ends: a halted level is drained,
\* no worker and feeder wait for each other, and both retry loops are bounded.
ScheduleEnds == <>(IF part = "batch" THEN bPc \in {"refused", "done", "failed"} ELSE rtPc = "done")
=============================================================================
