-------------------------------- MODULE Batch --------------------------------
(***************************************************************************)
(* gov run-plan and gov panel: Runner.RunBatchOrdered over the levels of a *)
(* plan, RunBatch's feeder, workers and collector for one level, and       *)
(* RunPanel, which runs the first level itself and hands the rest over.    *)
(* A job's own run is one step with an outcome; Retry has its inside.      *)
(***************************************************************************)
EXTENDS Plan, Integers, Sequences

CONSTANTS Plans,       \* the plans to run
          Panels,      \* pairs of a plan and a panel over it
          ParallelSet, \* values of --parallel
          MaxTokens    \* --max-total-tokens

\* Jobs are numbers and their parts are indexed by them.
IsPlan(p) == /\ p.jobs \in SUBSET Nat /\ IsFiniteSet(p.jobs)
             /\ DOMAIN p.deps = p.jobs /\ DOMAIN p.produces = p.jobs

\* validatePanelQuorum refuses negative numbers, so panels have none.
ASSUME BatchAssumption ==
    /\ ParallelSet \subseteq Int
    /\ \A p \in Plans : IsPlan(p)
    /\ \A g \in Panels : IsPlan(g.plan) /\ {g.spec.minSuccess, g.spec.minUnique} \subseteq Nat

Workers == 1..4
effectiveParallel(n) == IF n <= 0 THEN 2 ELSE IF n > 4 THEN 4 ELSE n

VARIABLES
    bPlan,    \* the plan, the panel over it (NoSpec for a batch), the options
    bPc,      \* where RunBatchOrdered or RunPanel stands
    bLevels,  \* the levels that are left
    bQueue,   \* the jobs the feeder has still to offer, smallest first
    wk,       \* the workers of this level
    bHalt,    \* halted, of this level and of the whole batch
    bRes,     \* the results so far: how many per job, and the last status
    bLate,    \* launches after the first quarantine was known
    pn        \* the panel's own progress

bVars == <<bPlan, bPc, bLevels, bQueue, wk, bHalt, bRes, bLate, pn>>

\* A batch: no panel over the plan.
NoSpec == [members |-> {}, comparison |-> 0, judge |-> 0, minSuccess |-> 0, memberTimeout |-> 0,
           hardTimeout |-> 0, minUnique |-> 0, groupBy |-> "", fallbackBy |-> ""]
NoPanel == [left |-> {}, succ |-> {}, timeout |-> FALSE, degraded |-> FALSE, used |-> {}, kept |-> {}]
NoRes(p) == [j \in p.jobs |-> [n |-> 0, st |-> "none"]]
Idle == [pc |-> "off", job |-> 0, st |-> "none"]

BatchInit ==
    /\ \E h \in BOOLEAN, par \in ParallelSet :
         \/ \E p \in Plans : bPlan = [plan |-> p, panel |-> NoSpec, halt |-> h, par |-> effectiveParallel(par)]
         \/ \E g \in Panels : bPlan = [plan |-> g.plan, panel |-> g.spec, halt |-> h, par |-> effectiveParallel(par)]
    /\ bPc = "validate" /\ bLevels = <<>> /\ bQueue = {}
    /\ wk = [w \in Workers |-> Idle] /\ bHalt = [level |-> FALSE, all |-> FALSE]
    /\ bRes = NoRes(bPlan.plan) /\ bLate = 0 /\ pn = NoPanel

IsPanel == bPlan.panel # NoSpec

Record(res, S, st) == [j \in DOMAIN res |-> IF j \in S THEN [n |-> res[j].n + 1, st |-> st] ELSE res[j]]

\* ValidatePlanManifest; RunPanel needs a member level and a comparison level.
Validate ==
    /\ bPc = "validate"
    /\ LET p == bPlan.plan
           fine == ValidatePlan(p, MaxTokens) /\ (IsPanel => validatePanelSpec(bPlan.panel, p))
           levels == IF fine THEN TopologicalLevels(p) ELSE <<>> IN
       IF fine /\ (IsPanel => Len(levels) >= 2)
       THEN /\ bLevels' = levels
            /\ bPc' = IF IsPanel THEN "assign" ELSE "level"
       ELSE bPc' = "refused" /\ UNCHANGED bLevels
    /\ UNCHANGED <<bPlan, bQueue, wk, bHalt, bRes, bLate, pn>>

----------------------------------------------------------------------------
(* RunBatchOrdered and RunBatch. *)

SkipLevel ==
    /\ bPc = "level" /\ bLevels # <<>> /\ bHalt.all
    /\ bRes' = Record(bRes, Head(bLevels), "SKIPPED") /\ bLevels' = Tail(bLevels)
    /\ UNCHANGED <<bPlan, bPc, bQueue, wk, bHalt, bLate, pn>>

\* RecordBatch, the configuration or the accountant may fail before anything runs.
OpenLevel ==
    /\ bPc = "level" /\ bLevels # <<>> /\ ~bHalt.all
    /\ \/ /\ bQueue' = Head(bLevels) /\ bPc' = "run"
          /\ wk' = [w \in Workers |-> IF w <= bPlan.par THEN [Idle EXCEPT !.pc = "recv"] ELSE Idle]
          /\ bHalt' = [bHalt EXCEPT !.level = FALSE]
       \/ bPc' = "failed" /\ UNCHANGED <<bQueue, wk, bHalt>>
    /\ UNCHANGED <<bPlan, bLevels, bRes, bLate, pn>>

BatchOver ==
    /\ bPc = "level" /\ bLevels = <<>> /\ bPc' = "done"
    /\ UNCHANGED <<bPlan, bLevels, bQueue, wk, bHalt, bRes, bLate, pn>>

Step(w, v) == wk' = [wk EXCEPT ![w] = v]

First(S, j) == j \in S /\ \A k \in S : j <= k

\* Workers are interchangeable: of those that wait, the first moves.
Waiting(w) == wk[w].pc = "recv" /\ \A v \in Workers : v < w => wk[v].pc # "recv"

\* The channel is not buffered: the feeder and the worker meet.
Receive(w) ==
    /\ bPc = "run" /\ Waiting(w)
    /\ \E j \in bQueue :
         /\ First(bQueue, j) /\ bQueue' = bQueue \ {j}
         /\ Step(w, [pc |-> "check", job |-> j, st |-> "none"])
    /\ UNCHANGED <<bPlan, bPc, bLevels, bHalt, bRes, bLate, pn>>

\* Mutant: a halted worker stops without draining its jobs.
CheckHalt_Leaves(w) ==
    /\ wk[w].pc = "check"
    /\ IF bPlan.halt /\ bHalt.level
       THEN bRes' = Record(bRes, {wk[w].job}, "SKIPPED") /\ Step(w, [Idle EXCEPT !.pc = "gone"])
       ELSE Step(w, [wk[w] EXCEPT !.pc = "reserve"]) /\ UNCHANGED bRes
    /\ UNCHANGED <<bPlan, bPc, bLevels, bQueue, bHalt, bLate, pn>>

\* Mutant: the halt switch is not looked at.
CheckHalt_Never(w) ==
    /\ wk[w].pc = "check"
    /\ Step(w, [wk[w] EXCEPT !.pc = "reserve"])
    /\ UNCHANGED <<bPlan, bPc, bLevels, bQueue, bHalt, bRes, bLate, pn>>

\* A halted level is drained: every job left gets its result.
CheckHalt(w) ==
    /\ wk[w].pc = "check"
    /\ IF bPlan.halt /\ bHalt.level
       THEN bRes' = Record(bRes, {wk[w].job}, "SKIPPED") /\ Step(w, [Idle EXCEPT !.pc = "recv"])
       ELSE Step(w, [wk[w] EXCEPT !.pc = "reserve"]) /\ UNCHANGED bRes
    /\ UNCHANGED <<bPlan, bPc, bLevels, bQueue, bHalt, bLate, pn>>

\* runBatchJob: the accountant refuses, or the job is launched.
Launch(w) ==
    /\ wk[w].pc = "reserve"
    /\ \/ Step(w, [wk[w] EXCEPT !.pc = "send", !.st = "SKIPPED"]) /\ UNCHANGED bLate
       \/ /\ Step(w, [wk[w] EXCEPT !.pc = "running"])
          /\ bLate' = IF bPlan.halt /\ (bHalt.level \/ bHalt.all) THEN bLate + 1 ELSE bLate
    /\ UNCHANGED <<bPlan, bPc, bLevels, bQueue, bHalt, bRes, pn>>

Outcomes == {"APPROVED", "QUARANTINED", "ERROR"}

\* RunWithAutoRepair returns; the quarantine is noted before the result is sent.
Finish(w) ==
    /\ wk[w].pc = "running"
    /\ \E st \in Outcomes :
         /\ Step(w, [wk[w] EXCEPT !.pc = "send", !.st = st])
         /\ bHalt' = [bHalt EXCEPT !.level = @ \/ (bPlan.halt /\ st = "QUARANTINED")]
    /\ UNCHANGED <<bPlan, bPc, bLevels, bQueue, bRes, bLate, pn>>

\* Mutant: the result of a job that ended in an error is dropped.
Send_Lossy(w) ==
    /\ wk[w].pc = "send"
    /\ bRes' = (IF wk[w].st = "ERROR" THEN bRes ELSE Record(bRes, {wk[w].job}, wk[w].st)) /\ Step(w, [Idle EXCEPT !.pc = "recv"])
    /\ UNCHANGED <<bPlan, bPc, bLevels, bQueue, bHalt, bLate, pn>>

Send(w) ==
    /\ wk[w].pc = "send"
    /\ bRes' = Record(bRes, {wk[w].job}, wk[w].st) /\ Step(w, [Idle EXCEPT !.pc = "recv"])
    /\ UNCHANGED <<bPlan, bPc, bLevels, bQueue, bHalt, bLate, pn>>

Leave(w) ==
    /\ bPc = "run" /\ Waiting(w) /\ bQueue = {}
    /\ Step(w, [Idle EXCEPT !.pc = "gone"])
    /\ UNCHANGED <<bPlan, bPc, bLevels, bQueue, bHalt, bRes, bLate, pn>>

\* Every worker has left and the feeder has handed out its last job: the result
\* channel is closed and the summary written.  When that write fails the whole
\* batch returns without this level's results.
CloseLevel ==
    /\ bPc = "run" /\ bQueue = {} /\ \A w \in Workers : wk[w].pc \in {"off", "gone"}
    /\ \/ /\ bPc' = "level" /\ bLevels' = Tail(bLevels)
          /\ bHalt' = [bHalt EXCEPT !.all = bPlan.halt /\ \E j \in Head(bLevels) : bRes[j].st = "QUARANTINED"]
          /\ UNCHANGED bRes
       \/ /\ bPc' = "failed" /\ bRes' = [j \in DOMAIN bRes |-> IF j \in Head(bLevels) THEN NoRes(bPlan.plan)[j] ELSE bRes[j]]
          /\ UNCHANGED <<bLevels, bHalt>>
    /\ wk' = [w \in Workers |-> Idle]
    /\ UNCHANGED <<bPlan, bQueue, bLate, pn>>

----------------------------------------------------------------------------
(* RunPanel. *)

\* resolvePanelBackends: an automatic member gets a backend of a group no
\* earlier member uses or, degraded, one that is used already; a member that
\* names its backend keeps it.  Groups are numbered; n are used in the end.
Assign ==
    /\ bPc = "assign"
    /\ \/ bPc' = "failed" /\ UNCHANGED pn
       \/ \E n \in 1..Cardinality(bPlan.panel.members), reused \in BOOLEAN :
            /\ bPlan.panel.members \subseteq Head(bLevels)
            /\ reused => n < Cardinality(bPlan.panel.members)
            /\ pn' = [pn EXCEPT !.used = 1..n, !.left = Head(bLevels), !.degraded = n < EffectiveMinUnique(bPlan.panel) \/ reused]
            /\ bPc' = "member"
    /\ UNCHANGED <<bPlan, bLevels, bQueue, wk, bHalt, bRes, bLate>>

\* Every job of the first level takes its turn, a member of the panel or not.
MemberEnds(st, timeout) ==
    /\ bPc = "member"
    /\ \E j \in pn.left :
         /\ First(pn.left, j) /\ bRes' = Record(bRes, {j}, st)
         /\ pn' = [pn EXCEPT !.left = @ \ {j}, !.timeout = @ \/ timeout,
                             !.succ = IF st = "APPROVED" THEN @ \cup {j} ELSE @]
    /\ UNCHANGED <<bPlan, bPc, bLevels, bQueue, wk, bHalt, bLate>>

\* The hard timeout has passed; or the quorum is there; or the member runs.
MemberTimesOut == MemberEnds("TIMEOUT", TRUE)
MemberSkipped ==
    ~pn.timeout /\ Cardinality(pn.succ) >= EffectiveMinSuccess(bPlan.panel) /\ MemberEnds("SKIPPED", FALSE)
MemberRuns ==
    /\ ~pn.timeout /\ Cardinality(pn.succ) < EffectiveMinSuccess(bPlan.panel)
    /\ \E st \in Outcomes : MemberEnds(st, FALSE)

\* adjustComparisonConsumes: the comparison consumes what succeeded members
\* produced; every other job keeps what it consumes.
Kept == UNION {bPlan.plan.produces[m] : m \in pn.succ \cap bPlan.panel.members}

\* Mutant: one member is a panel.
EnoughMembers_One == Cardinality(pn.succ) >= 1

EnoughMembers == Cardinality(pn.succ) >= 2

MembersOver ==
    /\ bPc = "member" /\ pn.left = {}
    /\ LET rest == Tail(bLevels)
           degraded == pn.degraded \/ pn.timeout \/ Cardinality(pn.succ) < EffectiveMinSuccess(bPlan.panel) IN
       IF ~EnoughMembers
       THEN /\ bRes' = Record(bRes, UNION {rest[n] : n \in DOMAIN rest}, "SKIPPED")
            /\ bPc' = "done" /\ bLevels' = <<>> /\ pn' = [pn EXCEPT !.degraded = TRUE]
       ELSE /\ pn' = [pn EXCEPT !.degraded = degraded, !.kept = Kept]
            /\ bPc' = "level" /\ bLevels' = rest /\ UNCHANGED bRes
    /\ UNCHANGED <<bPlan, bQueue, wk, bHalt, bLate>>

----------------------------------------------------------------------------
BatchStep ==
    \/ Validate \/ SkipLevel \/ OpenLevel \/ BatchOver \/ CloseLevel
    \/ Assign \/ MemberTimesOut \/ MemberSkipped \/ MemberRuns \/ MembersOver

WorkerStep(w) == Receive(w) \/ CheckHalt(w) \/ Launch(w) \/ Finish(w) \/ Send(w) \/ Leave(w)

BatchNext == BatchStep \/ \E w \in Workers : WorkerStep(w)

----------------------------------------------------------------------------
\* A plan that ran to its end has exactly one result for every job, also those
\* a halt, a spend cap, a quorum or a timeout kept from running; and its levels
\* put every job after what it depends on.
OneResult ==
    /\ bPc = "done" => \A j \in bPlan.plan.jobs : bRes[j].n = 1
    /\ \A j \in bPlan.plan.jobs : bRes[j].n <= 1
    /\ (bPc \in {"level", "assign"} /\ \A j \in bPlan.plan.jobs : bRes[j].n = 0)
         => LevelsRespect(bPlan.plan, bLevels)

\* With halt-on-first-quarantine, after the first quarantine is known only jobs
\* that had passed the check already are still launched: fewer than the workers.
HaltBounds == bLate <= bPlan.par - 1

\* What the comparison consumes is what the members that succeeded produced and
\* nothing else.  When the first level is the panel's members alone, the
\* comparison runs only over at least two members' artifacts, and a panel that
\* does not call itself degraded had its quorum and its diversity.
Approved == {m \in bPlan.panel.members : bRes[m].st = "APPROVED"}
OnlyMembersFirst == \A j \in bPlan.plan.jobs : bPlan.plan.deps[j] = {} => j \in bPlan.panel.members
PanelSound ==
    IsPanel /\ bPc \notin {"validate", "refused"} =>
      /\ pn.kept # {} => pn.kept = UNION {bPlan.plan.produces[m] : m \in Approved}
      /\ OnlyMembersFirst =>
           /\ bRes[bPlan.panel.comparison].st \in Outcomes => pn.kept # {} /\ Cardinality(Approved) >= 2
           /\ bPc = "done" /\ ~pn.degraded =>
                /\ Cardinality(Approved) >= EffectiveMinSuccess(bPlan.panel)
                /\ Cardinality(pn.used) >= EffectiveMinUnique(bPlan.panel)

\* Not so for a plan with other jobs in its first level: they are counted as
\* members, and the comparison may run over one artifact or none.
ComparedAreTwo ==
    IsPanel /\ bPc \notin {"validate", "refused"} /\ bRes[bPlan.panel.comparison].st \in Outcomes => Cardinality(Approved) >= 2
=============================================================================
