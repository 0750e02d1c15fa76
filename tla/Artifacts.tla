------------------------------ MODULE Artifacts ------------------------------
(***************************************************************************)
(* Artifacts that pass from one run to the next: a producing run collects  *)
(* what it declared into the artifact store, has it assayed and is         *)
(* approved or not; a consuming run takes the newest approved one, keeps   *)
(* its bytes and verifies them around everything it executes.  The store,  *)
(* the work tree and a plainly staged copy are files somebody may change.  *)
(***************************************************************************)
EXTENDS Naturals, FiniteSets, FiniteSetsExt

CONSTANTS Payloads,   \* contents of an artifact; a positive number each
          Passing,    \* those the assayer passes
          MaxTampers  \* changes somebody makes

ASSUME ArtifactAssumption == Payloads \subseteq Nat \ {0} /\ MaxTampers \in Nat

ProducerRuns == {1, 2}   \* of the same job, in the order of their rows

VARIABLES
    pr,      \* the producing runs
    work,    \* the artifact in each run's work tree
    store,   \* and in the artifact store; 0: not there
    cs,      \* the consuming run
    tampers, \* changes left, and how often each run's stored file was changed while assayed
    staged   \* the plainly staged copy, and whether it changed since the last check

pVars == <<pr, work, store, cs, tampers, staged>>

Assays == {"none", "blocking", "advisory", "exempt", "undeclared", "unconfigured"}
NoRun == [pc |-> "run", assay |-> "none", sha |-> 0, payload |-> 0, verdict |-> "none", status |-> "none"]
NoConsumer == [pc |-> "identify", src |-> 0, sha |-> 0, data |-> 0, got |-> 0, plain |-> FALSE]

ArtifactInit ==
    /\ pr \in [ProducerRuns -> {[NoRun EXCEPT !.assay = a] : a \in Assays}]
    /\ work \in [ProducerRuns -> Payloads \cup {0}] /\ store = [r \in ProducerRuns |-> 0]
    /\ cs \in {[NoConsumer EXCEPT !.plain = b] : b \in BOOLEAN}
    /\ tampers = [left |-> MaxTampers, hit |-> [r \in ProducerRuns |-> 0]]
    /\ staged = [val |-> 0, late |-> FALSE]

----------------------------------------------------------------------------
(* Somebody else *)

Tamper(t) == tampers.left > 0 /\ tampers' = [t EXCEPT !.left = @ - 1]

TamperStore ==
    /\ \E r \in ProducerRuns, v \in Payloads \cup {0} :
         /\ store[r] # 0 /\ v # store[r] /\ store' = [store EXCEPT ![r] = v]
         /\ Tamper(IF pr[r].status = "none" THEN [tampers EXCEPT !.hit[r] = @ + 1] ELSE tampers)
    /\ UNCHANGED <<pr, work, cs, staged>>
TamperWork ==
    /\ \E r \in ProducerRuns, v \in Payloads \cup {0} :
         pr[r].status = "none" /\ v # work[r] /\ work' = [work EXCEPT ![r] = v]
    /\ Tamper(tampers) /\ UNCHANGED <<pr, store, cs, staged>>
TamperStaged ==
    /\ staged.val # 0 /\ Tamper(tampers) /\ \E v \in Payloads \ {staged.val} : staged' = [val |-> v, late |-> TRUE]
    /\ UNCHANGED <<pr, work, store, cs>>

----------------------------------------------------------------------------
(* The producing run *)

Run(r, v) == pr' = [pr EXCEPT ![r] = v] /\ UNCHANGED <<work, cs, tampers, staged>>
Quarantined(r) == [pr[r] EXCEPT !.pc = "end", !.status = "QUARANTINED"]
Produced(r, v) == Run(r, v) /\ UNCHANGED store

\* collectProducedArtifacts: missing, oversized, against its schema or not
\* storable is a violation; otherwise the bytes read are stored and recorded.
Collect(r) ==
    /\ pr[r].pc = "run" /\ (r = 2 => pr[1].status # "none")
    /\ \/ Produced(r, Quarantined(r))
       \/ /\ work[r] # 0 /\ store' = [store EXCEPT ![r] = work[r]]
          /\ Run(r, [pr[r] EXCEPT !.pc = "assay", !.sha = work[r]])

\* runAssayStep, resolveArtifactAssay: what needs no evaluation.
ResolveAssay(r) ==
    /\ pr[r].pc = "assay"
    /\ Produced(r, CASE pr[r].assay \in {"none", "exempt"} -> [pr[r] EXCEPT !.pc = "final"]
                     [] pr[r].assay \in {"undeclared", "unconfigured"} -> Quarantined(r)
                     [] OTHER -> [pr[r] EXCEPT !.pc = "payload"])

\* The payload is read before Evaluate compares the file with its hash.
ReadPayload(r) ==
    /\ pr[r].pc = "payload" /\ Produced(r, [pr[r] EXCEPT !.pc = "pre", !.payload = store[r]])

Verdict1(r, v) == Produced(r, [pr[r] EXCEPT !.pc = "blocks", !.verdict = v])

\* Evaluate: before, ...
PreCheck(r) ==
    /\ pr[r].pc = "pre"
    /\ IF store[r] = pr[r].sha THEN Produced(r, [pr[r] EXCEPT !.pc = "evaluate"]) ELSE Verdict1(r, "ERROR")
\* ... the sealed package, the timeout, the exit status, the output, ...
EvaluateIt(r) ==
    /\ pr[r].pc = "evaluate"
    /\ \/ Verdict1(r, "ERROR")
       \/ Produced(r, [pr[r] EXCEPT !.pc = "post", !.verdict = IF pr[r].payload \in Passing THEN "PASS" ELSE "FAIL"])
\* ... and after.
PostCheck(r) ==
    /\ pr[r].pc = "post" /\ Verdict1(r, IF store[r] = pr[r].sha THEN pr[r].verdict ELSE "ERROR")

\* Mutant: only a FAIL of the assay blocks.
Blocks_OnlyFail(r) ==
    /\ pr[r].pc = "blocks"
    /\ Produced(r, IF pr[r].assay = "blocking" /\ pr[r].verdict = "FAIL" THEN Quarantined(r) ELSE [pr[r] EXCEPT !.pc = "final"])

\* Blocks: whatever is not a pass, but only under blocking enforcement.
Blocks(r) ==
    /\ pr[r].pc = "blocks"
    /\ Produced(r, IF pr[r].assay = "blocking" /\ pr[r].verdict # "PASS" THEN Quarantined(r) ELSE [pr[r] EXCEPT !.pc = "final"])

\* The final measurement collects again and the stored file is written again;
\* with an assay the digest of the records must be the approved one.
Recollect(r) ==
    /\ pr[r].pc = "final"
    /\ \/ Produced(r, Quarantined(r))
       \/ /\ work[r] # 0 /\ (pr[r].assay # "none" => work[r] = pr[r].sha)
          /\ store' = [store EXCEPT ![r] = work[r]]
          /\ Run(r, [pr[r] EXCEPT !.pc = "end", !.status = "APPROVED", !.sha = work[r]])

----------------------------------------------------------------------------
(* The consuming run *)

Consumer(c) == cs' = c /\ UNCHANGED <<pr, work, store, tampers>>
Stop == Consumer([cs EXCEPT !.pc = "refused"])

\* consumedArtifactIdentities: the newest approved row, its file beneath the
\* store, size and hash as recorded; the bytes are kept.
Approved == {r \in ProducerRuns : pr[r].status = "APPROVED"}
\* Mutant: artifacts of any run are handed over, approved or not.
Identify_AnyStatus ==
    /\ cs.pc = "identify"
    /\ LET S == {r \in ProducerRuns : pr[r].sha # 0} IN
       IF S = {} \/ store[Max(S)] # pr[Max(S)].sha THEN Stop
       ELSE Consumer([cs EXCEPT !.pc = "stage", !.src = Max(S), !.sha = pr[Max(S)].sha, !.data = store[Max(S)]])
    /\ UNCHANGED staged

Identify ==
    /\ cs.pc = "identify"
    /\ IF Approved = {} \/ store[Max(Approved)] # pr[Max(Approved)].sha THEN Stop
       ELSE LET r == Max(Approved) IN Consumer([cs EXCEPT !.pc = "stage", !.src = r, !.sha = pr[r].sha, !.data = store[r]])
    /\ UNCHANGED staged

\* Sealed in memory; on a host without a boundary also staged as a plain file.
Stage ==
    /\ cs.pc = "stage" /\ Consumer([cs EXCEPT !.pc = "check"])
    /\ staged' = [val |-> IF cs.plain THEN cs.data ELSE 0, late |-> FALSE]

Next1(pc) == [check |-> "launch", checkAfter |-> "validate", checkEnd |-> "approve"][pc]
\* verifyConsumedArtifactsAll: before the launch, when the backend is extinct,
\* and after the validators.
CheckConsumed ==
    /\ cs.pc \in {"check", "checkAfter", "checkEnd"}
    /\ IF staged.val # 0 /\ staged.val # cs.sha THEN Stop ELSE Consumer([cs EXCEPT !.pc = Next1(@)])
    /\ staged' = [staged EXCEPT !.late = FALSE]

LaunchConsumer ==
    /\ cs.pc = "launch"
    /\ Consumer([cs EXCEPT !.pc = "checkAfter", !.got = IF cs.plain THEN staged.val ELSE cs.data])
    /\ UNCHANGED staged
\* The validators read the sealed bytes.
ValidateConsumer ==
    /\ cs.pc = "validate" /\ Consumer([cs EXCEPT !.pc = "checkEnd"]) /\ UNCHANGED staged
ApproveConsumer ==
    /\ cs.pc = "approve" /\ Consumer([cs EXCEPT !.pc = "approved"]) /\ staged' = [val |-> 0, late |-> FALSE]

ProducerStep(r) == Collect(r) \/ ResolveAssay(r) \/ ReadPayload(r) \/ PreCheck(r) \/ EvaluateIt(r) \/ PostCheck(r)
                   \/ Blocks(r) \/ Recollect(r)
ConsumerStep == Identify \/ Stage \/ CheckConsumed \/ LaunchConsumer \/ ValidateConsumer \/ ApproveConsumer
ArtifactNext == (\E r \in ProducerRuns : ProducerStep(r)) \/ ConsumerStep \/ TamperStore \/ TamperWork \/ TamperStaged

----------------------------------------------------------------------------

\* What a run consumes is what an approved run recorded, whatever happened to
\* the store since; a plainly staged copy only if it was changed and changed
\* back around the backend, or the run was refused after it.
ConsumedIsProduced ==
    cs.got # 0 =>
        /\ pr[cs.src].status = "APPROVED" /\ cs.data = pr[cs.src].sha
        /\ cs.got = cs.sha \/ cs.plain
        /\ (cs.got # cs.sha /\ cs.pc \in {"validate", "checkEnd", "approve", "approved"}) => tampers.left <= MaxTampers - 2

\* Blocking assay gates approval: an approved artifact passed, on the bytes that
\* are recorded, unless its stored file was changed and changed back meanwhile.
AssayGates ==
    \A r \in ProducerRuns :
        (pr[r].status = "APPROVED" /\ pr[r].assay = "blocking") =>
            pr[r].sha \in Passing \/ tampers.hit[r] >= 2
=============================================================================
