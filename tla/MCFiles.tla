------------------------------- MODULE MCFiles -------------------------------
(***************************************************************************)
(* What the controller reads, executes and puts back while others change   *)
(* files: backends (ExecHandle), controller tools (ToolRegistry),          *)
(* attestations (Attest), recall snapshots (Recall), artifacts (Artifacts) *)
(* and the assayer's package (AssayPackage).  A behaviour is of one kind;  *)
(* the parts that do not run stay where they began.                        *)
(***************************************************************************)
EXTENDS ExecHandle, ToolRegistry, Attest, Recall, Artifacts, AssayPackage

CONSTANT Parts   \* the parts that are run
ASSUME FirstEnroller == 1 \in Enrollers   \* part "tools" has one

VARIABLE part

mcVars == <<part, xVars, tVars, aVars, sVars, pVars, kVars>>

Cap(s, r, n, a) == [sandbox |-> s, readOnly |-> r, network |-> n, approval |-> a]
MCCapabilities == {Cap(TRUE, FALSE, FALSE, FALSE), Cap(TRUE, TRUE, TRUE, TRUE), Cap(FALSE, FALSE, FALSE, FALSE)}

\* A root edited and added to since, one with a symbolic link and a stored copy
\* that failed halfway, and one from which a file was removed.
MCWorlds == {<<<<1, 2>>, <<2, None>>>>, <<<<Odd, 1>>, <<None, Partial>>>>, <<<<1, None>>, <<2, 1>>>>}

\* Where the parts that do not run stay.
ExecIdle == xKind = [node |-> FALSE, staged |-> FALSE, fdExec |-> TRUE] /\ xFs = NewFile(1)
ToolIdle ==
    /\ tFs = [n \in Tools |-> [file |-> NewFile(1), trusted |-> TRUE]]
    /\ reg = [state |-> "absent", gen |-> 0, tools |-> [n \in Tools |-> NoEntry]]
AttestIdle == aCap = Cap(FALSE, FALSE, FALSE, FALSE) /\ aFs = NewFile(1) /\ aCfg = [hash |-> 1, known |-> FALSE]
RecallIdle == live = <<1, 2>> /\ conf = Paths /\ snaps[1].files = <<2, None>>
ArtifactIdle ==
    /\ pr = [r \in ProducerRuns |-> NoRun] /\ work = [r \in ProducerRuns |-> 0]
    /\ cs = NoConsumer
PackageIdle == repo = [tree |-> [f \in Files |-> 1], commits |-> <<[f \in Files |-> 1]>>, head |-> 1, git |-> FALSE]

\* Two enrollments against each other, then one against a resolution.
ToolsOf(p) ==
    IF p = "enroll" THEN (\E e \in Enrollers : EnrollStep(e)) \/ ReplaceTool
    ELSE EnrollStep(1) \/ HandleStep \/ ReplaceTool \/ OverwriteTool \/ WriteCopy

MCInit ==
    /\ part \in Parts
    /\ (part = "backend" \/ ExecIdle) /\ ExecInit
    /\ (part \in {"enroll", "tools"} \/ ToolIdle) /\ ToolInit
    /\ (part = "enroll" => \A n \in Tools : tFs[n] = [file |-> NewFile(1), trusted |-> TRUE])
    /\ (part = "tools" => tFs[2] = [file |-> NewFile(1), trusted |-> TRUE])
    /\ (part = "attest" \/ AttestIdle) /\ AttestInit
    /\ RecallInit /\ (part = "recall" \/ RecallIdle)
    /\ (part = "artifacts" \/ ArtifactIdle) /\ ArtifactInit
    /\ (part = "artifacts" => pr[2].assay = "blocking")
    /\ (part = "assayer" \/ PackageIdle) /\ PackageInit

MCNext ==
    \/ part = "backend" /\ UNCHANGED <<part, tVars, aVars, sVars, pVars, kVars>> /\ ExecNext
    \/ part \in {"enroll", "tools"} /\ UNCHANGED <<part, xVars, aVars, sVars, pVars, kVars>> /\ ToolsOf(part)
    \/ part = "attest" /\ UNCHANGED <<part, xVars, tVars, sVars, pVars, kVars>> /\ AttestNext
    \/ part = "recall" /\ UNCHANGED <<part, xVars, tVars, aVars, pVars, kVars>> /\ RecallNext
    \/ part = "artifacts" /\ UNCHANGED <<part, xVars, tVars, aVars, sVars, kVars>> /\ ArtifactNext
    \/ part = "assayer" /\ UNCHANGED <<part, xVars, tVars, aVars, sVars, pVars>> /\ PackageNext

MCSpec == MCInit /\ [][MCNext]_mcVars

\* Every program the controller runs is the one it verified, backend or tool.
ExecutedIsVerified == BackendIsVerified /\ ToolIsVerified

\* The records trust rests on are complete and earned.
TrustRecordsHold == EnrollmentsKept /\ AttestationEarned

\* Artifacts are consumed as they were approved, approved as assayed, and
\* assayed by the package that is recorded.
ArtifactsSound == ConsumedIsProduced /\ AssayGates /\ PackageIdentified
=============================================================================
