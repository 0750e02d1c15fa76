----------------------------- MODULE ExecHandle ------------------------------
(***************************************************************************)
(* agents.BackendExecutionHandle: a backend is resolved, opened and hashed *)
(* once, a Node backend's dependencies are frozen into a private copy, and *)
(* what is launched is verified again right before and right after.  All   *)
(* the while somebody else may replace a file (a new inode at the path),   *)
(* overwrite it in place, or write into the frozen copy.                   *)
(***************************************************************************)
EXTENDS FileWorld

VARIABLES
    xKind,   \* the backend and the way it is launched
    xFs,     \* the executable's file
    xDep,    \* the live dependency tree
    xLeft,   \* changes somebody may still make
    xh,      \* the handle, and where its user stands
    xFrozen, \* the frozen copy: entry and dependency (0: not there)
    xSince,  \* what was changed since the last verification began
    xRan     \* the entry and the dependency that ran

xVars == <<xKind, xFs, xDep, xLeft, xh, xFrozen, xSince, xRan>>

Nothing == [entry |-> 0, dep |-> 0]
NoHandle == [pc |-> "resolve", fd |-> 0, sha |-> 0, closure |-> Nothing, proven |-> FALSE, post |-> "none"]

\* A dependency tree is its bytes, or Escaping: a link that leaves the tree.
Escaping == 0

\* staged: LaunchStaged; otherwise LaunchCommand.  fdExec: the platform can
\* execute a descriptor.
ExecInit ==
    /\ xKind \in [node : BOOLEAN, staged : BOOLEAN, fdExec : BOOLEAN]
    /\ xFs \in {NewFile(v) : v \in Bytes}
    /\ xDep \in Bytes \cup {Escaping} /\ (~xKind.node => xDep = Escaping)
    /\ xLeft = MaxChanges /\ xh = NoHandle /\ xFrozen = Nothing /\ xSince = {} /\ xRan = Nothing

----------------------------------------------------------------------------
(* Somebody else. *)

Changed(what) == xLeft > 0 /\ xLeft' = xLeft - 1 /\ xSince' = xSince \cup {what}

Replace ==
    /\ Changed("path") /\ xFs' \in Renamed(xFs, MaxChanges - xLeft + 2) \cup Unlinked(xFs)
    /\ UNCHANGED <<xKind, xDep, xh, xFrozen, xRan>>
\* A write into the inode the path or the handle has.
Overwrite ==
    /\ \E i \in {xFs.path, xh.fd} \ {0} :
         xFs' \in Written(xFs, i) /\ Changed(IF i = xh.fd THEN "held" ELSE "path")
    /\ UNCHANGED <<xKind, xDep, xh, xFrozen, xRan>>
ChangeDep ==
    /\ xKind.node /\ xh.pc \in {"resolve", "hash", "copyEntry", "copyDeps"}
    /\ xDep' \in (Bytes \cup {Escaping}) \ {xDep} /\ Changed("dep")
    /\ UNCHANGED <<xKind, xFs, xh, xFrozen, xRan>>
\* The frozen tree is only as safe as its owner's other processes are.
WriteFrozen ==
    /\ xFrozen # Nothing /\ Changed("frozen")
    /\ \E f \in {"entry", "dep"}, v \in Bytes : xFrozen[f] # v /\ xFrozen' = [xFrozen EXCEPT ![f] = v]
    /\ UNCHANGED <<xKind, xFs, xDep, xh, xRan>>

----------------------------------------------------------------------------
(* ResolveHandle *)

Handle(h) == xh' = h /\ UNCHANGED <<xKind, xFs, xDep, xLeft>>

OpenExecutable ==
    /\ xh.pc = "resolve"
    /\ Handle(IF xFs.path = 0 THEN [xh EXCEPT !.pc = "refused"] ELSE [xh EXCEPT !.pc = "hash", !.fd = xFs.path])
    /\ UNCHANGED <<xFrozen, xSince, xRan>>

\* A backend that is not a Node script is its own closure.
HashOpen ==
    /\ xh.pc = "hash"
    /\ Handle([xh EXCEPT !.sha = xFs.data[xh.fd], !.proven = ~xKind.node,
                         !.pc = IF xKind.node THEN "copyEntry" ELSE "launch"])
    /\ UNCHANGED <<xFrozen, xSince, xRan>>

\* buildFrozenNodeClosure: the entry is copied from the open descriptor.
copyVerifiedFD ==
    /\ xh.pc = "copyEntry"
    /\ xFrozen' = [entry |-> xFs.data[xh.fd], dep |-> 0] /\ Handle([xh EXCEPT !.pc = "copyDeps"])
    /\ UNCHANGED <<xSince, xRan>>

Unproven(h) == [h EXCEPT !.pc = "launch", !.closure = Nothing, !.proven = FALSE]

\* A link out of the tree, or any failure: the copy is removed and the handle
\* falls back to its descriptor, unproven.
copyTreeHashed ==
    /\ xh.pc = "copyDeps"
    /\ \/ /\ xDep # Escaping
          /\ xFrozen' = [xFrozen EXCEPT !.dep = xDep] /\ Handle([xh EXCEPT !.pc = "hashFrozen"])
       \/ xFrozen' = Nothing /\ Handle(Unproven(xh))
    /\ UNCHANGED <<xSince, xRan>>

\* The closure's hash is taken from the frozen tree, not while it is copied.
hashFrozenNodeClosure ==
    /\ xh.pc = "hashFrozen"
    /\ \/ Handle([xh EXCEPT !.pc = "launch", !.closure = xFrozen, !.proven = TRUE]) /\ UNCHANGED xFrozen
       \/ xFrozen' = Nothing /\ Handle(Unproven(xh))
    /\ UNCHANGED <<xSince, xRan>>

----------------------------------------------------------------------------
(* VerifyUnchanged, before and after the launch *)

Frozen == xh.closure # Nothing
\* The verification of a launch decides; the one after it is only recorded.
Verdict(ok) ==
    IF xh.pc \in {"stat", "read"} THEN [xh EXCEPT !.pc = IF ok THEN "exec" ELSE "refused"]
    ELSE [xh EXCEPT !.pc = "close", !.post = IF ok THEN "same" ELSE "changed"]

BeginVerify ==
    /\ xh.pc = "launch" \/ (xh.pc = "ran" /\ Frozen)   \* afterwards: only a frozen closure
    /\ Handle([xh EXCEPT !.pc = IF xh.pc = "launch" THEN "stat" ELSE "postStat"])
    /\ xSince' = (IF xh.pc = "launch" THEN {} ELSE xSince) /\ UNCHANGED <<xFrozen, xRan>>

\* Mutant: the frozen tree is not hashed.
VerifyIdentity_Skipped ==
    /\ xh.pc \in {"stat", "postStat"}
    /\ LET ok == Frozen \/ xFs.path = xh.fd IN
       Handle(IF ok THEN [xh EXCEPT !.pc = IF xh.pc = "stat" THEN "read" ELSE "postRead"] ELSE Verdict(FALSE))
    /\ UNCHANGED <<xFrozen, xSince, xRan>>

\* The frozen tree against its hash; the canonical path against the inode.
VerifyIdentity ==
    /\ xh.pc \in {"stat", "postStat"}
    /\ LET ok == IF Frozen THEN xFrozen = xh.closure ELSE xFs.path = xh.fd IN
       Handle(IF ok THEN [xh EXCEPT !.pc = IF xh.pc = "stat" THEN "read" ELSE "postRead"] ELSE Verdict(FALSE))
    /\ UNCHANGED <<xFrozen, xSince, xRan>>

\* Its bytes against the hash taken when it was opened; reading may fail.
VerifyContent ==
    /\ xh.pc \in {"read", "postRead"}
    /\ LET now == IF Frozen THEN xFrozen.entry ELSE Content(xFs) IN
       Handle(Verdict(now = xh.sha))
    /\ UNCHANGED <<xFrozen, xSince, xRan>>

\* composeBackendLaunch and LaunchCommand: the frozen entry by its path, the
\* held descriptor, or, where a descriptor cannot be executed, the path again.
ByPath == ~Frozen /\ ~xKind.staged /\ ~xKind.fdExec
Exec ==
    /\ xh.pc = "exec" /\ Handle([xh EXCEPT !.pc = "ran"])
    /\ xRan' = (CASE Frozen -> xFrozen
                [] ByPath -> [entry |-> Content(xFs), dep |-> xDep]
                [] OTHER -> [entry |-> xFs.data[xh.fd], dep |-> xDep])
    /\ UNCHANGED <<xFrozen, xSince>>

Close ==
    /\ xh.pc \in {"close", "refused"} \/ (xh.pc = "ran" /\ ~Frozen)
    /\ Handle([xh EXCEPT !.pc = "closed", !.fd = 0])
    /\ xFrozen' = Nothing /\ UNCHANGED <<xSince, xRan>>

ExecStep == OpenExecutable \/ HashOpen \/ copyVerifiedFD \/ copyTreeHashed \/ hashFrozenNodeClosure
            \/ BeginVerify \/ VerifyIdentity \/ VerifyContent \/ Exec \/ Close
Somebody == Replace \/ Overwrite \/ ChangeDep \/ WriteFrozen
ExecNext == ExecStep \/ Somebody

----------------------------------------------------------------------------

\* What runs is what was opened and hashed, although the path was replaced and
\* the files were rewritten at any time before: only a change of the executed
\* object after the launch's own verification began can alter it (that, or the
\* path renamed between its two halves, which look at the path, not at the
\* descriptor).  For a Node backend the dependencies are covered as well.
BackendIsVerified ==
    xh.pc = "ran" =>
        \/ xRan.entry = xh.sha /\ (Frozen => xRan = xh.closure)
        \/ Frozen /\ "frozen" \in xSince
        \/ ~Frozen /\ xSince \cap {"held", "path"} # {}
=============================================================================
