------------------------------- MODULE Replay --------------------------------
(***************************************************************************)
(* Execution identity and replay.  A run reads its trust-bearing inputs at *)
(* four moments before it launches, hashes all of them into an identity,   *)
(* and answers with the newest approved run of the same identity instead   *)
(* of running.  Meanwhile operators edit the inputs and commit to the      *)
(* root: the workspace lock keeps out other runs, not them.                *)
(*                                                                         *)
(* An input has a version and may be hidden: a backend of undeclared       *)
(* provider or model, an unhashable closure, a dirty Assayer checkout.     *)
(* What is hidden hashes the same whatever its version is.                 *)
(***************************************************************************)
EXTENDS Integers, Sequences, FiniteSets

CONSTANTS MaxRuns, MaxEdits, MaxCommits,
          GitRoots        \* {TRUE}, {FALSE} or both: whether the root is a git checkout

ASSUME ReplayAssumption == GitRoots \subseteq BOOLEAN

\* What is read at each moment.
FreezeInputs == {"config", "registry"}  \* configuration, manifest, tools, containment, graph
ResolveInputs == {"backend"}            \* handle, provider identity, closure, image
GateInputs == {"rules"}                 \* the policy bundle
IdentityInputs == {"inputs"}            \* prompt, validator tools and files, artifacts, Assayer snapshot
Moments == <<"freeze", "resolve", "gate", "identity">>
ReadAt(k) == <<FreezeInputs, ResolveInputs, GateInputs, IdentityInputs>>[k]
Inputs == UNION {ReadAt(k) : k \in 1..4}
CanHide == {"backend", "inputs"}

VARIABLES
    world,   \* [Inputs -> [v, hidden]]
    root,    \* [git, head, tree, last]: HEAD and the content of the live root, the newest number
    runs,    \* the runs table, oldest first
    rp,      \* the run under way: [pc, view, head, tree, id]
    replays, \* answers given from the table: [of, view, head, tree]
    edits    \* how often the world was edited and the root committed to

rpVars == <<world, root, runs, rp, replays, edits>>

Plain == [v |-> 1, hidden |-> FALSE]
NoView == [i \in Inputs |-> Plain]
Idle == [pc |-> "idle", view |-> NoView, head |-> 0, tree |-> 0, id |-> <<>>]

ReplayInit ==
    /\ world = NoView /\ runs = <<>> /\ rp = Idle /\ replays = {} /\ edits = [w |-> 0, c |-> 0]
    /\ \E g \in GitRoots : root = [git |-> g, head |-> 1, tree |-> 1, last |-> 1]

----------------------------------------------------------------------------
(* Around the run.                                                         *)

EditInput(i) ==
    /\ edits.w < MaxEdits
    /\ \E v \in 1..2, h \in {FALSE} \cup (IF i \in CanHide THEN {TRUE} ELSE {}) :
         world[i] # [v |-> v, hidden |-> h] /\ world' = [world EXCEPT ![i] = [v |-> v, hidden |-> h]]
    /\ edits' = [edits EXCEPT !.w = @ + 1] /\ UNCHANGED <<root, runs, rp, replays>>

\* Somebody commits to the root, resets it to an earlier commit, or edits one
\* that is not a checkout.  Commits are numbered and stand for their content.
Committed(r) == [r EXCEPT !.tree = r.last + 1, !.last = @ + 1, !.head = IF r.git THEN r.last + 1 ELSE @]
OperatorWrites ==
    /\ edits.c < MaxCommits
    /\ \/ root' = Committed(root)
       \/ root.git /\ \E h \in 1..root.last : root' = [root EXCEPT !.head = h, !.tree = h]
    /\ edits' = [edits EXCEPT !.c = @ + 1] /\ UNCHANGED <<world, runs, rp, replays>>

----------------------------------------------------------------------------
(* The identity.                                                           *)

Observed(view) == [i \in Inputs |-> IF view[i].hidden THEN 0 ELSE view[i].v]

\* Mutant: inputs that cannot be seen do not matter.
StrictReplayEligible_Always(view) == TRUE

\* Participants, closure, provider and Assayer are known, no legacy validators,
\* no development containment.
StrictReplayEligible(view) == \A i \in Inputs : ~view[i].hidden

\* Mutant: the rules are left out of the identity.
computeExecutionIdentity_NoRules(view, head) ==
    [head |-> head, inputs |-> [Observed(view) EXCEPT !["rules"] = 1], eligible |-> StrictReplayEligible(view)]

computeExecutionIdentity(view, head) ==
    [head |-> head, inputs |-> Observed(view), eligible |-> StrictReplayEligible(view)]

\* head of a root that is no checkout: the constant "non-git".
HeadOf(r) == IF r.git THEN r.head ELSE 0

Start ==
    /\ rp.pc = "idle" /\ Len(runs) < MaxRuns
    /\ rp' = [Idle EXCEPT !.pc = "freeze"]
    /\ UNCHANGED <<world, root, runs, replays, edits>>

ReadInputs(k) ==
    [i \in Inputs |-> IF i \in ReadAt(k) THEN world[i] ELSE rp.view[i]]

\* HEAD is read once the environment is frozen.
Read(k) ==
    /\ rp.pc = Moments[k]
    /\ rp' = [rp EXCEPT !.pc = IF k = 4 THEN "probe" ELSE Moments[k + 1], !.view = ReadInputs(k),
                        !.head = IF k = 1 THEN HeadOf(root) ELSE @, !.tree = IF k = 1 THEN root.tree ELSE @]
    /\ UNCHANGED <<world, root, runs, replays, edits>>

\* A tool, file or snapshot that cannot be read, hashed or sealed ends the run
\* with nothing recorded and its copies removed.
ReadFails ==
    /\ \E k \in 1..4 : rp.pc = Moments[k]
    /\ rp' = Idle /\ UNCHANGED <<world, root, runs, replays, edits>>

\* replayMatch: the newest approved row of this identity, never for a run that
\* is not eligible itself.
Matches(id) == {k \in 1..Len(runs) : runs[k].status = "APPROVED" /\ runs[k].id = id}
\* Mutant: a run of any status is replayed.
replayMatch_AnyStatus(id) ==
    IF ~id.eligible THEN 0
    ELSE LET ks == {k \in 1..Len(runs) : runs[k].id = id} IN IF ks = {} THEN 0 ELSE CHOOSE k \in ks : \A j \in ks : j <= k

replayMatch(id) ==
    IF ~id.eligible \/ Matches(id) = {} THEN 0 ELSE CHOOSE k \in Matches(id) : \A j \in Matches(id) : j <= k

\* Last(priorID): the row itself is the answer.
Probe ==
    /\ rp.pc = "probe"
    /\ LET id == computeExecutionIdentity(rp.view, rp.head)
           prior == replayMatch(id)
       IN IF prior # 0
            THEN /\ replays' = replays \cup {[of |-> prior, was |-> runs[prior], view |-> rp.view, head |-> rp.head, tree |-> rp.tree]}
                 /\ rp' = Idle /\ UNCHANGED runs
            ELSE /\ runs' = Append(runs, [status |-> "RUNNING", id |-> id, view |-> rp.view, made |-> 0, tree |-> 0, payload |-> FALSE, raced |-> FALSE])
                 /\ rp' = [rp EXCEPT !.pc = "running", !.id = id] /\ UNCHANGED replays
    /\ UNCHANGED <<world, root, edits>>

----------------------------------------------------------------------------
(* The end of the run.                                                     *)

Cur == Len(runs)
End(status) == runs' = [runs EXCEPT ![Cur].status = status]

\* Quarantined, refused, or dead before its verdict: the row keeps the identity
\* it was inserted with and never matches.
NotApproved ==
    /\ rp.pc = "running" /\ \E s \in {"QUARANTINED", "RUNNING"} : End(s)
    /\ rp' = Idle /\ UNCHANGED <<world, root, replays, edits>>

\* Approved: nothing to merge, or a commit on the HEAD the run began at.
Merge ==
    /\ rp.pc = "running"
    /\ \E changed \in BOOLEAN :
         /\ changed /\ root.git => root.head = rp.head           \* UpdateRefCAS
         /\ root' = IF changed THEN Committed(root) ELSE root
         /\ runs' = [runs EXCEPT ![Cur].made = IF changed /\ root.git THEN root.last + 1 ELSE rp.head,
                                 ![Cur].tree = IF changed THEN root.last + 1 ELSE rp.tree]
    /\ rp' = [rp EXCEPT !.pc = "merged"] /\ UNCHANGED <<world, replays, edits>>

\* HEAD is read again and becomes the identity's.  The update may fail: then a
\* committed run waits for reconcile with the payload of that moment.
Raced == root.git /\ root.head # runs[Cur].made      \* for the property: somebody else moved HEAD since
\* Mutant: the identity keeps the head of the start.
FinalIdentity_Started(id) == id

FinalIdentity(id) == [id EXCEPT !.head = HeadOf(root)]
Finalize ==
    /\ rp.pc = "merged"
    /\ LET id == FinalIdentity(rp.id)
       IN runs' = [runs EXCEPT ![Cur].id = id, ![Cur].status = "APPROVED", ![Cur].raced = Raced]
    /\ rp' = Idle /\ UNCHANGED <<world, root, replays, edits>>
UpdateFails ==
    /\ rp.pc = "merged"
    /\ IF ~root.git \/ runs[Cur].tree = rp.tree THEN UNCHANGED runs \* no commit was made: the error is returned
       ELSE \E late \in BOOLEAN :                                  \* late: the update itself failed, not a stage event
              runs' = [runs EXCEPT ![Cur].status = "MERGED_LEDGER_PENDING", ![Cur].payload = late, ![Cur].raced = Raced,
                                   ![Cur].id = IF late THEN FinalIdentity(rp.id) ELSE @]
    /\ rp' = Idle /\ UNCHANGED <<world, root, replays, edits>>
Reconcile(k) ==
    /\ runs[k].status = "MERGED_LEDGER_PENDING" /\ runs[k].payload
    /\ runs' = [runs EXCEPT ![k].status = "APPROVED"]
    /\ UNCHANGED <<world, root, rp, replays, edits>>

\* gov run rollback holds the workspace lock, and takes approved runs only.
Rollback(k) ==
    /\ rp.pc = "idle" /\ runs[k].status = "APPROVED" /\ edits.c < MaxCommits
    /\ runs' = [runs EXCEPT ![k].status = "ROLLED_BACK"]
    /\ root' = Committed(root)
    /\ edits' = [edits EXCEPT !.c = @ + 1] /\ UNCHANGED <<world, rp, replays>>

ReplayNext ==
    \/ \E i \in Inputs : EditInput(i)
    \/ OperatorWrites
    \/ Start
    \/ \E k \in 1..4 : Read(k)
    \/ ReadFails
    \/ Probe
    \/ NotApproved
    \/ Merge
    \/ Finalize
    \/ UpdateFails
    \/ \E k \in 1..Len(runs) : Reconcile(k) \/ Rollback(k)

----------------------------------------------------------------------------
\* An answer taken from the table is an approval that still stands, of a run
\* that read, as it began, exactly the inputs this one read, hidden or not; and
\* it is given at the very commit that run left, unless somebody else moved
\* HEAD before the approval was recorded.
ReplaySound ==
    \A a \in replays :
      /\ a.was.status = "APPROVED"
      /\ \A i \in Inputs : a.view[i].v = a.was.view[i].v
      /\ a.was.id.head = a.head
      /\ root.git /\ ~a.was.raced => a.was.made = a.head

\* runtime.go 4475-4481: the identity is recomputed at the end so that it
\* "reflect[s] the commit the approval landed on".
ApprovedHeadIsMade == \A k \in 1..Len(runs) : root.git /\ runs[k].status = "APPROVED" => runs[k].id.head = runs[k].made

\* identity.go 53-55: the identity captures "every trust-bearing input that must
\* remain identical for a prior APPROVED run to be safely replayed".
RootIsBound == \A a \in replays : a.tree = a.was.tree
=============================================================================
