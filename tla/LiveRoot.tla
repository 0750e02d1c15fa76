------------------------------ MODULE LiveRoot ------------------------------
(***************************************************************************)
(* The merge of an approved change set into the live git root, from the    *)
(* clean check that follows the final barrier to MERGE_APPLIED or to the   *)
(* end of rollbackLiveRoot, file by file, while the repository's operator  *)
(* edits and commits beside it.  A file's content is told apart by who     *)
(* wrote it.  Every git command and every file copied is a step.           *)
(***************************************************************************)
EXTENDS Integers, FiniteSets, SequencesExt

CONSTANTS
  Paths,       \* files of the repository
  Tracked,     \* the files of the baseline commit
  Changed,     \* approved: written by the agent
  Deleted,     \* approved: deleted by the agent
  Ignored,     \* matched by .gitignore
  MaxOperator, \* bound: the operator's edits and commits
  MaxFaults    \* bound: commands and ledger writes that fail

ASSUME LiveRootAssumption ==
  /\ Tracked \subseteq Paths /\ Changed \subseteq Paths /\ Ignored \subseteq Paths
  /\ Deleted \subseteq Tracked \ Changed
  /\ MaxOperator \in Nat /\ MaxFaults \in Nat

VARIABLES
  branch,    \* the commits of the checked-out branch, HEAD last
  index,     \* the real index: path -> content
  work,      \* the working tree: path -> content
  pc,        \* the step the merge is at
  todo,      \* paths still to copy, remove or clean
  operator, faults

vars == <<branch, index, work, pc, todo, operator, faults>>

Contents == {"none", "base", "agent", "mine", "torn"}
Trees == [Paths -> Contents]

Baseline == [p \in Paths |-> IF p \in Tracked THEN "base" ELSE "none"]

(* buildApprovedMergeTree: the baseline with exactly the approved changes. *)
Approved == [p \in Paths |-> IF p \in Changed THEN "agent"
                             ELSE IF p \in Deleted THEN "none" ELSE Baseline[p]]

mergePaths == Changed \cup Deleted

Commits == [by : {"base", "governator", "operator"}, tree : Trees]

Ends == {"applied", "restored", "unrestored", "crashed"}

TypeOK ==
  /\ branch \in Seq(Commits) /\ branch # <<>>
  /\ index \in Trees /\ work \in Trees
  /\ pc \in {"check", "intent", "build", "commit", "verify", "copy", "remove", "sync",
             "record", "reset", "clean", "confirm"} \cup Ends
  /\ todo \subseteq mergePaths
  /\ operator \in 0..MaxOperator /\ faults \in 0..MaxFaults

(* The final barrier found the root as it was measured before the run.     *)
Init ==
  /\ branch = <<[by |-> "base", tree |-> Baseline]>>
  /\ index = Baseline /\ work = Baseline
  /\ pc = "check" /\ todo = {}
  /\ operator = 0 /\ faults = 0

HeadTree == Last(branch).tree

(* `git status --porcelain` lists nothing.                                 *)
Clean ==
  /\ index = HeadTree
  /\ \A p \in Paths : work[p] # index[p] => index[p] = "none" /\ p \in Ignored

-----------------------------------------------------------------------------
(* The merge                                                               *)

Goto(step) == pc' = step

(* Any violation on the way leads to the rollback.                         *)
Fault(step) ==
  /\ faults < MaxFaults /\ faults' = faults + 1
  /\ Goto(step)
  /\ UNCHANGED <<branch, index, work, todo, operator>>

requireCleanLiveRoot ==
  /\ pc = "check"
  /\ \/ /\ Goto(IF Clean THEN "intent" ELSE "reset")
        /\ UNCHANGED <<branch, index, work, todo, operator, faults>>
     \/ Fault("reset")

MergeIntent ==
  /\ pc = "intent"
  /\ \/ Goto("build") /\ UNCHANGED <<branch, index, work, todo, operator, faults>>
     \/ Fault("reset")

(* The tree is built and verified in an isolated index.                    *)
buildApprovedMergeTree ==
  /\ pc = "build"
  /\ \/ Goto("commit") /\ UNCHANGED <<branch, index, work, todo, operator, faults>>
     \/ Fault("reset")

Landed == <<[by |-> "base", tree |-> Baseline], [by |-> "governator", tree |-> Approved]>>

(* Mutant: the ref is moved whatever it holds.                             *)
UpdateRef_NoCAS ==
  /\ pc = "commit"
  /\ branch' = Landed
  /\ Goto("verify")
  /\ UNCHANGED <<index, work, todo, operator, faults>>

(* commit-tree on the measured head, and `update-ref HEAD new old`: the    *)
(* compare-and-swap fails when the branch has moved.                       *)
UpdateRef ==
  /\ pc = "commit"
  /\ \/ /\ Len(branch) = 1
        /\ branch' = Landed
        /\ Goto("verify")
        /\ UNCHANGED <<index, work, todo, operator, faults>>
     \/ /\ Len(branch) # 1
        /\ Goto("reset")
        /\ UNCHANGED <<branch, index, work, todo, operator, faults>>
     \/ Fault("reset")

(* The objects are in the repository and the tree is the approved one.     *)
VerifyCommit ==
  /\ pc = "verify"
  /\ \/ /\ Goto("copy") /\ todo' = Changed
        /\ UNCHANGED <<branch, index, work, operator, faults>>
     \/ Fault("reset")

(* The working tree follows file by file; a copy that fails, or a death,   *)
(* may leave a truncated file.                                             *)
CopyFile(p) ==
  /\ pc = "copy" /\ p \in todo
  /\ \/ /\ work' = [work EXCEPT ![p] = "agent"] /\ todo' = todo \ {p}
        /\ UNCHANGED <<branch, index, pc, operator, faults>>
     \/ /\ faults < MaxFaults /\ faults' = faults + 1
        /\ work' = [work EXCEPT ![p] = "torn"] /\ pc' \in {"reset", "crashed"}
        /\ UNCHANGED <<branch, index, todo, operator>>
     \/ Fault("reset")

Copied ==
  /\ pc = "copy" /\ todo = {}
  /\ Goto("remove") /\ todo' = Deleted
  /\ UNCHANGED <<branch, index, work, operator, faults>>

RemoveFile(p) ==
  /\ pc = "remove" /\ p \in todo
  /\ \/ /\ work' = [work EXCEPT ![p] = "none"] /\ todo' = todo \ {p}
        /\ UNCHANGED <<branch, index, pc, operator, faults>>
     \/ Fault("reset")

Removed ==
  /\ pc = "remove" /\ todo = {}
  /\ Goto("sync")
  /\ UNCHANGED <<branch, index, work, todo, operator, faults>>

(* Mutant: the real index is left as it was.                               *)
SyncRealIndex_Skipped ==
  /\ pc = "sync" /\ Goto("record")
  /\ UNCHANGED <<branch, index, work, todo, operator, faults>>

(* `git read-tree` of the merge tree into the real index.                  *)
SyncRealIndex ==
  /\ pc = "sync"
  /\ \/ /\ index' = Approved /\ Goto("record")
        /\ UNCHANGED <<branch, work, todo, operator, faults>>
     \/ Fault("reset")

MergeApplied ==
  /\ pc = "record"
  /\ \/ Goto("applied") /\ UNCHANGED <<branch, index, work, todo, operator, faults>>
     \/ Fault("reset")

-----------------------------------------------------------------------------
(* rollbackLiveRoot                                                        *)

(* `git reset --hard` to the measured head: the branch, the index and every*)
(* tracked file.  If it fails the rollback ends there.                     *)
ResetHard ==
  /\ pc = "reset"
  /\ \/ /\ branch' = <<[by |-> "base", tree |-> Baseline]>>
        /\ index' = Baseline
        /\ work' = [p \in Paths |-> IF Baseline[p] # "none" \/ index[p] # "none"
                                    THEN Baseline[p] ELSE work[p]]
        /\ Goto("clean") /\ todo' = mergePaths
        /\ UNCHANGED <<operator, faults>>
     \/ Fault("unrestored")

(* Mutant: no path is cleaned.                                             *)
CleanPath_Skipped(p) ==
  /\ pc = "clean" /\ p \in todo /\ todo' = todo \ {p}
  /\ UNCHANGED <<branch, index, work, pc, operator, faults>>

(* `git clean -fd` of one merge path; its failure is not looked at.        *)
CleanPath(p) ==
  /\ pc = "clean" /\ p \in todo /\ todo' = todo \ {p}
  /\ \/ /\ work' = [work EXCEPT ![p] = IF index[p] = "none" /\ p \notin Ignored
                                       THEN "none" ELSE @]
        /\ UNCHANGED faults
     \/ faults < MaxFaults /\ faults' = faults + 1 /\ UNCHANGED work
  /\ UNCHANGED <<branch, index, pc, operator>>

Cleaned ==
  /\ pc = "clean" /\ todo = {}
  /\ Goto("confirm")
  /\ UNCHANGED <<branch, index, work, todo, operator, faults>>

(* Mutant: a clean status is enough.                                       *)
ConfirmRollback_StatusOnly ==
  /\ pc = "confirm"
  /\ Goto(IF Clean THEN "restored" ELSE "unrestored")
  /\ UNCHANGED <<branch, index, work, todo, operator, faults>>

(* An empty status and the fingerprint of before, or the run says so.      *)
ConfirmRollback ==
  /\ pc = "confirm"
  /\ \/ /\ Goto(IF Clean /\ work = Baseline THEN "restored" ELSE "unrestored")
        /\ UNCHANGED <<branch, index, work, todo, operator, faults>>
     \/ Fault("unrestored")

(* The process dies; recovery does not touch the root.                     *)
Crash ==
  /\ pc \notin Ends
  /\ Fault("crashed")

-----------------------------------------------------------------------------
(* The operator                                                            *)

Acts == operator < MaxOperator /\ operator' = operator + 1

Edit(p) ==
  /\ Acts /\ pc \notin Ends
  /\ work' = [work EXCEPT ![p] = "mine"]
  /\ UNCHANGED <<branch, index, pc, todo, faults>>

(* `git commit` of everything that is not ignored.                         *)
Commit ==
  /\ Acts /\ pc \notin Ends
  /\ index' = [p \in Paths |-> IF index[p] = "none" /\ p \in Ignored THEN "none" ELSE work[p]]
  /\ index' # HeadTree
  /\ branch' = Append(branch, [by |-> "operator", tree |-> index'])
  /\ UNCHANGED <<work, pc, todo, faults>>

Next ==
  \/ requireCleanLiveRoot \/ MergeIntent \/ buildApprovedMergeTree \/ UpdateRef
  \/ VerifyCommit \/ Copied \/ Removed \/ SyncRealIndex \/ MergeApplied
  \/ ResetHard \/ Cleaned \/ ConfirmRollback \/ Crash \/ Commit
  \/ \E p \in Paths : CopyFile(p) \/ RemoveFile(p) \/ CleanPath(p) \/ Edit(p)

Spec == Init /\ [][Next]_vars

-----------------------------------------------------------------------------
(* Properties                                                              *)

(* The operator's commits, in their order.                                 *)
Mine(b) == SelectSeq(b, LAMBDA c : c.by = "operator")

(* Landing the merge keeps every commit of the branch: one that the        *)
(* operator made after the measurement makes the compare-and-swap fail.    *)
LandingKeepsBranch ==
  [][pc = "commit" /\ pc' = "verify" => IsPrefix(branch, branch')]_vars

(* A rollback that reports success has restored everything, whatever step  *)
(* failed before, whatever the operator did and whatever git ignores: the  *)
(* files, the index and a branch without the merge commit.                 *)
RestoredIsBaseline ==
  pc = "restored" =>
    /\ work = Baseline /\ index = Baseline /\ HeadTree = Baseline
    /\ \A i \in 1..Len(branch) : branch[i].by # "governator"

(* Left alone, the rollback undoes what any one failed step left behind,   *)
(* half-copied change sets included, in every file git does not ignore.    *)
RollbackUndoes ==
  pc = "confirm" /\ operator = 0 /\ faults = 1 =>
    /\ \A p \in Paths \ Ignored : work[p] = Baseline[p]
    /\ index = Baseline /\ HeadTree = Baseline

(* A rollback succeeds where it can, and never claims more than it did.    *)
RollbackSound == RestoredIsBaseline /\ RollbackUndoes

(* When the merge is applied and the operator stayed away, branch, index   *)
(* and working tree are all the approved tree.                             *)
AppliedIsApproved ==
  pc = "applied" /\ operator = 0 => work = Approved /\ index = Approved /\ HeadTree = Approved

(* "Clean only the paths this Governator merge was about to land": the     *)
(* rollback spares what the operator wrote elsewhere.                      *)
RollbackSparesOperator ==
  [][\A p \in Paths \ mergePaths :
       pc = "reset" /\ pc' = "clean" /\ work[p] = "mine" => work'[p] = "mine"]_vars

(* "the live repository is simply untouched": no step of the merge or of   *)
(* its rollback takes a commit of the operator's off the branch.           *)
OperatorCommitsStay ==
  [][IsPrefix(Mine(branch), Mine(branch'))]_vars

=============================================================================
