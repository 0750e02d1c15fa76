--------------------------- MODULE WorkspaceProofs --------------------------
(***************************************************************************)
(* Proofs about what outlives a process.  The merge into the live root,    *)
(* for any set of files, any change set, any ignore rules and any number   *)
(* of failing commands and operator's edits: MergeInv says what the branch *)
(* holds around the compare-and-swap, what an undisturbed merge has        *)
(* written so far at each of its steps, and what `git reset --hard` has    *)
(* settled for the rest of the rollback.  The workspace's lock, for any    *)
(* number of processes, inodes, calls and crashes: LockInv is inductive,   *)
(* LiveMarkerHasHolder is preserved under it, and OnlyOwnerUnlinks follows *)
(* from it.  The maintenance outbox, for any number of rows, reconcilers   *)
(* and kills: OutboxInv, and LossInv for what a kill may lose.             *)
(***************************************************************************)
EXTENDS LiveRoot, WorkspaceLock, Outbox, TLAPS

-----------------------------------------------------------------------------
(* The live root                                                           *)

Measured == <<[by |-> "base", tree |-> Baseline]>>

(* The steps before the ref is moved.                                      *)
Unmoved == {"check", "intent", "build", "commit"}

(* The steps after it, as long as nothing goes wrong.                      *)
Moved == {"verify", "copy", "remove", "sync", "record", "applied"}

(* The steps of rollbackLiveRoot.                                          *)
RollingBack == {"reset", "clean", "confirm"}

(* Before the compare-and-swap the branch is the measured commit and what  *)
(* the operator has put on top of it.                                      *)
BranchGrows ==
  pc \in Unmoved =>
    /\ branch # <<>> /\ branch[1] = Measured[1]
    /\ \A i \in 1..Len(branch) : branch[i].by # "governator"

(* Between `reset --hard` and the end of the rollback the merge commit is  *)
(* off the branch, and a file of the baseline is in the index and in the   *)
(* working tree, with whatever content.                                    *)
ResetHolds ==
  pc \in {"clean", "confirm"} =>
    /\ \A i \in 1..Len(branch) : branch[i].by # "governator"
    /\ \A p \in Tracked : index[p] # "none" /\ work[p] # "none"

Restored ==
  pc = "restored" =>
    /\ work = Baseline /\ index = Baseline /\ HeadTree = Baseline
    /\ \A i \in 1..Len(branch) : branch[i].by # "governator"

(* What an undisturbed merge has written at each of its steps.             *)
CopiedSoFar ==
  CASE pc \in Unmoved \cup {"verify"} -> work = Baseline
    [] pc = "copy" -> \A p \in mergePaths : work[p] =
                         IF p \in Changed \ todo THEN Approved[p] ELSE Baseline[p]
    [] pc = "remove" -> \A p \in mergePaths : work[p] =
                         IF p \in Deleted /\ p \in todo THEN Baseline[p] ELSE Approved[p]
    [] pc \in {"sync", "record", "applied"} -> \A p \in mergePaths : work[p] = Approved[p]
    [] OTHER -> TRUE

(* What an undisturbed rollback has undone.                                *)
CleanedSoFar ==
  pc \in {"clean", "confirm"} =>
    /\ branch = Measured /\ index = Baseline
    /\ \A p \in Tracked : work[p] = Baseline[p]
    /\ faults = 1 => \A p \in mergePaths \ Ignored : p \notin todo => work[p] = Baseline[p]
    /\ pc = "confirm" => todo = {}

(* The merge while the operator stays away: only the approved paths change,*)
(* and a rollback has a fault for a reason.                                *)
Undisturbed ==
  operator = 0 =>
    /\ \A p \in Paths \ mergePaths : work[p] = Baseline[p]
    /\ pc \in Unmoved => branch = Measured /\ index = Baseline
    /\ pc \in Moved => branch = Landed
    /\ pc \in {"record", "applied"} => index = Approved
    /\ pc \in RollingBack => faults >= 1
    /\ pc = "remove" => todo \subseteq Deleted
    /\ pc = "copy" => todo \subseteq Changed
    /\ CopiedSoFar /\ CleanedSoFar

MergeInv == TypeOK /\ BranchGrows /\ ResetHolds /\ Restored /\ Undisturbed

-----------------------------------------------------------------------------
(* The trees                                                               *)

(* The baseline and the approved tree are trees, and differ only where the *)
(* agent's change set says so.                                             *)
LEMMA TreeFacts ==
  /\ Baseline \in Trees /\ Approved \in Trees
  /\ \A p \in Paths : p \notin mergePaths => Approved[p] = Baseline[p]
  /\ \A p \in Tracked : p \in Paths /\ Baseline[p] # "none"
  /\ \A p \in Paths \ Tracked : Baseline[p] = "none"
  /\ mergePaths \subseteq Paths
BY LiveRootAssumption DEF Baseline, Approved, Trees, Contents, mergePaths

(* What the approved tree has at an approved path.                         *)
LEMMA ApprovedAt ==
  /\ \A p \in Changed : p \in Paths /\ Approved[p] = "agent"
  /\ \A p \in Deleted : p \in Paths /\ Approved[p] = "none" /\ p \notin Changed
BY LiveRootAssumption DEF Approved, mergePaths

(* Two trees that agree on every path are the same.                        *)
LEMMA SameTree ==
  ASSUME NEW t \in Trees, NEW u \in Trees, \A p \in Paths : t[p] = u[p]
  PROVE  t = u
BY DEF Trees

(* The commits the merge itself puts on the branch.                        *)
LEMMA CommitFacts ==
  /\ Measured \in Seq(Commits) /\ Len(Measured) = 1 /\ Measured # <<>>
  /\ Measured[1] = [by |-> "base", tree |-> Baseline]
  /\ Landed \in Seq(Commits) /\ Len(Landed) = 2 /\ Landed # <<>>
  /\ Landed[1] = Measured[1]
  /\ Landed[2] = [by |-> "governator", tree |-> Approved]
<1>1. [by |-> "base", tree |-> Baseline] \in Commits
  BY TreeFacts DEF Commits
<1>2. [by |-> "governator", tree |-> Approved] \in Commits
  BY TreeFacts DEF Commits
<1> QED BY <1>1, <1>2 DEF Measured, Landed

(* The tree of HEAD around a merge nobody disturbs.                        *)
LEMMA HeadOf ==
  /\ branch = Measured => HeadTree = Baseline
  /\ branch = Landed => HeadTree = Approved
<1>1. CASE branch = Measured
  <2>1. branch[Len(branch)].tree = Baseline
    BY <1>1, CommitFacts
  <2> QED BY <1>1, <2>1 DEF HeadTree, Last, Measured, Landed
<1>2. CASE branch = Landed
  <2>1. branch[Len(branch)].tree = Approved
    BY <1>2, CommitFacts
  <2> QED BY <1>2, <2>1 DEF HeadTree, Last, Measured, Landed
<1> QED BY <1>1, <1>2

-----------------------------------------------------------------------------
(* Types                                                                   *)

(* Every step of the merge, the rollback and the operator keeps the types. *)
LEMMA TypesKept == TypeOK /\ [Next]_vars => TypeOK'
<1> SUFFICES ASSUME TypeOK, [Next]_vars PROVE TypeOK'
  OBVIOUS
<1> USE LiveRootAssumption, TreeFacts, CommitFacts DEF TypeOK, Ends, Goto
<1> USE DEF Fault
<1>1. CASE requireCleanLiveRoot
  BY <1>1 DEF requireCleanLiveRoot
<1>2. CASE MergeIntent
  BY <1>2 DEF MergeIntent
<1>3. CASE buildApprovedMergeTree
  BY <1>3 DEF buildApprovedMergeTree
<1>4. CASE UpdateRef
  BY <1>4 DEF UpdateRef
<1>5. CASE VerifyCommit
  BY <1>5 DEF VerifyCommit, mergePaths
<1>6. CASE Copied
  BY <1>6 DEF Copied, mergePaths
<1>7. CASE Removed
  BY <1>7 DEF Removed
<1>8. CASE SyncRealIndex
  BY <1>8 DEF SyncRealIndex
<1>9. CASE MergeApplied
  BY <1>9 DEF MergeApplied
<1>10. CASE ResetHard
  <2>1. CASE Fault("unrestored")
    BY <1>10, <2>1
  <2>2. CASE branch' = Measured /\ index' = Baseline
    <3>1. work' \in Trees
      BY <1>10 DEF ResetHard, Trees
    <3> QED BY <1>10, <2>2, <3>1 DEF ResetHard
  <2> QED BY <1>10, <2>1, <2>2 DEF ResetHard, Measured
<1>11. CASE Cleaned
  BY <1>11 DEF Cleaned
<1>12. CASE ConfirmRollback
  BY <1>12 DEF ConfirmRollback
<1>13. CASE Crash
  BY <1>13 DEF Crash
<1>14. CASE Commit
  <2>1. index' \in Trees
    BY <1>14 DEF Commit, Trees, Contents
  <2>2. [by |-> "operator", tree |-> index'] \in Commits
    BY <2>1 DEF Commits
  <2>3. branch' \in Seq(Commits) /\ branch' # <<>>
    BY <1>14, <2>2 DEF Commit
  <2> QED BY <1>14, <2>1, <2>3 DEF Commit, Acts
<1>15. ASSUME NEW p \in Paths, CopyFile(p) PROVE TypeOK'
  BY <1>15 DEF CopyFile, Trees, Contents
<1>16. ASSUME NEW p \in Paths, RemoveFile(p) PROVE TypeOK'
  <2>1. work' \in Trees
    BY <1>16 DEF RemoveFile, Trees, Contents
  <2> QED BY <1>16, <2>1 DEF RemoveFile
<1>17. ASSUME NEW p \in Paths, CleanPath(p) PROVE TypeOK'
  <2>1. work' \in Trees
    BY <1>17 DEF CleanPath, Trees, Contents
  <2> QED BY <1>17, <2>1 DEF CleanPath
<1>18. ASSUME NEW p \in Paths, Edit(p) PROVE TypeOK'
  BY <1>18 DEF Edit, Acts, Trees, Contents
<1>19. CASE UNCHANGED vars
  BY <1>19 DEF vars
<1> QED BY <1>1, <1>2, <1>3, <1>4, <1>5, <1>6, <1>7, <1>8, <1>9, <1>10, <1>11,
           <1>12, <1>13, <1>14, <1>15, <1>16, <1>17, <1>18, <1>19 DEF Next

-----------------------------------------------------------------------------
(* The branch and the rollback, whatever the operator does                 *)

(* What the operator's commit does to the branch and the index.            *)
LEMMA CommitEffect ==
  ASSUME TypeOK, Commit
  PROVE  /\ Len(branch') = Len(branch) + 1 /\ branch' # <<>>
         /\ \A i \in 1..Len(branch) : branch'[i] = branch[i]
         /\ branch'[Len(branch')].by = "operator"
         /\ \A p \in Paths : index[p] # "none" => index'[p] = work[p]
         /\ UNCHANGED <<work, pc, todo, faults>>
         /\ pc \notin Ends /\ operator' = operator + 1
<1> DEFINE c == [by |-> "operator", tree |-> index']
<1>1. branch \in Seq(Commits) /\ branch' = Append(branch, c)
  BY DEF TypeOK, Commit
<1> HIDE DEF c
<1>2. /\ Len(branch') = Len(branch) + 1 /\ branch' # <<>>
      /\ \A i \in 1..Len(branch) : branch'[i] = branch[i]
      /\ branch'[Len(branch')] = c
  BY <1>1
<1>3. c.by = "operator"
  BY DEF c
<1> QED BY <1>2, <1>3 DEF TypeOK, Commit, Acts

(* A confirmed rollback has the measured files in all three places.        *)
LEMMA ConfirmedIsBaseline ==
  ASSUME TypeOK, Clean, work = Baseline, \A p \in Tracked : index[p] # "none"
  PROVE  index = Baseline /\ HeadTree = Baseline
<1>1. \A p \in Paths : index[p] = Baseline[p]
  BY TreeFacts DEF Clean
<1>2. index = Baseline
  BY <1>1, SameTree, TreeFacts DEF TypeOK
<1> QED BY <1>2 DEF Clean

(* The compare-and-swap is only made over the measured commit, the reset   *)
(* takes every other commit off the branch.                                *)
LEMMA BranchKept ==
  ASSUME TypeOK, BranchGrows, ResetHolds, Restored, [Next]_vars
  PROVE  (BranchGrows /\ ResetHolds /\ Restored)'
<1> USE TreeFacts, CommitFacts
<1> USE DEF BranchGrows, ResetHolds, Restored, HeadTree, Unmoved, Goto, Fault, Ends
<1>1. CASE requireCleanLiveRoot
  BY <1>1 DEF requireCleanLiveRoot
<1>2. CASE MergeIntent
  BY <1>2 DEF MergeIntent
<1>3. CASE buildApprovedMergeTree
  BY <1>3 DEF buildApprovedMergeTree
<1>4. CASE UpdateRef
  BY <1>4 DEF UpdateRef
<1>5. CASE VerifyCommit
  BY <1>5 DEF VerifyCommit
<1>6. CASE Copied
  BY <1>6 DEF Copied
<1>7. CASE Removed
  BY <1>7 DEF Removed
<1>8. CASE SyncRealIndex
  BY <1>8 DEF SyncRealIndex
<1>9. CASE MergeApplied
  BY <1>9 DEF MergeApplied
<1>10. CASE ResetHard
  <2>1. CASE Fault("unrestored")
    BY <1>10, <2>1
  <2>2. CASE branch' = Measured /\ index' = Baseline /\ pc' = "clean"
    <3>1. \A p \in Tracked : work'[p] = Baseline[p]
      BY <1>10, <2>2 DEF ResetHard
    <3>2. \A i \in 1..Len(branch') : branch'[i].by # "governator"
      <4>1. Len(branch') = 1 /\ branch'[1].by = "base"
        BY <2>2
      <4> QED BY <4>1
    <3> QED BY <2>2, <3>1, <3>2
  <2> QED BY <1>10, <2>1, <2>2 DEF ResetHard, Measured
<1>11. CASE Cleaned
  BY <1>11 DEF Cleaned
<1>12. CASE ConfirmRollback
  <2>1. CASE Fault("unrestored")
    BY <1>12, <2>1
  <2>2. CASE Clean /\ work = Baseline /\ pc = "confirm" /\ pc' = "restored"
             /\ UNCHANGED <<branch, index, work, todo, operator, faults>>
    BY <2>2, ConfirmedIsBaseline
  <2>3. CASE pc = "confirm" /\ pc' = "unrestored"
             /\ UNCHANGED <<branch, index, work, todo, operator, faults>>
    BY <2>3
  <2> QED BY <1>12, <2>1, <2>2, <2>3 DEF ConfirmRollback
<1>13. CASE Crash
  BY <1>13 DEF Crash
<1>14. CASE Commit
  BY <1>14, CommitEffect
<1>15. ASSUME NEW p \in Paths, CopyFile(p) PROVE (BranchGrows /\ ResetHolds /\ Restored)'
  BY <1>15 DEF CopyFile
<1>16. ASSUME NEW p \in Paths, RemoveFile(p) PROVE (BranchGrows /\ ResetHolds /\ Restored)'
  BY <1>16 DEF RemoveFile
<1>17. ASSUME NEW p \in Paths, CleanPath(p) PROVE (BranchGrows /\ ResetHolds /\ Restored)'
  BY <1>17 DEF CleanPath, TypeOK, Trees
<1>18. ASSUME NEW p \in Paths, Edit(p) PROVE (BranchGrows /\ ResetHolds /\ Restored)'
  BY <1>18 DEF Edit, TypeOK, Trees
<1>19. CASE UNCHANGED vars
  BY <1>19 DEF vars
<1> QED BY <1>1, <1>2, <1>3, <1>4, <1>5, <1>6, <1>7, <1>8, <1>9, <1>10, <1>11,
           <1>12, <1>13, <1>14, <1>15, <1>16, <1>17, <1>18, <1>19 DEF Next

-----------------------------------------------------------------------------
(* The merge while the operator stays away                                 *)

(* An undisturbed merge writes the approved paths and nothing else, and an *)
(* undisturbed rollback takes all of it back.                              *)
LEMMA UndisturbedKept ==
  ASSUME TypeOK, Undisturbed, [Next]_vars
  PROVE  Undisturbed'
<1> SUFFICES ASSUME operator' = 0, operator \in Nat, faults \in Nat PROVE Undisturbed'
  BY DEF TypeOK, Undisturbed
<1> USE TreeFacts, CommitFacts, ApprovedAt
<1> USE DEF Undisturbed, CopiedSoFar, CleanedSoFar, Unmoved, Moved, RollingBack, Goto, Fault,
            Ends, mergePaths
<1>1. CASE requireCleanLiveRoot
  <2>1. operator = 0
    BY <1>1 DEF requireCleanLiveRoot
  <2>2. pc = "check" => Clean
    BY <2>1, HeadOf DEF Clean
  <2> QED BY <1>1, <2>1, <2>2 DEF requireCleanLiveRoot
<1>2. CASE MergeIntent
  BY <1>2 DEF MergeIntent
<1>3. CASE buildApprovedMergeTree
  BY <1>3 DEF buildApprovedMergeTree
<1>4. CASE UpdateRef
  BY <1>4 DEF UpdateRef
<1>5. CASE VerifyCommit
  BY <1>5 DEF VerifyCommit
<1>6. CASE Copied
  BY <1>6 DEF Copied
<1>7. CASE Removed
  BY <1>7 DEF Removed
<1>8. CASE SyncRealIndex
  BY <1>8 DEF SyncRealIndex
<1>9. CASE MergeApplied
  BY <1>9 DEF MergeApplied
<1>10. CASE ResetHard
  BY <1>10 DEF ResetHard
<1>11. CASE Cleaned
  BY <1>11 DEF Cleaned
<1>12. CASE ConfirmRollback
  BY <1>12 DEF ConfirmRollback
<1>13. CASE Crash
  BY <1>13 DEF Crash
<1>14. CASE Commit
  BY <1>14 DEF Commit, Acts
<1>15. ASSUME NEW p \in Paths, CopyFile(p) PROVE Undisturbed'
  BY <1>15 DEF CopyFile, TypeOK, Trees
<1>16. ASSUME NEW p \in Paths, RemoveFile(p) PROVE Undisturbed'
  BY <1>16 DEF RemoveFile, TypeOK, Trees
<1>17. ASSUME NEW p \in Paths, CleanPath(p) PROVE Undisturbed'
  BY <1>17 DEF CleanPath, TypeOK, Trees
<1>18. ASSUME NEW p \in Paths, Edit(p) PROVE Undisturbed'
  BY <1>18 DEF Edit, Acts
<1>19. CASE UNCHANGED vars
  BY <1>19 DEF vars
<1> QED BY <1>1, <1>2, <1>3, <1>4, <1>5, <1>6, <1>7, <1>8, <1>9, <1>10, <1>11,
           <1>12, <1>13, <1>14, <1>15, <1>16, <1>17, <1>18, <1>19 DEF Next

-----------------------------------------------------------------------------
(* The theorems                                                            *)

(* The final barrier found the root as it was measured.                    *)
LEMMA InitMerge == Init => MergeInv
<1> SUFFICES ASSUME Init PROVE MergeInv
  OBVIOUS
<1>1. TypeOK
  BY LiveRootAssumption, TreeFacts, CommitFacts DEF Init, TypeOK, Measured
<1>2. BranchGrows /\ ResetHolds /\ Restored /\ Undisturbed
  BY CommitFacts, TreeFacts
  DEF Init, BranchGrows, ResetHolds, Restored, Undisturbed, CopiedSoFar, CleanedSoFar,
      Unmoved, Moved, RollingBack, Measured
<1> QED BY <1>1, <1>2 DEF MergeInv

(***************************************************************************)
(* The invariant of the merge holds in every state, for any repository,    *)
(* change set and ignore rules, and any number of failures and edits.      *)
(***************************************************************************)
THEOREM MergeInvariance == Spec => []MergeInv
<1>1. MergeInv /\ [Next]_vars => MergeInv'
  BY TypesKept, BranchKept, UndisturbedKept DEF MergeInv
<1> QED BY InitMerge, <1>1, PTL DEF Spec

(* Type correctness of branch, index, working tree and merge step.         *)
THEOREM MergeTypes == Spec => []TypeOK
BY MergeInvariance, PTL DEF MergeInv

(***************************************************************************)
(* A rollback that reports success has restored files, index and branch,   *)
(* whatever failed and whatever the operator did; and one that is left     *)
(* alone undoes what any one failed step left behind.                      *)
(***************************************************************************)
THEOREM RollbackIsSound == Spec => []RollbackSound
<1>1. MergeInv => RestoredIsBaseline
  BY DEF MergeInv, Restored, RestoredIsBaseline
<1>2. MergeInv => RollbackUndoes
  <2> SUFFICES ASSUME MergeInv, pc = "confirm", operator = 0, faults = 1
               PROVE  /\ \A p \in Paths \ Ignored : work[p] = Baseline[p]
                      /\ index = Baseline /\ HeadTree = Baseline
    BY DEF RollbackUndoes
  <2> USE DEF MergeInv, Undisturbed, CleanedSoFar
  <2>1. index = Baseline /\ HeadTree = Baseline
    BY HeadOf
  <2>2. \A p \in Paths \ Ignored : work[p] = Baseline[p]
    OBVIOUS
  <2> QED BY <2>1, <2>2
<1> QED BY <1>1, <1>2, MergeInvariance, PTL DEF RollbackSound

(* When the merge is applied and the operator stayed away, branch, index   *)
(* and working tree are the approved tree.                                 *)
THEOREM AppliedTreeIsApproved == Spec => []AppliedIsApproved
<1>1. MergeInv => AppliedIsApproved
  <2> SUFFICES ASSUME MergeInv, pc = "applied", operator = 0
               PROVE  work = Approved /\ index = Approved /\ HeadTree = Approved
    BY DEF AppliedIsApproved
  <2>1. branch = Landed /\ index = Approved
    BY DEF MergeInv, Undisturbed, Moved
  <2>2. \A p \in Paths : work[p] = Approved[p]
    BY TreeFacts DEF MergeInv, Undisturbed, CopiedSoFar, Unmoved
  <2>3. work = Approved
    BY <2>2, SameTree, TreeFacts DEF MergeInv, TypeOK
  <2> QED BY <2>1, <2>3, HeadOf
<1> QED BY <1>1, MergeInvariance, PTL

(***************************************************************************)
(* Landing the merge only ever adds to the branch: the compare-and-swap    *)
(* fails over a commit the operator made after the measurement.            *)
(***************************************************************************)
THEOREM LandingNeverDrops == Spec => LandingKeepsBranch
<1>1. ASSUME MergeInv, [Next]_vars, pc = "commit", pc' = "verify"
      PROVE  IsPrefix(branch, branch')
  <2>1. Len(branch) = 1 /\ branch' = Landed
    BY <1>1 DEF Next, vars, Goto, Fault, requireCleanLiveRoot, MergeIntent,
      buildApprovedMergeTree, UpdateRef, VerifyCommit, Copied, Removed, SyncRealIndex,
      MergeApplied, ResetHard, Cleaned, ConfirmRollback, Crash, Commit, CopyFile,
      RemoveFile, CleanPath, Edit
  <2>2. branch = Measured
    BY <1>1, <2>1, CommitFacts DEF MergeInv, TypeOK, BranchGrows, Unmoved
  <2>3. SubSeq(branch, 1, 1) = SubSeq(branch', 1, 1)
    BY <2>1, <2>2, CommitFacts
  <2> QED BY <2>1, <2>3, CommitFacts DEF IsPrefix
<1>2. MergeInv /\ [Next]_vars =>
        [pc = "commit" /\ pc' = "verify" => IsPrefix(branch, branch')]_vars
  BY <1>1
<1> QED BY <1>2, MergeInvariance, PTL DEF Spec, LandingKeepsBranch

-----------------------------------------------------------------------------
(* The lock                                                                *)

USE NoInodeAssumption, NoProcAssumption, NoMarkerAssumption

(* The initial state satisfies the inductive invariant.                    *)
LEMMA LockBegins == LockInit => LockInv
  BY BoundsAssumption
  DEF LockInit, LockInv, LockTypeOK, FilesAgree, FlocksAgree, TokensAgree,
      MarkersAgree, ReleasesAgree, PCs, Flocked, Marked, Marker

(* Every step of lock(), of release() and of a crash preserves it.         *)
LEMMA LockKeeps == LockInv /\ [LockNext]_lockVars => LockInv'
<1> SUFFICES ASSUME LockInv, [LockNext]_lockVars PROVE LockInv'
  OBVIOUS
<1> USE DEF LockInv, LockTypeOK, FilesAgree, FlocksAgree, TokensAgree,
            MarkersAgree, ReleasesAgree, PCs, Flocked, Marked, Marker, MyMarker
<1>1. CASE UNCHANGED lockVars
  BY <1>1 DEF lockVars
<1>2. ASSUME NEW p \in Procs, Open(p) PROVE LockInv'
  BY <1>2 DEF Open
<1>3. ASSUME NEW p \in Procs, Flock(p) PROVE LockInv'
  <2>1. LockTypeOK'
    BY <1>3 DEF Flock
  <2>2. FilesAgree'
    BY <1>3 DEF Flock
  <2>3. FlocksAgree'
    BY <1>3 DEF Flock
  <2>4. TokensAgree'
    BY <1>3 DEF Flock
  <2>5. MarkersAgree'
    BY <1>3 DEF Flock
  <2>6. ReleasesAgree'
    BY <1>3 DEF Flock
  <2>7. QED
    BY <2>1, <2>2, <2>3, <2>4, <2>5, <2>6
<1>4. ASSUME NEW p \in Procs, CheckLive(p) PROVE LockInv'
  <2>1. LockTypeOK'
    BY <1>4 DEF CheckLive, DropFlock
  <2>2. FilesAgree'
    BY <1>4 DEF CheckLive, DropFlock
  <2>3. FlocksAgree'
    BY <1>4 DEF CheckLive, DropFlock
  <2>4. TokensAgree'
    BY <1>4 DEF CheckLive, DropFlock
  <2>5. MarkersAgree'
    BY <1>4 DEF CheckLive, DropFlock
  <2>6. ReleasesAgree'
    BY <1>4 DEF CheckLive, DropFlock
  <2>7. QED
    BY <2>1, <2>2, <2>3, <2>4, <2>5, <2>6
<1>5. ASSUME NEW p \in Procs, Truncate(p) PROVE LockInv'
  <2>1. LockTypeOK'
    BY <1>5 DEF Truncate, DropFlock
  <2>2. FilesAgree'
    BY <1>5 DEF Truncate, DropFlock
  <2>3. FlocksAgree'
    BY <1>5 DEF Truncate, DropFlock
  <2>4. TokensAgree'
    BY <1>5 DEF Truncate, DropFlock
  <2>5. MarkersAgree'
    BY <1>5 DEF Truncate, DropFlock
  <2>6. ReleasesAgree'
    BY <1>5 DEF Truncate, DropFlock
  <2>7. QED
    BY <2>1, <2>2, <2>3, <2>4, <2>5, <2>6
<1>6. ASSUME NEW p \in Procs, WriteMarker(p) PROVE LockInv'
  BY <1>6 DEF WriteMarker
<1>7. ASSUME NEW p \in Procs, WriteFails(p) PROVE LockInv'
  BY <1>7 DEF WriteFails, DropFlock
<1>8. ASSUME NEW p \in Procs, SyncFails(p) PROVE LockInv'
  <2>1. LockTypeOK'
    <3>1. fd[p] \in Inodes /\ MyMarker(p) \in Marker
      BY <1>8 DEF SyncFails
    <3>2. leftBehind' \in SUBSET Nat
      <4>1. /\ leftBehind' = leftBehind \cup {token[p]}
            /\ token[p] \in Nat
            /\ leftBehind \in SUBSET Nat
        BY <1>8 DEF SyncFails
      <4>2. QED
        BY ONLY <4>1, Zenon
    <3>3. QED
      BY <1>8, <3>1, <3>2 DEF SyncFails, DropFlock
  <2>2. FilesAgree'
    BY <1>8 DEF SyncFails, DropFlock
  <2>3. FlocksAgree'
    BY <1>8 DEF SyncFails, DropFlock
  <2>4. TokensAgree'
    BY <1>8 DEF SyncFails, DropFlock
  <2>5. MarkersAgree'
    BY <1>8 DEF SyncFails, DropFlock
  <2>6. ReleasesAgree'
    BY <1>8 DEF SyncFails, DropFlock
  <2>7. QED
    BY <2>1, <2>2, <2>3, <2>4, <2>5, <2>6
<1>9. ASSUME NEW p \in Procs, ReleaseRead(p) PROVE LockInv'
  <2>1. TokenAtPath(p) => path = fd[p]
    BY <1>9 DEF ReleaseRead, TokenAtPath
  <2>2. ~TokenAtPath(p) => path # fd[p]
    <3>1. marker[fd[p]] = MyMarker(p) /\ MyMarker(p) \in Marker
      BY <1>9 DEF ReleaseRead
    <3>2. marker[fd[p]] # NoMarker /\ marker[fd[p]].token = token[p]
      BY <3>1
    <3>3. fd[p] # NoInode
      BY <1>9 DEF ReleaseRead
    <3>4. QED
      BY <3>2, <3>3 DEF TokenAtPath
  <2>3. CASE TokenAtPath(p) /\ lpc' = [lpc EXCEPT ![p] = "matched"] /\ UNCHANGED leftBehind
    BY <1>9, <2>1, <2>3 DEF ReleaseRead
  <2>4. CASE ~TokenAtPath(p) /\ lpc' = [lpc EXCEPT ![p] = "unlock"] /\ UNCHANGED leftBehind
    BY <1>9, <2>2, <2>4 DEF ReleaseRead
  <2>5. CASE lpc' = [lpc EXCEPT ![p] = "unlock"] /\ leftBehind' = leftBehind \cup {token[p]}
    <3>1. token[p] \in Nat /\ leftBehind \in SUBSET Nat
      OBVIOUS
    <3>2. leftBehind' \in SUBSET Nat /\ token[p] \in leftBehind' /\ leftBehind \subseteq leftBehind'
      BY ONLY <2>5, <3>1, Zenon
    <3>3. lpc[p] = "held" /\ lpc' = [lpc EXCEPT ![p] = "unlock"]
      BY <1>9, <2>5 DEF ReleaseRead
    <3>4. QED
      BY <1>9, <3>2, <3>3 DEF ReleaseRead
  <2>6. QED
    BY <1>9, <2>3, <2>4, <2>5 DEF ReleaseRead
<1>10. ASSUME NEW p \in Procs, ReleaseRemove(p) PROVE LockInv'
  <2>1. /\ token[p] \in Nat
        /\ leftBehind \in SUBSET Nat
        /\ leftBehind' = leftBehind \/ leftBehind' = leftBehind \cup {token[p]}
    BY <1>10 DEF ReleaseRemove
  <2>2. leftBehind' \in SUBSET Nat
    BY ONLY <2>1, Zenon
  <2>3. leftBehind \subseteq leftBehind'
    BY ONLY <2>1, Zenon
  <2>4. CASE path' = NoInode
    BY <1>10, <2>2, <2>3, <2>4 DEF ReleaseRemove
  <2>5. CASE path' = path /\ token[p] \in leftBehind'
    BY <1>10, <2>2, <2>3, <2>5 DEF ReleaseRemove
  <2>6. QED
    BY <1>10, <2>4, <2>5 DEF ReleaseRemove
<1>11. ASSUME NEW p \in Procs, ReleaseUnlock(p) PROVE LockInv'
  BY <1>11 DEF ReleaseUnlock, DropFlock
<1>12. ASSUME NEW p \in Procs, Dies(p) PROVE LockInv'
  BY <1>12 DEF Dies
<1>13. QED
  BY <1>1, <1>2, <1>3, <1>4, <1>5, <1>6, <1>7, <1>8, <1>9, <1>10, <1>11,
     <1>12 DEF LockNext, Step

(***************************************************************************)
(* The kernel's flocks, the files and the processes' places in lock() and  *)
(* release() agree in every reachable state.                               *)
(***************************************************************************)
THEOREM LockInvariance == LockSpec => []LockInv
<1>1. LockInit => LockInv
  BY LockBegins
<1>2. LockInv /\ [LockNext]_lockVars => LockInv'
  BY LockKeeps
<1>3. QED
  BY <1>1, <1>2, PTL DEF LockSpec

(***************************************************************************)
(* release() never unlinks a lock that is not its caller's: the token read *)
(* from the path still stands there when the path is unlinked.             *)
(***************************************************************************)
THEOREM UnlinkByOwner == LockSpec => OnlyOwnerUnlinks
<1> DEFINE A == path # NoInode /\ path' = NoInode =>
                  \E p \in Procs : /\ Holds(p)
                                   /\ marker[path] = MyMarker(p)
                                   /\ holder[path] = p
<1>1. LockInv /\ [LockNext]_lockVars => [A]_lockVars
  <2> SUFFICES ASSUME LockInv, LockNext, path # NoInode, path' = NoInode
               PROVE  A
    OBVIOUS
  <2>1. PICK p \in Procs : ReleaseRemove(p)
    BY DEF LockNext, Step, Open, Flock, CheckLive, Truncate, WriteMarker,
           WriteFails, SyncFails, ReleaseRead, ReleaseUnlock, Dies, LockInv,
           LockTypeOK
  <2>2. Holds(p) /\ marker[path] = MyMarker(p) /\ holder[path] = p
    BY <2>1 DEF ReleaseRemove, LockInv, FlocksAgree, MarkersAgree,
                ReleasesAgree, Holds, Flocked, Marked
  <2>3. QED
    BY <2>2
<1>2. QED
  BY <1>1, LockInvariance, PTL DEF LockSpec, OnlyOwnerUnlinks

(***************************************************************************)
(* A crashed process never keeps the workspace locked: a live marker at    *)
(* the path belongs to a process inside the lock, or was left behind by a  *)
(* failed Sync or Remove.                                                  *)
(***************************************************************************)
LEMMA LiveMarkerStep ==
  ASSUME LockInv, LiveMarkerHasHolder, [LockNext]_lockVars
  PROVE  LiveMarkerHasHolder'
<1> USE DEF LockInv, LockTypeOK, FilesAgree, FlocksAgree, TokensAgree,
            MarkersAgree, ReleasesAgree, PCs, Flocked, Marked, Marker,
            MyMarker, LiveMarkerHasHolder, IsLiveLock, SameProcess, Holds
<1>1. CASE UNCHANGED lockVars
  BY <1>1 DEF lockVars
<1>2. ASSUME NEW p \in Procs, Open(p) PROVE LiveMarkerHasHolder'
  BY <1>2 DEF Open
<1>3. ASSUME NEW p \in Procs, Flock(p) PROVE LiveMarkerHasHolder'
  BY <1>3 DEF Flock
<1>4. ASSUME NEW p \in Procs, CheckLive(p) PROVE LiveMarkerHasHolder'
  BY <1>4 DEF CheckLive, DropFlock
<1>5. ASSUME NEW p \in Procs, Truncate(p) PROVE LiveMarkerHasHolder'
  BY <1>5 DEF Truncate, DropFlock
<1>6. ASSUME NEW p \in Procs, WriteMarker(p) PROVE LiveMarkerHasHolder'
  BY <1>6 DEF WriteMarker
<1>7. ASSUME NEW p \in Procs, WriteFails(p) PROVE LiveMarkerHasHolder'
  BY <1>7 DEF WriteFails, DropFlock
<1>8. ASSUME NEW p \in Procs, SyncFails(p) PROVE LiveMarkerHasHolder'
  BY <1>8 DEF SyncFails, DropFlock
<1>9. ASSUME NEW p \in Procs, ReleaseRead(p) PROVE LiveMarkerHasHolder'
  <2>1. CASE TokenAtPath(p) /\ lpc' = [lpc EXCEPT ![p] = "matched"] /\ UNCHANGED leftBehind
    BY <1>9, <2>1 DEF ReleaseRead
  <2>4. CASE lpc' = [lpc EXCEPT ![p] = "unlock"] /\ leftBehind' = leftBehind \cup {token[p]}
    <3>1. SUFFICES ASSUME IsLiveLock
                   PROVE  marker[path].token \in leftBehind'
                          \/ /\ Holds(marker[path].pid) /\ marker[path].pid # p
                             /\ fd[marker[path].pid] = path
                             /\ holder[path] = marker[path].pid
      BY <1>9, <2>4 DEF ReleaseRead
    <3>2. lpc[p] = "held" /\ marker[fd[p]] = MyMarker(p)
      BY <1>9 DEF ReleaseRead
    <3>3. fd[p] = path => marker[path].token = token[p]
      BY <3>2
    <3>4. marker[path].token \in leftBehind \/ fd[p] = path => marker[path].token \in leftBehind'
      BY ONLY <2>4, <3>3, Zenon
    <3>5. QED
      BY <3>1, <3>4
  <2>2. CASE ~TokenAtPath(p) /\ lpc' = [lpc EXCEPT ![p] = "unlock"] /\ UNCHANGED leftBehind
    <3>1. SUFFICES ASSUME IsLiveLock
                   PROVE  \/ marker[path].token \in leftBehind
                          \/ /\ Holds(marker[path].pid) /\ marker[path].pid # p
                             /\ fd[marker[path].pid] = path
                             /\ holder[path] = marker[path].pid
      BY <1>9, <2>2 DEF ReleaseRead
    <3>2. path \in Inodes /\ marker[path] \in Marker
      BY <3>1
    <3>3. marker[path].pid = p /\ fd[p] = path => TokenAtPath(p)
      <4>1. lpc[p] = "held"
        BY <1>9 DEF ReleaseRead
      <4>2. marker[fd[p]] = MyMarker(p)
        BY <4>1
      <4>3. fd[p] = path => marker[path].token = token[p]
        BY <4>2
      <4>4. QED
        BY <3>1, <4>3 DEF TokenAtPath
    <3>4. QED
      BY <2>2, <3>1, <3>2, <3>3
  <2>3. QED
    BY <1>9, <2>1, <2>2, <2>4 DEF ReleaseRead
<1>10. ASSUME NEW p \in Procs, ReleaseRemove(p) PROVE LiveMarkerHasHolder'
  <2>1. CASE path' = NoInode
    BY <2>1
  <2>2. CASE path' = path /\ leftBehind' = leftBehind \cup {token[p]}
    <3>1. lpc[p] = "matched" /\ path = fd[p] /\ marker[fd[p]] = MyMarker(p)
      BY <1>10 DEF ReleaseRemove
    <3>2. marker[path].token = token[p]
      BY <3>1
    <3>3. marker' = marker
      BY <1>10 DEF ReleaseRemove
    <3>4. marker'[path'].token \in leftBehind'
      BY ONLY <2>2, <3>2, <3>3, Zenon
    <3>5. QED
      BY <3>4
  <2>3. QED
    BY <1>10, <2>1, <2>2 DEF ReleaseRemove
<1>11. ASSUME NEW p \in Procs, ReleaseUnlock(p) PROVE LiveMarkerHasHolder'
  <2>1. IsLiveLock => marker[path].token \in leftBehind \/ fd[p] # path
    BY <1>11 DEF ReleaseUnlock
  <2>2. QED
    BY <1>11, <2>1 DEF ReleaseUnlock, DropFlock
<1>12. ASSUME NEW p \in Procs, Dies(p) PROVE LiveMarkerHasHolder'
  BY <1>12 DEF Dies
<1>13. QED
  BY <1>1, <1>2, <1>3, <1>4, <1>5, <1>6, <1>7, <1>8, <1>9, <1>10, <1>11,
     <1>12 DEF LockNext, Step

THEOREM CrashNeverBlocks == LockSpec => []LiveMarkerHasHolder
<1>1. LockInit => LiveMarkerHasHolder
  BY DEF LockInit, LiveMarkerHasHolder, IsLiveLock
<1>2. QED
  BY <1>1, LockInvariance, LiveMarkerStep, PTL DEF LockSpec

-----------------------------------------------------------------------------
(* The outbox                                                              *)

USE NoneAssumption, AttemptsAssumption DEF history

(* The empty outbox satisfies the inductive invariant.                     *)
LEMMA OutboxInitInv == OutboxInit => OutboxInv
  BY DEF OutboxInit, OutboxInv, OutboxTypeOK, Row, Leases, Statuses, Places, CurAgrees, OneExecutor,
         ExecutorHoldsMarker, SuccessKeepsMarker, EffectsAreReported, Executing

(* A claimed row is a row.                                                 *)
LEMMA LeasedRow ==
  ASSUME NEW w \in Row, NEW r \in Reconcilers
  PROVE  [w EXCEPT !.status = "processing", !.owner = r, !.lease = "valid"]
           \in Row
  BY DEF Row, Leases, Statuses

(* A row given back for retry is a row: the attempts saturate.             *)
LEMMA RetriedRow ==
  ASSUME NEW w \in Row
  PROVE  [status |-> "pending", owner |-> None, lease |-> "unset",
          attempts |-> IF w.attempts = MaxAttempts THEN MaxAttempts
                       ELSE w.attempts + 1] \in Row
<1>1. w.attempts \in 0..MaxAttempts
  BY DEF Row
<1>2. (IF w.attempts = MaxAttempts THEN MaxAttempts ELSE w.attempts + 1)
        \in 0..MaxAttempts
  BY <1>1
<1>3. QED
  BY <1>2 DEF Row, Leases, Statuses

(***************************************************************************)
(* The marker part of the invariant does not look at the rows, so the      *)
(* steps that only write rows preserve it for free.                        *)
(***************************************************************************)
LEMMA RowsDoNotMatter ==
  ASSUME OutboxInv, OutboxTypeOK', UNCHANGED <<applied, opc, cur, history>>
  PROVE  OutboxInv'
  BY DEF OutboxInv, CurAgrees, OneExecutor, ExecutorHoldsMarker,
         SuccessKeepsMarker, EffectsAreReported, Executing

(* Every step of a pass, of a cleanup, and every kill preserves it.        *)
LEMMA OutboxNextInv == OutboxInv /\ [OutboxNext]_outboxVars => OutboxInv'
<1> SUFFICES ASSUME OutboxInv, [OutboxNext]_outboxVars PROVE OutboxInv'
  OBVIOUS
<1> USE DEF OutboxInv, OutboxTypeOK, Row, Leases, Statuses, Places
<1>1. CASE UNCHANGED outboxVars
  BY <1>1 DEF outboxVars, CurAgrees, OneExecutor, ExecutorHoldsMarker,
              SuccessKeepsMarker, EffectsAreReported, Executing
<1>2. ASSUME NEW i \in Items, Enqueue(i) PROVE OutboxInv'
  BY <1>2, RowsDoNotMatter DEF Enqueue
<1>3. ASSUME NEW i \in Items, LeaseExpires(i) PROVE OutboxInv'
  BY <1>3, RowsDoNotMatter DEF LeaseExpires
<1>4. ASSUME NEW r \in Reconcilers, ClaimOutbox(r) PROVE OutboxInv'
  <2>1. /\ opc[r] = "idle" /\ opc' = [opc EXCEPT ![r] = "loop"]
        /\ UNCHANGED <<applied, cur, victims, history, cut, kills>>
    BY <1>4 DEF ClaimOutbox
  <2>2. row' \in [Items -> Row]
    <3> HIDE DEF Row, Leases, Statuses
    <3>1. QED
      BY <1>4, LeasedRow DEF ClaimOutbox
  <2>3. claimed' \in [Reconcilers -> SUBSET Items]
    BY <1>4 DEF ClaimOutbox
  <2>4. OutboxTypeOK'
    BY <2>1, <2>2, <2>3
  <2>5. CurAgrees' /\ OneExecutor'
    BY <2>1 DEF CurAgrees, OneExecutor, Executing
  <2>6. ExecutorHoldsMarker' /\ SuccessKeepsMarker' /\ EffectsAreReported'
    BY <2>1 DEF ExecutorHoldsMarker, SuccessKeepsMarker, EffectsAreReported, Executing
  <2>7. QED
    BY <2>4, <2>5, <2>6
<1>5. ASSUME NEW r \in Reconcilers, PassEnds(r) PROVE OutboxInv'
  BY <1>5 DEF PassEnds, CurAgrees, OneExecutor, ExecutorHoldsMarker,
              SuccessKeepsMarker, EffectsAreReported, Executing
<1>6. ASSUME NEW r \in Reconcilers, NEW i \in Items, ClaimExecution(r, i)
      PROVE  OutboxInv'
  <2>1. OutboxTypeOK'
    BY <1>6 DEF ClaimExecution
  <2>2. QED
    BY <1>6, <2>1 DEF ClaimExecution, CurAgrees, OneExecutor,
           ExecutorHoldsMarker, SuccessKeepsMarker, EffectsAreReported, Executing
<1>7. ASSUME NEW r \in Reconcilers, Dispatch(r) PROVE OutboxInv'
  <2>1. /\ cur[r] \in Items /\ cur[r] \notin succeeded /\ cur[r] \in applied
        /\ \A s \in Reconcilers : Executing(s, cur[r]) => s = r
    BY <1>7 DEF Dispatch, CurAgrees, OneExecutor, ExecutorHoldsMarker, Executing
  <2>2. OutboxTypeOK'
    BY <1>7, <2>1 DEF Dispatch, TakeEffect
  <2>8. /\ opc[r] = "dispatch" /\ UNCHANGED cur
        /\ opc' = [opc EXCEPT ![r] = "finish"] \/ opc' = [opc EXCEPT ![r] = "release"]
    BY <1>7 DEF Dispatch
  <2>3. CurAgrees' /\ OneExecutor'
    <3>1. CASE opc' = [opc EXCEPT ![r] = "finish"]
      BY <2>1, <2>8, <3>1 DEF CurAgrees, OneExecutor, Executing
    <3>2. CASE opc' = [opc EXCEPT ![r] = "release"]
      BY <2>1, <2>8, <3>2 DEF CurAgrees, OneExecutor, Executing
    <3>3. QED
      BY <2>8, <3>1, <3>2
  <2>4. ExecutorHoldsMarker'
    BY <1>7, <2>1 DEF Dispatch, ExecutorHoldsMarker, Executing
  <2>5. SuccessKeepsMarker'
    BY <1>7, <2>1 DEF Dispatch, SuccessKeepsMarker
  <2>6. EffectsAreReported'
    BY <1>7, <2>1 DEF Dispatch, TakeEffect, EffectsAreReported
  <2>7. QED
    BY <2>2, <2>3, <2>4, <2>5, <2>6
<1>8. ASSUME NEW r \in Reconcilers, MarkDone(r) PROVE OutboxInv'
  <2>1. cur[r] \in Items
    BY <1>8 DEF MarkDone, CurAgrees
  <2>2. row' \in [Items -> Row]
    BY <1>8, <2>1 DEF MarkDone
  <2>3. OutboxTypeOK'
    BY <1>8, <2>2 DEF MarkDone
  <2>4. QED
    BY <1>8, <2>3 DEF MarkDone, CurAgrees, OneExecutor, ExecutorHoldsMarker,
                      SuccessKeepsMarker, EffectsAreReported, Executing
<1>9. ASSUME NEW r \in Reconcilers, ReleaseExecution(r) PROVE OutboxInv'
  <2>1. cur[r] \in Items /\ cur[r] \notin succeeded
    BY <1>9 DEF ReleaseExecution, CurAgrees, ExecutorHoldsMarker, Executing
  <2>2. \A s \in Reconcilers : Executing(s, cur[r]) => s = r
    BY <1>9, <2>1 DEF ReleaseExecution, OneExecutor, Executing
  <2>3. OutboxTypeOK'
    BY <1>9 DEF ReleaseExecution
  <2>4. QED
    BY <1>9, <2>1, <2>2, <2>3 DEF ReleaseExecution, CurAgrees, OneExecutor,
           ExecutorHoldsMarker, SuccessKeepsMarker, EffectsAreReported, Executing
<1>10. ASSUME NEW r \in Reconcilers, MarkRetry(r) PROVE OutboxInv'
  <2>1. cur[r] \in Items
    BY <1>10 DEF MarkRetry, CurAgrees
  <2>2. row' \in [Items -> Row]
    <3> HIDE DEF Row, Leases, Statuses
    <3>1. QED
      BY <1>10, <2>1, RetriedRow DEF MarkRetry
  <2>3. OutboxTypeOK'
    BY <1>10, <2>2 DEF MarkRetry
  <2>4. QED
    BY <1>10, <2>3 DEF MarkRetry, CurAgrees, OneExecutor, ExecutorHoldsMarker,
                       SuccessKeepsMarker, EffectsAreReported, Executing
<1>11. ASSUME NEW r \in Reconcilers, Killed(r) PROVE OutboxInv'
  <2>1. OutboxTypeOK'
    BY <1>11 DEF Killed, CurAgrees
  <2>2. QED
    BY <1>11, <2>1 DEF Killed, CurAgrees, OneExecutor, ExecutorHoldsMarker,
                       SuccessKeepsMarker, EffectsAreReported, Executing
<1>12. CASE CleanupSelect
  BY <1>12, RowsDoNotMatter DEF CleanupSelect
<1>13. CASE CleanupKilled
  BY <1>13, RowsDoNotMatter DEF CleanupKilled
<1>14. ASSUME NEW i \in Items, CleanupMark(i) PROVE OutboxInv'
  BY <1>14, RowsDoNotMatter DEF CleanupMark
<1>15. QED
  BY <1>1, <1>2, <1>3, <1>4, <1>5, <1>6, <1>7, <1>8, <1>9, <1>10, <1>11,
     <1>12, <1>13, <1>14 DEF OutboxNext, Pass, Cleanup

(***************************************************************************)
(* The applied marker is accounted for in every reachable state.           *)
(***************************************************************************)
THEOREM OutboxInvariance == OutboxSpec => []OutboxInv
<1>1. OutboxInit => OutboxInv
  BY OutboxInitInv
<1>2. OutboxInv /\ [OutboxNext]_outboxVars => OutboxInv'
  BY OutboxNextInv
<1>3. QED
  BY <1>1, <1>2, PTL DEF OutboxSpec

(***************************************************************************)
(* No operation of the outbox is dispatched by two passes at once, or      *)
(* again after a dispatch that reported success, and none takes effect     *)
(* twice but after an effect whose dispatch returned an error.             *)
(***************************************************************************)
THEOREM NoDoubleDispatch == OutboxSpec => []NoRedispatch
<1>1. OutboxInv => NoRedispatch
  BY DEF OutboxInv, NoRedispatch, OneExecutor, ExecutorHoldsMarker, EffectsAreReported
<1>2. QED
  BY <1>1, OutboxInvariance, PTL

-----------------------------------------------------------------------------
(* Lost operations                                                         *)

(***************************************************************************)
(* What LostOnlyIfCut needs beside OutboxInv: a marker without a success  *)
(* has an executor, unless a kill took him; and who found such a marker    *)
(* and still holds the lease of its row ("skip") may call it done only     *)
(* while somebody owes the row its outcome.                                *)
(***************************************************************************)
MarkerBacked ==
  \A i \in Items :
    i \in applied /\ i \notin succeeded =>
      i \in cut \/ \E r \in Reconcilers : Executing(r, i)

SkipIsOwed ==
  \A i \in Items, r \in Reconcilers :
    opc[r] = "skip" /\ cur[r] = i /\ row[i].owner = r /\ i \notin succeeded =>
      i \in cut \/ \E s \in Reconcilers : Owes(s, i)

(* Who is about to mark a row done for its own dispatch saw it succeed.     *)
FinishSucceeded ==
  \A i \in Items, r \in Reconcilers :
    opc[r] = "finish" /\ cur[r] = i => i \in succeeded

LossInv == MarkerBacked /\ SkipIsOwed /\ FinishSucceeded /\ LostOnlyIfCut

(* No row is lost in the empty outbox.                                     *)
LEMMA InitLoss == OutboxInit => LossInv
  BY DEF OutboxInit, LossInv, MarkerBacked, SkipIsOwed, FinishSucceeded, LostOnlyIfCut

(* Every step of a pass, of a cleanup, and every kill accounts for losses. *)
LEMMA NextLoss == OutboxInv /\ LossInv /\ [OutboxNext]_outboxVars => LossInv'
<1> SUFFICES ASSUME OutboxInv, LossInv, [OutboxNext]_outboxVars PROVE LossInv'
  OBVIOUS
<1> USE DEF LossInv, MarkerBacked, SkipIsOwed, FinishSucceeded, LostOnlyIfCut, Executing, Owes
<1>0. /\ row \in [Items -> Row] /\ opc \in [Reconcilers -> Places]
      /\ cur \in [Reconcilers -> Items \cup {None}]
      /\ CurAgrees /\ ExecutorHoldsMarker
  BY DEF OutboxInv, OutboxTypeOK
<1>1. CASE UNCHANGED outboxVars
  BY <1>1 DEF outboxVars
<1>2. ASSUME NEW i \in Items, Enqueue(i) PROVE LossInv'
  BY <1>0, <1>2 DEF Enqueue, Row
<1>3. ASSUME NEW i \in Items, LeaseExpires(i) PROVE LossInv'
  BY <1>0, <1>3 DEF LeaseExpires, Row
<1>4. ASSUME NEW r \in Reconcilers, ClaimOutbox(r) PROVE LossInv'
  <2>1. /\ opc[r] = "idle" /\ opc' = [opc EXCEPT ![r] = "loop"]
        /\ UNCHANGED <<applied, cur, history, cut>>
    BY <1>4 DEF ClaimOutbox
  <2>2. ASSUME NEW i \in Items
        PROVE  /\ row'[i].status = "done" => row[i].status = "done"
               /\ row'[i].owner = row[i].owner \/ row'[i].owner = r
    <3>1. row[i] \in Row
      BY <1>0
    <3>2. row'[i] = row[i] \/ row'[i] = [row[i] EXCEPT !.status = "processing",
                                          !.owner = r, !.lease = "valid"]
      BY <1>4 DEF ClaimOutbox
    <3>3. ASSUME row'[i] = [row[i] EXCEPT !.status = "processing", !.owner = r, !.lease = "valid"]
          PROVE  row'[i].status = "processing" /\ row'[i].owner = r
      BY <3>1, <3>3 DEF Row
    <3> QED BY <3>2, <3>3
  <2>3. \A s \in Reconcilers : s # r => opc'[s] = opc[s]
    BY <1>0, <2>1
  <2>4. opc'[r] = "loop"
    BY <1>0, <2>1
  <2>5. MarkerBacked'
    BY <2>1, <2>3
  <2>6. SkipIsOwed'
    BY <2>1, <2>2, <2>3, <2>4
  <2>7. FinishSucceeded'
    BY <2>1, <2>3, <2>4
  <2>8. LostOnlyIfCut'
    BY <2>1, <2>2, <2>3
  <2> QED BY <2>5, <2>6, <2>7, <2>8
<1>5. ASSUME NEW r \in Reconcilers, PassEnds(r) PROVE LossInv'
  BY <1>0, <1>5 DEF PassEnds
<1>6. ASSUME NEW r \in Reconcilers, NEW i \in Items, ClaimExecution(r, i)
      PROVE  LossInv'
  BY <1>0, <1>6 DEF ClaimExecution, CurAgrees
<1>7. ASSUME NEW r \in Reconcilers, Dispatch(r) PROVE LossInv'
  BY <1>0, <1>7 DEF Dispatch, CurAgrees
<1>8. ASSUME NEW r \in Reconcilers, MarkDone(r) PROVE LossInv'
  BY <1>0, <1>8 DEF MarkDone, CurAgrees, Row
<1>9. ASSUME NEW r \in Reconcilers, ReleaseExecution(r) PROVE LossInv'
  BY <1>0, <1>9 DEF ReleaseExecution, CurAgrees
<1>10. ASSUME NEW r \in Reconcilers, MarkRetry(r) PROVE LossInv'
  BY <1>0, <1>10 DEF MarkRetry, CurAgrees, Row
<1>11. ASSUME NEW r \in Reconcilers, Killed(r) PROVE LossInv'
  BY <1>0, <1>11 DEF Killed, CurAgrees
<1>12. CASE CleanupSelect
  BY <1>12 DEF CleanupSelect
<1>13. CASE CleanupKilled
  BY <1>13 DEF CleanupKilled
<1>14. ASSUME NEW i \in Items, CleanupMark(i) PROVE LossInv'
  BY <1>0, <1>14 DEF CleanupMark, Row
<1>15. QED
  BY <1>1, <1>2, <1>3, <1>4, <1>5, <1>6, <1>7, <1>8, <1>9, <1>10, <1>11,
     <1>12, <1>13, <1>14 DEF OutboxNext, Pass, Cleanup

(***************************************************************************)
(* A row says done although no dispatch of it reported success only when a *)
(* kill cut the execution short, or a reconciler is about to take it back. *)
(***************************************************************************)
THEOREM LossNeedsAKill == OutboxSpec => []LostOnlyIfCut
<1>1. OutboxSpec => []LossInv
  BY InitLoss, NextLoss, OutboxInvariance, PTL DEF OutboxSpec
<1>2. LossInv => LostOnlyIfCut
  BY DEF LossInv
<1>3. QED
  BY <1>1, <1>2, PTL

=============================================================================
