----------------------------- MODULE AssayPackage ----------------------------
(***************************************************************************)
(* The assayer's executable snapshot (assay.BuildSnapshot): once per run   *)
(* its checkout is packed file by file into a sealed memory file, then git *)
(* is asked whether the checkout is clean and which commit it is; every    *)
(* evaluation executes the sealed package.  Meanwhile somebody edits,      *)
(* commits and checks out, or exchanges the python standard library.       *)
(***************************************************************************)
EXTENDS Naturals, Sequences, FiniteSets

CONSTANTS MaxVersions,  \* versions a file of the checkout goes through
          MaxEvals,     \* evaluations of one run
          MaxMeddling   \* things somebody else does

ASSUME PackageAssumption == MaxVersions \in Nat \ {0} /\ MaxMeddling \in Nat

Files == {1, 2}   \* cli.py and the profiles

VARIABLES
    repo,   \* the checkout: tree, commits, HEAD, and whether it has a .git at all
    lib,    \* the python standard library
    snap,   \* the snapshot being built and used
    evals,  \* what the evaluations executed
    busy    \* meddling: left, and whether any fell into the build

kVars == <<repo, lib, snap, evals, busy>>

Trees == [Files -> 1..MaxVersions]
Packed == [f \in Files |-> 0]
NoSnap == [pc |-> "python", runtime |-> 0, files |-> Packed, sealed |-> FALSE, clean |-> "unknown", commit |-> 0]

PackageInit ==
    /\ \E t \in Trees, g \in BOOLEAN :
         repo = [tree |-> t, commits |-> <<[f \in Files |-> 1]>>, head |-> 1, git |-> g]
    /\ lib = 1 /\ snap = NoSnap /\ evals = {} /\ busy = [left |-> MaxMeddling, during |-> FALSE]

----------------------------------------------------------------------------

\* What falls between the start of the build and its end is remembered.
Meddles ==
    /\ busy.left > 0
    /\ busy' = [left |-> busy.left - 1, during |-> busy.during \/ snap.pc \notin {"python", "ready", "refused"}]
    /\ UNCHANGED <<snap, evals>>

EditRepo == Meddles /\ repo' \in {[repo EXCEPT !.tree = t] : t \in Trees \ {repo.tree}} /\ UNCHANGED lib
CommitRepo ==
    /\ Meddles /\ repo.git /\ repo.tree # repo.commits[repo.head]
    /\ repo' = [repo EXCEPT !.commits = Append(@, repo.tree), !.head = Len(repo.commits) + 1] /\ UNCHANGED lib
CheckoutRepo ==
    /\ Meddles /\ repo.git
    /\ \E c \in DOMAIN repo.commits :
         repo.tree # repo.commits[c] /\ repo' = [repo EXCEPT !.tree = repo.commits[c], !.head = c]
    /\ UNCHANGED lib
UpgradePython == Meddles /\ lib < MaxVersions /\ lib' = lib + 1 /\ UNCHANGED repo

----------------------------------------------------------------------------
(* BuildSnapshot *)

Snap(s) == snap' = s /\ UNCHANGED <<repo, lib, busy>>
Fail == Snap([snap EXCEPT !.pc = "refused"]) /\ UNCHANGED evals

\* The python handle, and the library it would import, hashed.
buildRuntimeManifest ==
    /\ snap.pc = "python"
    /\ Fail \/ (Snap([snap EXCEPT !.pc = "pack", !.runtime = lib]) /\ UNCHANGED evals)

\* addOne, file by file.
addOne ==
    /\ snap.pc = "pack" /\ \E f \in Files : snap.files[f] = 0
    /\ LET f == CHOOSE g \in Files : snap.files[g] = 0 /\ \A h \in Files : snap.files[h] = 0 => g <= h IN
       Fail \/ (Snap([snap EXCEPT !.files[f] = repo.tree[f]]) /\ UNCHANGED evals)

sealPackageMemfd ==
    /\ snap.pc = "pack" /\ \A f \in Files : snap.files[f] # 0
    /\ Fail \/ (Snap([snap EXCEPT !.pc = "status", !.sealed = TRUE]) /\ UNCHANGED evals)

\* Mutant: a git status that fails counts as clean.
snapshotDirty_FailsOpen ==
    /\ snap.pc = "status"
    /\ Snap([snap EXCEPT !.pc = "commit", !.clean = "clean"]) /\ UNCHANGED evals

\* A checkout without git is clean; a git that fails leaves it unknown.
snapshotDirty ==
    /\ snap.pc = "status"
    /\ \E c \in {IF ~repo.git \/ repo.tree = repo.commits[repo.head] THEN "clean" ELSE "dirty"}
                \cup (IF repo.git THEN {"unknown"} ELSE {}) :
         Snap([snap EXCEPT !.pc = "commit", !.clean = c])
    /\ UNCHANGED evals

assayerCommit ==
    /\ snap.pc = "commit"
    /\ \E c \in {0} \cup (IF repo.git THEN {repo.head} ELSE {}) : Snap([snap EXCEPT !.pc = "ready", !.commit = c])
    /\ UNCHANGED evals

----------------------------------------------------------------------------

\* Mutant: the checkout itself is evaluated, not the snapshot.
Evaluate_Live ==
    /\ snap.pc = "ready" /\ Cardinality(evals) < MaxEvals
    /\ evals' = evals \cup {[files |-> repo.tree, lib |-> lib]} /\ UNCHANGED <<repo, lib, snap, busy>>

\* Evaluate: the seals and the bytes are verified before and after; the launch
\* reads the package through its descriptor, and the library by its path.
Evaluate ==
    /\ snap.pc = "ready" /\ snap.sealed /\ Cardinality(evals) < MaxEvals
    /\ evals' = evals \cup {[files |-> snap.files, lib |-> lib]} /\ UNCHANGED <<repo, lib, snap, busy>>

PackageNext == EditRepo \/ CommitRepo \/ CheckoutRepo \/ UpgradePython
               \/ buildRuntimeManifest \/ addOne \/ sealPackageMemfd \/ snapshotDirty \/ assayerCommit \/ Evaluate

----------------------------------------------------------------------------

\* Every evaluation of a run executes the package the run's identity records,
\* whatever became of the checkout; and when nobody touched the checkout while
\* it was packed, a snapshot recorded as clean, at a commit, is that commit.
PackageIdentified ==
    /\ \A e \in evals : e.files = snap.files
    /\ (snap.pc = "ready" /\ snap.clean = "clean" /\ snap.commit # 0 /\ ~busy.during) =>
           snap.files = repo.commits[snap.commit]

\* What the comments claim: a dirty checkout is never recorded as clean.  The
\* checkout is packed before git is asked, so an edit undone in between is.
CleanIsCommit ==
    (snap.pc = "ready" /\ snap.clean = "clean" /\ snap.commit # 0) => \E c \in DOMAIN repo.commits : snap.files = repo.commits[c]
=============================================================================
