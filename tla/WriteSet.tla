------------------------------ MODULE WriteSet -------------------------------
(***************************************************************************)
(* What a stage changed under its write roots: the difference of two       *)
(* fingerprints, as created, modified, deleted and renamed paths.          *)
(*                                                                         *)
(* A fingerprint is a function from paths to [inode, hash]; inode 0 stands *)
(* for a platform that exposes none, hash 0 for what has no content.  Go   *)
(* walks its maps in any order, so which of several candidates a rename is *)
(* paired with is a choice: reconcileWriteSet is the set of outcomes.      *)
(***************************************************************************)
EXTENDS Integers, Sequences, FiniteSets, SequencesExt

NoKey == <<"none", 0>>
renameKey(s) == IF s.inode # 0 THEN <<"inode", s.inode>> ELSE IF s.hash # 0 THEN <<"hash", s.hash>> ELSE NoKey

\* A path that cannot be read is as good as gone.
statWriteRootPath(s) == s.readable
snapshotWriteRoots(tree) ==
    [p \in {p \in DOMAIN tree : statWriteRootPath(tree[p])} |-> [inode |-> tree[p].inode, hash |-> tree[p].hash, mode |-> tree[p].mode]]

Effect(op, p, from) == [op |-> op, path |-> p, from |-> from]

\* Mutant: two creations may claim one deletion.
RenamesOf_Greedy(order, byKey, after) ==
    {Effect("renamed", order[i], byKey[renameKey(after[order[i]])]) :
       i \in {i \in 1..Len(order) : renameKey(after[order[i]]) \in DOMAIN byKey \ {NoKey}}}

\* One created path: it claims the deleted path its key stands for, unless an
\* earlier one has.
Renamed(done, p, byKey, after) ==
    LET k == renameKey(after[p])
    IN IF k # NoKey /\ k \in DOMAIN byKey /\ \A e \in done : e.from # byKey[k]
         THEN done \cup {Effect("renamed", p, byKey[k])} ELSE done

\* The renames found when created paths are tried in the order given and each
\* key stands for the deleted path byKey names.
RenamesOf(order, byKey, after) ==
    LET done[i \in 0..Len(order)] == IF i = 0 THEN {} ELSE Renamed(done[i - 1], order[i], byKey, after)
    IN done[Len(order)]

\* Everything that changed: what no rename accounts for is named as it is.
EffectsOf(renamed, created, deleted, modified) ==
    renamed
    \cup {Effect("created", p, "") : p \in created \ {e.path : e \in renamed}}
    \cup {Effect("deleted", p, "") : p \in deleted \ {e.from : e \in renamed}}
    \cup {Effect("modified", p, "") : p \in modified}

reconcileWriteSet(before, after) ==
    LET created == DOMAIN after \ DOMAIN before
        deleted == DOMAIN before \ DOMAIN after
        modified == {p \in DOMAIN before \cap DOMAIN after : before[p] # after[p]}
        keys == {renameKey(before[p]) : p \in deleted} \ {NoKey}
        pairings == {f \in [keys -> deleted] : \A k \in keys : renameKey(before[f[k]]) = k}
    IN {EffectsOf(RenamesOf(order, byKey, after), created, deleted, modified) :
          order \in SetToSeqs(created), byKey \in pairings}

\* undisclosedChanges: what was measured and the backend did not report.
undisclosedChanges(claimed, changed) == {p \in changed : p # "RESULT.json" /\ p \notin claimed}

----------------------------------------------------------------------------
\* Whatever the order, each path that differs is in exactly one effect and each
\* that does not is in none: a coincidence of inodes costs a name, not a path.
Touches(e) == {e.path, e.from} \ {""}
Differs(p, b, a) ==
    \/ p \in DOMAIN b \cap DOMAIN a /\ b[p] # a[p]
    \/ (p \in DOMAIN b) # (p \in DOMAIN a)
WriteSetSound(before, after) ==
    LET b == snapshotWriteRoots(before)
        a == snapshotWriteRoots(after)
    IN \A effects \in reconcileWriteSet(b, a) :
         /\ \A p \in DOMAIN before \cup DOMAIN after :
              Cardinality({e \in effects : p \in Touches(e)}) = IF Differs(p, b, a) THEN 1 ELSE 0
         /\ \A e \in effects : e.op = "renamed" => e.path \in DOMAIN a \ DOMAIN b /\ e.from \in DOMAIN b \ DOMAIN a
=============================================================================
