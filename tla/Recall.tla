-------------------------------- MODULE Recall --------------------------------
(***************************************************************************)
(* gov recall: snapshots of the live roots, their pruning, and restoring   *)
(* the roots from one, overlaid or exactly.  Two commands may run at once, *)
(* each may die at any step, and the user keeps editing the files and the  *)
(* roots that are configured: a snapshot saves the roots of its day, a     *)
(* restore puts back those of the snapshot it restores.                    *)
(***************************************************************************)
EXTENDS Naturals, Sequences, FiniteSets, FiniteSetsExt

CONSTANTS Texts,        \* contents of a regular file; a positive number each
          FileCount,    \* files of the live roots, walked in order
          Worlds,       \* pairs of what is live and an earlier snapshot of it
          Protected,    \* files the protected-path manifest names
          MaxEdits, MaxSnaps

Paths == 1..FileCount
None == 0
Odd == 90       \* not a regular file: a symbolic link, a socket
Partial == 91   \* what a copy that failed halfway leaves behind

VARIABLES
    live,    \* the live roots
    conf,    \* the files that are under a root snapshot_roots names now
    snaps,   \* the store: content, the files under its roots, whether its
             \* manifest is there, whether it was removed
    cmd,     \* the two commands: a restore, and a snapshot or a pruning
    edits    \* edits the user may still make

sVars == <<live, conf, snaps, cmd, edits>>

Cmds == {1, 2}
Values == Texts \cup {None, Odd, Partial}
ASSUME RecallAssumption ==
    FileCount \in Nat /\ Worlds \subseteq [Paths -> Values] \X [Paths -> Values]

Empty == [f \in Paths |-> None]
NoCmd == [op |-> "none", pc |-> "idle", opt |-> {}, id |-> 0, at |-> 1,
          new |-> 0, prev |-> 0, del |-> {}, touched |-> {}, was |-> Empty, edited |-> {}, skipped |-> {}]

\* A snapshot of an earlier day, in which a copy may have failed; roots that
\* were configured then may not be any more.
RecallInit ==
    /\ \E w \in Worlds :
         live = w[1] /\ snaps = <<[files |-> w[2], cover |-> Paths, listed |-> TRUE, gone |-> FALSE]>>
    /\ conf \in SUBSET Paths /\ cmd = [c \in Cmds |-> NoCmd] /\ edits = MaxEdits

----------------------------------------------------------------------------

Listed == {i \in DOMAIN snaps : snaps[i].listed /\ ~snaps[i].gone}   \* List: newest last
\* A command that is over keeps only what it did.
Over(r) == [NoCmd EXCEPT !.op = r.op, !.pc = r.pc, !.new = r.new, !.del = r.del, !.touched = r.touched,
                         !.was = r.was, !.edited = r.edited, !.skipped = r.skipped]
Command(c, r) == cmd' = [cmd EXCEPT ![c] = IF r.pc \in {"done", "failed", "unconfirmed"} THEN Over(r) ELSE r]

\* A restore remembers which files were edited under it.
Edit ==
    /\ edits > 0 /\ edits' = edits - 1
    /\ \E f \in Paths, v \in Texts \cup {None} :
         /\ v # live[f] /\ live' = [live EXCEPT ![f] = v]
         /\ cmd' = [c \in Cmds |-> IF cmd[c].op = "restore" THEN [cmd[c] EXCEPT !.edited = @ \cup {f}] ELSE cmd[c]]
    /\ UNCHANGED <<conf, snaps>>

\* snapshot_roots is changed in the configuration.
Reconfigure ==
    /\ edits > 0 /\ edits' = edits - 1 /\ conf' \in SUBSET Paths \ {conf}
    /\ UNCHANGED <<live, snaps, cmd>>

----------------------------------------------------------------------------
(* Create *)

Begin(c) ==
    /\ cmd[c].pc = "idle"
    /\ \/ c = 2 /\ Command(c, [NoCmd EXCEPT !.op = "create", !.pc = "mkdir"])
       \/ c = 1 /\ \E i \in Listed, opt \in SUBSET {"exact", "dry", "confirmed"} :
            Command(c, [NoCmd EXCEPT !.op = "restore", !.pc = "plan", !.opt = opt, !.id = i, !.was = live])
       \/ c = 2 /\ Command(c, [NoCmd EXCEPT !.op = "prune", !.pc = "prune"])
    /\ UNCHANGED <<live, conf, snaps, edits>>

\* The roots are those configured now; the newest snapshot is the one to link
\* from; the directory's name is free.  Without a root nothing is made (Killed).
MakeDir(c) ==
    /\ cmd[c].pc = "mkdir" /\ Len(snaps) < MaxSnaps
    /\ snaps' = Append(snaps, [files |-> Empty, cover |-> conf, listed |-> FALSE, gone |-> FALSE])
    /\ Command(c, [cmd[c] EXCEPT !.pc = "walk", !.at = 1, !.new = Len(snaps) + 1,
                                 !.prev = IF Listed = {} THEN 0 ELSE Max(Listed)])
    /\ UNCHANGED <<live, conf, edits>>

Step1(c) == [cmd[c] EXCEPT !.at = @ + 1]
Skip(c, f) == [Step1(c) EXCEPT !.skipped = IF cmd[c].op = "restore" THEN @ \cup {f} ELSE @]
Store(c, f, v) == snaps' = [snaps EXCEPT ![cmd[c].new].files[f] = v]

\* snapshotRoot, one file of the roots: linked when the previous snapshot has the same bytes,
\* copied otherwise; what cannot be copied is skipped, perhaps half written.
snapshotFile(c) ==
    /\ cmd[c].pc = "walk" /\ cmd[c].at \in Paths
    /\ LET f == cmd[c].at
           walked == f \in snaps[cmd[c].new].cover
           linked == cmd[c].prev # 0 /\ ~snaps[cmd[c].prev].gone /\ snaps[cmd[c].prev].files[f] = live[f] IN
       \/ (live[f] = None \/ ~walked) /\ Command(c, Step1(c)) /\ UNCHANGED snaps
       \/ walked /\ live[f] = Odd /\ Command(c, Skip(c, f)) /\ UNCHANGED snaps
       \/ walked /\ live[f] \notin {None, Odd} /\ Store(c, f, live[f]) /\ Command(c, Step1(c))
       \/ walked /\ live[f] \notin {None, Odd} /\ ~linked /\ \E v \in {None, Partial} : Store(c, f, v) /\ Command(c, Skip(c, f))
    /\ UNCHANGED <<live, conf, edits>>

\* The manifest makes it a snapshot; until then List does not see it.
WriteManifest(c) ==
    /\ cmd[c].pc = "walk" /\ cmd[c].at > FileCount
    /\ \/ /\ snaps' = [snaps EXCEPT ![cmd[c].new].listed = TRUE]
          /\ Command(c, [cmd[c] EXCEPT !.pc = IF @ = "walk" /\ cmd[c].op = "restore" THEN "copy" ELSE "done", !.at = 1])
       \/ Command(c, [cmd[c] EXCEPT !.pc = "failed"]) /\ UNCHANGED snaps
    /\ UNCHANGED <<live, conf, edits>>

\* Prune: all but the newest; a snapshot's removal may be cut short.
Prune(c) ==
    /\ cmd[c].pc = "prune"
    /\ \E S \in SUBSET (IF Listed = {} THEN {} ELSE Listed \ {Max(Listed)}) :
         snaps' = [i \in DOMAIN snaps |-> [snaps[i] EXCEPT !.gone = @ \/ i \in S]]
    /\ Command(c, [cmd[c] EXCEPT !.pc = "done"]) /\ UNCHANGED <<live, conf, edits>>

----------------------------------------------------------------------------
(* Restore *)

\* postSnapshotAdditions: whatever is live, of any type, under the roots of the
\* snapshot and not in it.
Additions(i) == {f \in snaps[i].cover : live[f] # None /\ snaps[i].files[f] = None}

\* Mutant: nothing is saved before the restore.
PlanRestore_NoSnapshot(c) ==
    /\ cmd[c].pc = "plan"
    /\ LET opt == cmd[c].opt
           del == IF "exact" \in opt THEN Additions(cmd[c].id) \ Protected ELSE {} IN
       Command(c, [cmd[c] EXCEPT !.del = del, !.opt = {},
            !.pc = IF "dry" \in opt THEN "done"
                   ELSE IF del # {} /\ "confirmed" \notin opt THEN "unconfirmed" ELSE "copy"])
    /\ UNCHANGED <<live, conf, snaps, edits>>

\* The plan comes first; an exact restore that would delete needs confirmation.
PlanRestore(c) ==
    /\ cmd[c].pc = "plan"
    /\ LET opt == cmd[c].opt
           del == IF "exact" \in opt THEN Additions(cmd[c].id) \ Protected ELSE {} IN
       Command(c, [cmd[c] EXCEPT !.del = del, !.opt = {},
            !.pc = IF "dry" \in opt THEN "done"
                   ELSE IF del # {} /\ "confirmed" \notin opt THEN "unconfirmed"
                   ELSE "mkdir"])
    /\ UNCHANGED <<live, conf, snaps, edits>>

Touch(c, f, v) == live' = [live EXCEPT ![f] = v] /\ Command(c, [Step1(c) EXCEPT !.touched = @ \cup {f}])

\* copyFile opens what is there with O_TRUNC: where a symbolic link is, the file
\* it leads to is the one written, another of the roots (or one outside of them).
LedTo(f) == IF live[f] = Odd THEN {g \in Paths : live[g] # Odd} ELSE {f}

\* A file the snapshot holds is written over the live one, perhaps only in part;
\* a snapshot that was pruned meanwhile ends the restore, and so does what no
\* write can open.
CopyBack(c) ==
    /\ cmd[c].pc = "copy" /\ cmd[c].at \in Paths
    /\ LET f == cmd[c].at
           v == snaps[cmd[c].id].files[f] IN
       \/ snaps[cmd[c].id].gone /\ Command(c, [cmd[c] EXCEPT !.pc = "failed"]) /\ UNCHANGED live
       \/ ~snaps[cmd[c].id].gone /\ (v = None \/ live[f] = Odd) /\ Command(c, Step1(c)) /\ UNCHANGED live
       \/ ~snaps[cmd[c].id].gone /\ v # None /\ \E g \in LedTo(f) : Touch(c, g, v)
       \/ /\ ~snaps[cmd[c].id].gone /\ v # None
          /\ \E g \in LedTo(f) : /\ live' = [live EXCEPT ![g] = Partial]
                                  /\ Command(c, [cmd[c] EXCEPT !.pc = "failed", !.touched = @ \cup {g}])
    /\ UNCHANGED <<conf, snaps, edits>>
CopyDone(c) ==
    /\ cmd[c].pc = "copy" /\ cmd[c].at > FileCount /\ Command(c, [cmd[c] EXCEPT !.pc = "delete", !.at = 1])
    /\ UNCHANGED <<live, conf, snaps, edits>>

\* The deletions of the plan, after everything is copied back.
Delete(c) ==
    /\ cmd[c].pc = "delete"
    /\ LET f == cmd[c].at IN
       CASE f > FileCount -> Command(c, [cmd[c] EXCEPT !.pc = "done"]) /\ UNCHANGED live
         [] f \in Paths \ cmd[c].del -> Command(c, Step1(c)) /\ UNCHANGED live
         [] OTHER -> Touch(c, f, None) \/ (Command(c, [cmd[c] EXCEPT !.pc = "failed"]) /\ UNCHANGED live)
    /\ UNCHANGED <<conf, snaps, edits>>

Killed(c) ==
    /\ cmd[c].pc \notin {"idle", "done", "failed", "unconfirmed"} /\ Command(c, [cmd[c] EXCEPT !.pc = "failed"])
    /\ UNCHANGED <<live, conf, snaps, edits>>

RecallStep(c) == Begin(c) \/ MakeDir(c) \/ snapshotFile(c) \/ WriteManifest(c) \/ Prune(c) \/ PlanRestore(c)
                 \/ CopyBack(c) \/ CopyDone(c) \/ Delete(c) \/ Killed(c)
RecallNext == Edit \/ Reconfigure \/ \E c \in Cmds : RecallStep(c)

----------------------------------------------------------------------------

\* A restore can be undone: whatever it has overwritten or deleted so far, cut
\* short or not, a listed snapshot holds what the file was when the command
\* began, unless the user edited it meanwhile, it was under no root configured
\* when the pre-restore snapshot was begun, it could not be copied into that
\* snapshot, or that snapshot was pruned since.
RestoreUndoable ==
    \A c \in Cmds : \A f \in cmd[c].touched :
        \/ f \in cmd[c].edited \cup cmd[c].skipped
        \/ cmd[c].new # 0 /\ (snaps[cmd[c].new].gone \/ f \notin snaps[cmd[c].new].cover)
        \/ \E i \in Listed : snaps[i].files[f] = cmd[c].was[f]

\* The comment on Restore says more: exact restore is itself always recoverable.
ExactRestoreRecoverable ==
    \A c \in Cmds : \A f \in cmd[c].touched :
        (f \in cmd[c].del /\ f \notin cmd[c].edited /\ cmd[c].was[f] # None) =>
            \E i \in DOMAIN snaps : snaps[i].files[f] = cmd[c].was[f]
=============================================================================
