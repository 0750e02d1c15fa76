------------------------------ MODULE FileWorld ------------------------------
(***************************************************************************)
(* A file as the kernel keeps it: a path that names an inode, and inodes   *)
(* that hold bytes.  rename(2) puts a fresh inode at the path; a write     *)
(* changes the bytes of an inode, whoever has it open.                     *)
(***************************************************************************)
EXTENDS Naturals, FiniteSets

CONSTANTS Bytes,      \* contents of a file; a positive number each
          MaxChanges  \* how often somebody else changes a file

ASSUME FileAssumption == Bytes \subseteq Nat \ {0} /\ Bytes # {} /\ MaxChanges \in Nat

Inodes == 1..(MaxChanges + 1)

\* One file: the inode at its path (0: none), and every inode's bytes.
NewFile(v) == [path |-> 1, data |-> [i \in Inodes |-> v]]
Content(f) == IF f.path = 0 THEN 0 ELSE f.data[f.path]

\* i is an inode no path and no descriptor names yet.
Renamed(f, i) == {[f EXCEPT !.path = i, !.data[i] = v] : v \in Bytes}
Unlinked(f) == {[f EXCEPT !.path = 0] : i \in {f.path} \ {0}}
Written(f, i) == {[f EXCEPT !.data[i] = v] : v \in Bytes \ {f.data[i]}}
=============================================================================
