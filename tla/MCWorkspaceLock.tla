--------------------------- MODULE MCWorkspaceLock ---------------------------
(* Model checking of WorkspaceLock on a few processes and inodes.          *)
EXTENDS WorkspaceLock, TLC

(* Processes and inodes are interchangeable.                               *)
Symmetry == Permutations(Procs) \cup Permutations(Inodes)

=============================================================================
