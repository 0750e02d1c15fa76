----------------------------- MODULE MCBreaker -----------------------------
(* Small instances of Breaker: the runs are interchangeable, and one unit  *)
(* of time is the base cooldown.                                           *)
EXTENDS Breaker, TLC

Symmetry == Permutations(Runs)

(* The powers of two the bounded shift can reach.                          *)
SmallDoubling == [n \in 0..MaxShift |-> 2 ^ n]

=============================================================================
