---------------------------- MODULE MCPolicyGate ----------------------------
(* Small instances of PolicyGate: evaluations and rules are                *)
(* interchangeable.                                                        *)
EXTENDS PolicyGate, TLC

Symmetry == Permutations(Evals) \cup Permutations(Rules)

=============================================================================
