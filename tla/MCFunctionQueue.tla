--------------------------- MODULE MCFunctionQueue ---------------------------
(* Small instances of FunctionQueue and its queue for TLC. *)
EXTENDS JobLease, TLC

CONSTANTS j1, j2, j3, w1, w2, s1, s2

Symmetry == Permutations(Workers) \cup Permutations(Slots)
=============================================================================
