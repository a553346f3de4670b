------------------------------ MODULE MCAccounting ------------------------------
(* Accounting for TLC. *)
EXTENDS Accounting, TLC

CONSTANTS p1, p2, s1, s2, e1, e2

\* CPUs, sources and elements are alike.
Perms == Permutations(Procs) \cup Permutations(Src) \cup Permutations(Elems)
================================================================================
