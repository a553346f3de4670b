------------------------------ MODULE MCSockopsSmp ------------------------------
(* SockopsSmp for TLC. *)
EXTENDS SockopsSmp, TLC

CONSTANTS p1, p2, p3

\* The contexts run the same programs.
Perms == Permutations(Procs)
================================================================================
