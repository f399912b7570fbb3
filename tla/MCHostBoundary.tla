--------------------------- MODULE MCHostBoundary ---------------------------
(***************************************************************************)
(* A small instance of HostBoundary: tasks are interchangeable.            *)
(***************************************************************************)
EXTENDS HostBoundary, TLC

CONSTANTS t1, t2, s1, h1, o1

Symmetry == Permutations(Tasks)
=============================================================================
