--------------------------- MODULE MCManagerUsers ---------------------------
(* A small instance of ManagerUsers for TLC.  Users do not meet: one does.  *)
EXTENDS ManagerUsers, TLC

Symmetry == Permutations(Request) \cup Permutations(User) \cup Permutations(Pop)
=============================================================================
