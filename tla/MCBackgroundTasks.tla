-------------------------- MODULE MCBackgroundTasks --------------------------
(***************************************************************************)
(* BackgroundTasks on small instances.  Task ids, and pause requests, are  *)
(* interchangeable.                                                        *)
(***************************************************************************)
EXTENDS BackgroundTasks, TLC

Symmetry == Permutations(Tasks) \cup Permutations(Hosts)
=============================================================================
