-------------------------- MODULE MCTaskManager --------------------------
(* TaskManager on small instances. *)
EXTENDS TaskManager, TLC

\* The executors run the same code and no property tells them apart.
ExecutorSymmetry == Permutations(Executors)
=============================================================================
