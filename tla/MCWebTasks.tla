----------------------------- MODULE MCWebTasks -----------------------------
(* WebTasks on two task ids and a few requests, for TLC.                     *)
EXTENDS WebTasks, TLC

Symmetry == Permutations(Tasks) \cup Permutations(Runs)
=============================================================================
