---------------------------- MODULE MCLifeOutbox ----------------------------
(* Instances of LifeOutbox for TLC. *)
EXTENDS LifeOutbox, TLC

\* The delivery loops of two processes run the same code.
WorkerSymmetry == Permutations(Workers)
=============================================================================
