----------------------------- MODULE MCLifeRuns -----------------------------
(* Instances of LifeRuns for TLC. *)
EXTENDS LifeRuns, TLC

\* Run ids are drawn at random and compared for equality only.
RunSymmetry == Permutations(Runs)
=============================================================================
