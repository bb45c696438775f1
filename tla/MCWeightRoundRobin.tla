------------------------- MODULE MCWeightRoundRobin -------------------------
(***************************************************************************)
(* The weight list and the symmetry for TLC: two servers of unequal        *)
(* weight, whose current weights stay within MaxDrift = 2 unless requests  *)
(* race.                                                                   *)
(***************************************************************************)
EXTENDS WeightRoundRobin

ThreadsWeights == <<3, 1>>

\* The requests are interchangeable.
ThreadSymmetry == Permutations(Threads)
=============================================================================
