-------------------------- MODULE MCLiveExecutor ---------------------------
(* Two workers, two gas prices: the second may or may not replace the      *)
(* transaction of the first.  A window of 2 rounds, so that a win can be   *)
(* too old to be harvested.                                                *)
EXTENDS LiveExecutor, TLC

MCSymmetry == Permutations(Workers) \cup Permutations(Sides)
=============================================================================
