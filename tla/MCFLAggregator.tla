--------------------------- MODULE MCFLAggregator ---------------------------
(***************************************************************************)
(* A few uploads on two threads.                                           *)
(***************************************************************************)
EXTENDS FLAggregator, TLC

MCSymmetry == Permutations(Threads) \cup Permutations(Updates)
=============================================================================
