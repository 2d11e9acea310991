------------------- MODULE MCTLfuCacheThreadsafeLazyUpdate --------------------
(***************************************************************************)
(* Instances of TLfuCacheThreadsafeLazyUpdate for TLC.                     *)
(***************************************************************************)
EXTENDS TLfuCacheThreadsafeLazyUpdate

\* The class compares keys only for equality, and treats all threads alike.
Symmetry == Permutations(Threads) \cup Permutations(Keys)
=============================================================================
