----------------------- MODULE MCTLfuCacheLockStripping -----------------------
(***************************************************************************)
(* Instances of TLfuCacheLockStripping for TLC.                            *)
(***************************************************************************)
EXTENDS TLfuCacheLockStripping

\* The class treats all threads alike.  Keys are not interchangeable: they have
\* hashes.
ThreadSymmetry == Permutations(Threads)
=============================================================================
