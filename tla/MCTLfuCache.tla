----------------------------- MODULE MCTLfuCache ------------------------------
(***************************************************************************)
(* Instances of TLfuCache for TLC.                                         *)
(***************************************************************************)
EXTENDS TLfuCache

\* Keys and values are interchangeable: nothing in the class compares them
\* but for equality.
KeySymmetry == Permutations(Keys)
=============================================================================
