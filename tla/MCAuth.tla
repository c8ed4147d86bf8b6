------------------------------ MODULE MCAuth ------------------------------
(***************************************************************************)
(* Instances of Auth for TLC.                                              *)
(***************************************************************************)
EXTENDS Auth, TLC

\* Requests are interchangeable.
RequestSymmetry == Permutations(Calls)
=============================================================================
