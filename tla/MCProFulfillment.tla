-------------------------- MODULE MCProFulfillment --------------------------
(***************************************************************************)
(* Small instances of ProFulfillment.                                      *)
(***************************************************************************)
EXTENDS ProFulfillment, TLC

\* Buyers and workers are interchangeable; lots and timestamps are not.
Symmetry == Permutations(Orders) \cup Permutations(Workers)
=============================================================================
