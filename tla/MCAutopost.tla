----------------------------- MODULE MCAutopost -----------------------------
(* Model values for Autopost: a post of the first of two channels. *)
EXTENDS Autopost

CONSTANTS p1, c1, c2

BatchEach  == [i \in Posts |-> i]
AllInFirst == [i \in Posts |-> c1]
=============================================================================
