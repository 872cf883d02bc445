--------------------------- MODULE MCSubscriptions ---------------------------
(* Model values for Subscriptions: a timed and an endless tariff, a gift. *)
EXTENDS Subscriptions

CONSTANTS i1, i2, g1

TimedOnes == {i1, g1}
=============================================================================
