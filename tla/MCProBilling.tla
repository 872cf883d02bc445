---------------------------- MODULE MCProBilling ----------------------------
(* Model values for ProBilling: every order is of the one owner. *)
EXTENDS ProBilling

CONSTANTS u1

OneOwner == [o \in Orders |-> u1]
=============================================================================
