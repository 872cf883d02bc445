-------------------------- MODULE FulfillmentLease --------------------------
(***************************************************************************)
(* What the delivery of a Pro bundle promises about its claim on an order: *)
(* a paid order is claimed, the claim is settled by the one who holds it,  *)
(* a failed or lapsed claim may be taken over, a completed one never.      *)
(* This is the contract the comments of pro-fulfillment.service.js state;  *)
(* ProFulfillment implements it with conditional UPDATEs of one row.       *)
(***************************************************************************)
CONSTANTS Orders, Claims, NoClaim

VARIABLES
  phase,    \* what the order's row says of its delivery
  holder,   \* the claim the row carries
  lapsed,   \* the row has said "processing" for longer than the lease
  settler   \* the claim whose owner settled the order

vars == <<phase, holder, lapsed, settler>>

Init ==
  /\ phase   = [o \in Orders |-> "none"]
  /\ holder  = [o \in Orders |-> NoClaim]
  /\ lapsed  = [o \in Orders |-> FALSE]
  /\ settler = [o \in Orders |-> NoClaim]

\* An order is free for a new claim until it is delivered.
Free(o) == \/ phase[o] \in {"none", "failed"}
           \/ phase[o] = "processing" /\ lapsed[o]

Claim(o, c) ==
  /\ Free(o)
  /\ c # holder[o]
  /\ phase'  = [phase EXCEPT ![o] = "processing"]
  /\ holder' = [holder EXCEPT ![o] = c]
  /\ lapsed' = [lapsed EXCEPT ![o] = FALSE]
  /\ settler' = [settler EXCEPT ![o] = NoClaim]

Lapse(o) ==
  /\ phase[o] = "processing"
  /\ lapsed' = [lapsed EXCEPT ![o] = TRUE]
  /\ UNCHANGED <<phase, holder, settler>>

\* Only the claim in the row settles the order, and only once.
Settle(o, outcome) ==
  /\ phase[o] = "processing"
  /\ phase'   = [phase EXCEPT ![o] = outcome]
  /\ settler' = [settler EXCEPT ![o] = holder[o]]
  /\ UNCHANGED <<holder, lapsed>>

Next == \E o \in Orders :
  \/ \E c \in Claims : Claim(o, c)
  \/ Lapse(o)
  \/ \E outcome \in {"completed", "failed"} : Settle(o, outcome)

Spec == Init /\ [][Next]_vars
-----------------------------------------------------------------------------
\* An order that is delivered is never claimed, settled or lapsed back to work.
DeliveredIsKept ==
  [][\A o \in Orders : phase[o] = "completed" =>
       /\ phase'[o] = "completed"
       /\ holder'[o] = holder[o] /\ settler'[o] = settler[o]]_vars

\* Every outcome is the work of the claim that the row still carries.
HolderSettled == \A o \in Orders :
  phase[o] \in {"completed", "failed"} => settler[o] = holder[o]
=============================================================================
