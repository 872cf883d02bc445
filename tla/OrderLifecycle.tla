--------------------------- MODULE OrderLifecycle ---------------------------
(***************************************************************************)
(* What a row that is paid for in TON promises, be it a billing order or a *)
(* purchase of the Shop: every change of its status is conditional on the  *)
(* status (payment-claim.service.js), so that it is booked only for money  *)
(* that came, expires only when it is late and still unpaid, comes back    *)
(* only for a late payment, and is deleted only if it was seen unpaid.     *)
(* ProBilling and ShopPurchase implement it with many requests and jobs.   *)
(***************************************************************************)
CONSTANT Orders

VARIABLES
  status,    \* what the row says
  late,      \* the time to pay it has passed
  received,  \* a transfer for it was made
  doomed     \* orders that were seen unpaid and are about to be deleted

vars == <<status, late, received, doomed>>

TypeOK ==
  /\ status \in [Orders -> {"none", "pending", "expired", "paid", "deleted"}]
  /\ late \in [Orders -> BOOLEAN]
  /\ received \in [Orders -> BOOLEAN]
  /\ doomed \subseteq Orders

Init ==
  /\ status   = [o \in Orders |-> "none"]
  /\ late     = [o \in Orders |-> FALSE]
  /\ received = [o \in Orders |-> FALSE]
  /\ doomed   = {}

Becomes(S, from, to) ==
  /\ \A o \in S : status[o] = from
  /\ status' = [o \in Orders |-> IF o \in S THEN to ELSE status[o]]
  /\ UNCHANGED <<late, received>>

Open(o) == Becomes({o}, "none", "pending")

\* One UPDATE may close many.
Expire(S) == (\A o \in S : late[o]) /\ Becomes(S, "pending", "expired")

Revive(o) == received[o] /\ Becomes({o}, "expired", "pending")

Book(o) == received[o] /\ Becomes({o}, "pending", "paid")

Delete(S) ==
  /\ \A o \in S : status[o] # "none" /\ (status[o] = "pending" \/ o \in doomed)
  /\ status' = [o \in Orders |-> IF o \in S THEN "deleted" ELSE status[o]]
  /\ UNCHANGED <<late, received>>

Age(o) ==
  /\ status[o] # "none"
  /\ late' = [late EXCEPT ![o] = TRUE]
  /\ UNCHANGED <<status, received>>

Receive(o) ==
  /\ status[o] # "none"
  /\ received' = [received EXCEPT ![o] = TRUE]
  /\ UNCHANGED <<status, late>>

\* Together with any step, or alone, unpaid orders may be picked for deletion.
Pick == \A o \in doomed' \ doomed : o \in Orders /\ status[o] = "pending"

Next ==
  /\ Pick
  /\ \/ UNCHANGED <<status, late, received>>
     \/ \E o \in Orders : Open(o) \/ Revive(o) \/ Book(o) \/ Age(o) \/ Receive(o)
     \/ \E S \in SUBSET Orders : Expire(S) \/ Delete(S)

Spec == Init /\ [][Next]_vars
-----------------------------------------------------------------------------
\* A booked order has been paid for.
PaidWasReceived == \A o \in Orders : status[o] = "paid" => received[o]

\* A booked order is not reopened, and deleted only by one who saw it unpaid.
PaidIsKept ==
  [][\A o \in Orders : status[o] = "paid" =>
       status'[o] = "paid" \/ (o \in doomed /\ status'[o] = "deleted")]_vars

\* An order that is gone stays so.
DeletedIsKept ==
  [][\A o \in Orders : status[o] = "deleted" => status'[o] = "deleted"]_vars
=============================================================================
