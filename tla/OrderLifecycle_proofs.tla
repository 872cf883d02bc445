------------------------ MODULE OrderLifecycle_proofs ------------------------
(***************************************************************************)
(* What follows from the contract of a row that is paid for in TON alone,  *)
(* for every specification that implements it.                             *)
(***************************************************************************)
EXTENDS OrderLifecycle, TLAPS

\* What a step may do to the status of an order and to the money received:
\* the columns change along these edges only.
Edges(o) ==
  \/ status'[o] = status[o]
  \/ status[o] = "none" /\ status'[o] = "pending"
  \/ status[o] = "pending" /\ late[o] /\ status'[o] = "expired"
  \/ status[o] = "expired" /\ received[o] /\ status'[o] = "pending"
  \/ status[o] = "pending" /\ received[o] /\ status'[o] = "paid"
  \/ /\ status[o] = "pending" \/ (status[o] # "none" /\ o \in doomed)
     /\ status'[o] = "deleted"

LEMMA StepEdges ==
  ASSUME TypeOK, [Next]_vars, NEW o \in Orders
  PROVE  Edges(o) /\ (received[o] => received'[o])
<1>1. ASSUME NEW p \in Orders, Open(p) \/ Revive(p) \/ Book(p)
      PROVE  Edges(o) /\ received' = received
  BY <1>1 DEF Open, Revive, Book, Becomes, Edges
<1>2. ASSUME NEW p \in Orders, Age(p) \/ Receive(p)
      PROVE  Edges(o) /\ (received[o] => received'[o])
  BY <1>2 DEF Age, Receive, Edges, TypeOK
<1>3. ASSUME NEW S \in SUBSET Orders, Expire(S)
      PROVE  Edges(o) /\ received' = received
  BY <1>3 DEF Expire, Becomes, Edges
<1>4. ASSUME NEW S \in SUBSET Orders, Delete(S)
      PROVE  Edges(o) /\ received' = received
  BY <1>4 DEF Delete, Edges
<1>5. CASE UNCHANGED <<status, late, received>>
  BY <1>5 DEF Edges
<1>6. CASE UNCHANGED vars
  BY <1>6 DEF Edges, vars
<1>7. QED
  BY <1>1, <1>2, <1>3, <1>4, <1>5, <1>6 DEF Next

LEMMA TypedStep == TypeOK /\ [Next]_vars => TypeOK'
<1> SUFFICES ASSUME TypeOK, [Next]_vars
             PROVE  TypeOK'
  OBVIOUS
<1> USE DEF TypeOK
<1>1. ASSUME Pick
      PROVE  doomed' \subseteq Orders
  BY <1>1 DEF Pick
<1>2. ASSUME NEW p \in Orders, Open(p) \/ Revive(p) \/ Book(p), Pick
      PROVE  TypeOK'
  BY <1>1, <1>2 DEF Open, Revive, Book, Becomes
<1>3. ASSUME NEW p \in Orders, Age(p) \/ Receive(p), Pick
      PROVE  TypeOK'
  BY <1>1, <1>3 DEF Age, Receive
<1>4. ASSUME NEW S \in SUBSET Orders, Expire(S) \/ Delete(S), Pick
      PROVE  TypeOK'
  BY <1>1, <1>4 DEF Expire, Delete, Becomes
<1>5. ASSUME UNCHANGED <<status, late, received>>, Pick
      PROVE  TypeOK'
  BY <1>1, <1>5
<1>6. CASE UNCHANGED vars
  BY <1>6 DEF vars
<1>7. QED
  BY <1>2, <1>3, <1>4, <1>5, <1>6 DEF Next

LEMMA TypeCorrect == Spec => []TypeOK
<1>1. Init => TypeOK
  BY DEF Init, TypeOK
<1>2. QED
  BY <1>1, TypedStep, PTL DEF Spec

\* Money first: an order is booked only for a transfer that was made to it.
THEOREM BookedWasReceived == Spec => []PaidWasReceived
<1>1. Init => PaidWasReceived
  BY DEF Init, PaidWasReceived
<1>2. TypeOK /\ PaidWasReceived /\ [Next]_vars => PaidWasReceived'
  BY StepEdges DEF Edges, PaidWasReceived
<1>3. QED
  BY <1>1, <1>2, TypeCorrect, PTL DEF Spec

\* No clean-up, revival or second booking takes a booked order back; only a
\* deletion that was decided when the order was unpaid can remove it.
THEOREM BookedIsKept == Spec => PaidIsKept
<1>1. TypeOK /\ [Next]_vars =>
        [\A o \in Orders : status[o] = "paid" =>
           status'[o] = "paid" \/ (o \in doomed /\ status'[o] = "deleted")]_vars
  BY StepEdges DEF Edges
<1>2. QED
  BY <1>1, TypeCorrect, PTL DEF Spec, PaidIsKept

\* A deleted order is not brought back, whoever was still at work on it.
THEOREM DeletedIsGone == Spec => DeletedIsKept
<1>1. TypeOK /\ [Next]_vars =>
        [\A o \in Orders : status[o] = "deleted" => status'[o] = "deleted"]_vars
  BY StepEdges DEF Edges
<1>2. QED
  BY <1>1, TypeCorrect, PTL DEF Spec, DeletedIsKept
=============================================================================
