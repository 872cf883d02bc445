-------------------------- MODULE ProBilling_proofs --------------------------
(***************************************************************************)
(* Proofs about ProBilling, for any sets of orders, owners and concurrent  *)
(* requests and any number of faults: an order is paid once, for its own   *)
(* transfer, and stays paid.                                               *)
(***************************************************************************)
EXTENDS ProBilling, TLAPS

USE BillingConstants DEF Procs, NoOrder, AtWork, AfterPayment, Goto, Return,
    orderVars, profileVars, deliveryVars, locals

\* Type correctness together with the order a busy process works on.
TypedInv == TypeOK /\ LocalsOK

LEMMA TypedInit == Init => TypedInv
  BY DEF Init, Delivery!Init, TypedInv, TypeOK, RowsTyped, ProcsTyped, LocalsOK

LEMMA TypedStep == TypedInv /\ [Next]_vars => TypedInv'
<1> SUFFICES ASSUME RowsTyped, ProcsTyped, LocalsOK, [Next]_vars
             PROVE  RowsTyped' /\ ProcsTyped' /\ LocalsOK'
  BY DEF TypedInv, TypeOK
<1>1. ASSUME NEW p \in Requests, NEW o \in Orders, CheckoutRead(p, o)
      PROVE  RowsTyped' /\ ProcsTyped' /\ LocalsOK'
  <2>1. RowsTyped'
    BY <1>1 DEF CheckoutRead, RowsTyped
  <2>2. ProcsTyped'
    BY <1>1 DEF CheckoutRead, ProcsTyped
  <2>3. LocalsOK'
    BY <1>1 DEF CheckoutRead, ProcsTyped, LocalsOK
  <2>4. QED
    BY <2>1, <2>2, <2>3
<1>2. ASSUME NEW p \in Requests, NEW o \in Orders, VerifyPrivate(p, o)
      PROVE  RowsTyped' /\ ProcsTyped' /\ LocalsOK'
  <2>1. RowsTyped'
    BY <1>2 DEF VerifyPrivate, RowsTyped
  <2>2. ProcsTyped'
    BY <1>2 DEF VerifyPrivate, ProcsTyped
  <2>3. LocalsOK'
    BY <1>2 DEF VerifyPrivate, ProcsTyped, LocalsOK
  <2>4. QED
    BY <2>1, <2>2, <2>3
<1>3. ASSUME NEW p \in Requests, NEW o \in Orders, VerifyPublic(p, o)
      PROVE  RowsTyped' /\ ProcsTyped' /\ LocalsOK'
  <2>1. RowsTyped'
    BY <1>3 DEF VerifyPublic, RowsTyped
  <2>2. ProcsTyped'
    BY <1>3 DEF VerifyPublic, ProcsTyped
  <2>3. LocalsOK'
    BY <1>3 DEF VerifyPublic, ProcsTyped, LocalsOK
  <2>4. QED
    BY <2>1, <2>2, <2>3
<1>4. ASSUME NEW p \in Requests, NEW o \in Orders, AuthRead(p, o)
      PROVE  RowsTyped' /\ ProcsTyped' /\ LocalsOK'
  <2>1. RowsTyped'
    BY <1>4 DEF AuthRead, RowsTyped
  <2>2. ProcsTyped'
    BY <1>4 DEF AuthRead, ProcsTyped
  <2>3. LocalsOK'
    BY <1>4 DEF AuthRead, ProcsTyped, LocalsOK
  <2>4. QED
    BY <2>1, <2>2, <2>3
<1>5. ASSUME NEW p \in Procs, CheckoutInsert(p)
      PROVE  RowsTyped' /\ ProcsTyped' /\ LocalsOK'
  <2>1. RowsTyped'
    BY <1>5 DEF CheckoutInsert, RowsTyped
  <2>2. ProcsTyped'
    BY <1>5 DEF CheckoutInsert, ProcsTyped
  <2>3. LocalsOK'
    BY <1>5 DEF CheckoutInsert, ProcsTyped, LocalsOK
  <2>4. QED
    BY <2>1, <2>2, <2>3
<1>6. ASSUME NEW p \in Procs, SearchPayment(p)
      PROVE  RowsTyped' /\ ProcsTyped' /\ LocalsOK'
  <2>1. RowsTyped'
    BY <1>6 DEF SearchPayment, Expirable, Found, RowsTyped
  <2>2. ProcsTyped'
    BY <1>6 DEF SearchPayment, Expirable, Found, ProcsTyped
  <2>3. LocalsOK'
    BY <1>6 DEF SearchPayment, Expirable, Found, ProcsTyped, LocalsOK
  <2>4. QED
    BY <2>1, <2>2, <2>3
<1>7. ASSUME NEW p \in Procs, ReviveOrder(p)
      PROVE  RowsTyped' /\ ProcsTyped' /\ LocalsOK'
  <2>1. RowsTyped'
    BY <1>7 DEF ReviveOrder, RowsTyped
  <2>2. ProcsTyped'
    BY <1>7 DEF ReviveOrder, ProcsTyped
  <2>3. LocalsOK'
    BY <1>7 DEF ReviveOrder, ProcsTyped, LocalsOK
  <2>4. QED
    BY <2>1, <2>2, <2>3
<1>8. ASSUME NEW p \in Procs, ClaimPaid(p)
      PROVE  RowsTyped' /\ ProcsTyped' /\ LocalsOK'
  <2>1. RowsTyped'
    BY <1>8 DEF ClaimPaid, RowsTyped
  <2>2. ProcsTyped'
    BY <1>8 DEF ClaimPaid, ProcsTyped
  <2>3. LocalsOK'
    BY <1>8 DEF ClaimPaid, ProcsTyped, LocalsOK
  <2>4. QED
    BY <2>1, <2>2, <2>3
<1>9. ASSUME NEW p \in Procs, LostRace(p)
      PROVE  RowsTyped' /\ ProcsTyped' /\ LocalsOK'
  <2>1. RowsTyped'
    BY <1>9 DEF LostRace, RowsTyped
  <2>2. ProcsTyped'
    BY <1>9 DEF LostRace, ProcsTyped
  <2>3. LocalsOK'
    BY <1>9 DEF LostRace, ProcsTyped, LocalsOK
  <2>4. QED
    BY <2>1, <2>2, <2>3
<1>10. ASSUME NEW p \in Procs, RecordEvent(p)
      PROVE  RowsTyped' /\ ProcsTyped' /\ LocalsOK'
  <2>1. RowsTyped'
    BY <1>10 DEF RecordEvent, RowsTyped, LocalsOK
  <2>2. ProcsTyped'
    BY <1>10 DEF RecordEvent, ProcsTyped, LocalsOK
  <2>3. LocalsOK'
    BY <1>10 DEF RecordEvent, ProcsTyped, LocalsOK
  <2>4. QED
    BY <2>1, <2>2, <2>3
<1>11. ASSUME NEW p \in Procs, ReadProfile(p)
      PROVE  RowsTyped' /\ ProcsTyped' /\ LocalsOK'
  <2>1. RowsTyped'
    BY <1>11 DEF ReadProfile, AfterActivation, RowsTyped
  <2>2. ProcsTyped'
    BY <1>11 DEF ReadProfile, AfterActivation, IsPro, RowsTyped, ProcsTyped, LocalsOK
  <2>3. LocalsOK'
    BY <1>11 DEF ReadProfile, AfterActivation, ProcsTyped, LocalsOK
  <2>4. QED
    BY <2>1, <2>2, <2>3
<1>12. ASSUME NEW p \in Procs, ExtendPro(p)
      PROVE  RowsTyped' /\ ProcsTyped' /\ LocalsOK'
  <2>1. RowsTyped'
    BY <1>12 DEF ExtendPro, AfterActivation, OneMore, RowsTyped, ProcsTyped, LocalsOK
  <2>2. ProcsTyped'
    BY <1>12 DEF ExtendPro, AfterActivation, OneMore, ProcsTyped, LocalsOK
  <2>3. LocalsOK'
    BY <1>12 DEF ExtendPro, AfterActivation, OneMore, ProcsTyped, LocalsOK
  <2>4. QED
    BY <2>1, <2>2, <2>3
<1>13. ASSUME NEW p \in Procs, DeliverClaim(p)
      PROVE  RowsTyped' /\ ProcsTyped' /\ LocalsOK'
  <2>1. RowsTyped'
    <3>1. CASE \E c \in {p} \X {0, 1} : Delivery!Claim(order[p], c)
      <4>1. PICK c \in {p} \X {0, 1} : Delivery!Claim(order[p], c)
        BY <3>1
      <4>2. c \in Claims
        BY DEF Claims
      <4>3. NoClaim \in Claims \cup {NoClaim}
        OBVIOUS
      <4>4. QED
        BY <1>13, <4>1, <4>2, <4>3 DEF DeliverClaim, Delivery!Claim, RowsTyped
    <3>2. CASE UNCHANGED deliveryVars
      BY <1>13, <3>2 DEF DeliverClaim, RowsTyped
    <3>3. QED
      BY <1>13, <3>1, <3>2 DEF DeliverClaim
  <2>2. ProcsTyped'
    <3>1. UNCHANGED faults
      BY <1>13 DEF DeliverClaim
    <3>2. \/ /\ pc' = [pc EXCEPT ![p] = "settle"]
             /\ UNCHANGED <<order, route, saw, base, todo, phase>>
          \/ Return(p)
      BY <1>13 DEF DeliverClaim
    <3>3. QED
      BY <3>1, <3>2 DEF ProcsTyped
  <2>3. LocalsOK'
    BY <1>13 DEF DeliverClaim, Delivery!Claim, ProcsTyped, LocalsOK
  <2>4. QED
    BY <2>1, <2>2, <2>3
<1>14. ASSUME NEW p \in Procs, DeliverSettle(p)
      PROVE  RowsTyped' /\ ProcsTyped' /\ LocalsOK'
  <2>1. RowsTyped'
    BY <1>14 DEF DeliverSettle, Delivery!Settle, RowsTyped
  <2>2. ProcsTyped'
    BY <1>14 DEF DeliverSettle, Delivery!Settle, ProcsTyped
  <2>3. LocalsOK'
    BY <1>14 DEF DeliverSettle, Delivery!Settle, ProcsTyped, LocalsOK
  <2>4. QED
    BY <2>1, <2>2, <2>3
<1>15. ASSUME NEW p \in Procs, AuthWrite(p)
      PROVE  RowsTyped' /\ ProcsTyped' /\ LocalsOK'
  <2>1. RowsTyped'
    BY <1>15 DEF AuthWrite, RowsTyped
  <2>2. ProcsTyped'
    BY <1>15 DEF AuthWrite, ProcsTyped
  <2>3. LocalsOK'
    BY <1>15 DEF AuthWrite, ProcsTyped, LocalsOK
  <2>4. QED
    BY <2>1, <2>2, <2>3
<1>16. ASSUME JobLoad
      PROVE  RowsTyped' /\ ProcsTyped' /\ LocalsOK'
  <2>1. RowsTyped'
    BY <1>16 DEF JobLoad, NeedsActivation, RowsTyped
  <2>2. ProcsTyped'
    BY <1>16 DEF JobLoad, NeedsActivation, ProcsTyped
  <2>3. LocalsOK'
    BY <1>16 DEF JobLoad, NeedsActivation, ProcsTyped, LocalsOK
  <2>4. QED
    BY <2>1, <2>2, <2>3
<1>17. ASSUME JobPick
      PROVE  RowsTyped' /\ ProcsTyped' /\ LocalsOK'
  <2>1. RowsTyped'
    BY <1>17 DEF JobPick, RowsTyped
  <2>2. ProcsTyped'
    BY <1>17 DEF JobPick, ProcsTyped
  <2>3. LocalsOK'
    BY <1>17 DEF JobPick, ProcsTyped, LocalsOK
  <2>4. QED
    BY <2>1, <2>2, <2>3
<1>18. ASSUME JobSweep
      PROVE  RowsTyped' /\ ProcsTyped' /\ LocalsOK'
  <2>1. RowsTyped'
    BY <1>18 DEF JobSweep, NeedsDelivery, RowsTyped
  <2>2. ProcsTyped'
    BY <1>18 DEF JobSweep, NeedsDelivery, ProcsTyped
  <2>3. LocalsOK'
    BY <1>18 DEF JobSweep, NeedsDelivery, ProcsTyped, LocalsOK
  <2>4. QED
    BY <2>1, <2>2, <2>3
<1>19. ASSUME NEW u \in Owners, TermEnds(u)
      PROVE  RowsTyped' /\ ProcsTyped' /\ LocalsOK'
  <2>1. RowsTyped'
    BY <1>19 DEF TermEnds, HasEnded, RowsTyped, ProcsTyped
  <2>2. ProcsTyped'
    BY <1>19 DEF TermEnds, ProcsTyped
  <2>3. LocalsOK'
    BY <1>19 DEF TermEnds, ProcsTyped, LocalsOK
  <2>4. QED
    BY <2>1, <2>2, <2>3
<1>20. ASSUME NEW u \in Owners, Downgrade(u)
      PROVE  RowsTyped' /\ ProcsTyped' /\ LocalsOK'
  <2>1. RowsTyped'
    BY <1>20 DEF Downgrade, RowsTyped
  <2>2. ProcsTyped'
    BY <1>20 DEF Downgrade, ProcsTyped
  <2>3. LocalsOK'
    BY <1>20 DEF Downgrade, ProcsTyped, LocalsOK
  <2>4. QED
    BY <2>1, <2>2, <2>3
<1>21. ASSUME NEW o \in Orders, PayOrder(o)
      PROVE  RowsTyped' /\ ProcsTyped' /\ LocalsOK'
  <2>1. RowsTyped'
    BY <1>21 DEF PayOrder, RowsTyped
  <2>2. ProcsTyped'
    BY <1>21 DEF PayOrder, ProcsTyped
  <2>3. LocalsOK'
    BY <1>21 DEF PayOrder, ProcsTyped, LocalsOK
  <2>4. QED
    BY <2>1, <2>2, <2>3
<1>22. ASSUME NEW o \in Orders, DayPasses(o)
      PROVE  RowsTyped' /\ ProcsTyped' /\ LocalsOK'
  <2>1. RowsTyped'
    BY <1>22 DEF DayPasses, RowsTyped
  <2>2. ProcsTyped'
    BY <1>22 DEF DayPasses, ProcsTyped
  <2>3. LocalsOK'
    BY <1>22 DEF DayPasses, ProcsTyped, LocalsOK
  <2>4. QED
    BY <2>1, <2>2, <2>3
<1>23. ASSUME NEW o \in Orders, LapseClaim(o)
      PROVE  RowsTyped' /\ ProcsTyped' /\ LocalsOK'
  <2>1. RowsTyped'
    BY <1>23 DEF LapseClaim, Delivery!Lapse, RowsTyped
  <2>2. ProcsTyped'
    BY <1>23 DEF LapseClaim, Delivery!Lapse, ProcsTyped
  <2>3. LocalsOK'
    BY <1>23 DEF LapseClaim, Delivery!Lapse, ProcsTyped, LocalsOK
  <2>4. QED
    BY <2>1, <2>2, <2>3
<1>24. ASSUME NEW U \in {{u} : u \in Owners} \cup {Owners}, ExpireOrders(U)
      PROVE  RowsTyped' /\ ProcsTyped' /\ LocalsOK'
  <2>1. RowsTyped'
    BY <1>24 DEF ExpireOrders, RowsTyped
  <2>2. ProcsTyped'
    BY <1>24 DEF ExpireOrders, ProcsTyped
  <2>3. LocalsOK'
    BY <1>24 DEF ExpireOrders, ProcsTyped, LocalsOK
  <2>4. QED
    BY <2>1, <2>2, <2>3
<1>25. ASSUME NEW p \in Procs, Fault(p)
      PROVE  RowsTyped' /\ ProcsTyped' /\ LocalsOK'
  <2>1. RowsTyped'
    BY <1>25 DEF Fault, RowsTyped
  <2>2. ProcsTyped'
    BY <1>25 DEF Fault, ProcsTyped
  <2>3. LocalsOK'
    BY <1>25 DEF Fault, ProcsTyped, LocalsOK
  <2>4. QED
    BY <2>1, <2>2, <2>3
<1>26. ASSUME Restart
      PROVE  RowsTyped' /\ ProcsTyped' /\ LocalsOK'
  <2>1. RowsTyped'
    BY <1>26 DEF Restart, RowsTyped
  <2>2. ProcsTyped'
    BY <1>26 DEF Restart, ProcsTyped
  <2>3. LocalsOK'
    BY <1>26 DEF Restart, ProcsTyped, LocalsOK
  <2>4. QED
    BY <2>1, <2>2, <2>3
<1>27. CASE UNCHANGED vars
  BY <1>27 DEF vars, RowsTyped, ProcsTyped, LocalsOK
<1>28. QED
  BY <1>1, <1>2, <1>3, <1>4, <1>5, <1>6, <1>7, <1>8, <1>9, <1>10, <1>11, <1>12,
     <1>13, <1>14, <1>15, <1>16, <1>17, <1>18, <1>19, <1>20, <1>21, <1>22, <1>23,
     <1>24, <1>25, <1>26, <1>27
  DEF Next, ProcStep, JobStep

\* What PaidOnce needs of the processes and the job's list.
PaidInv == PaidOnce /\ VerifyInv

LEMMA PaidInit == Init => PaidInv
  BY DEF Init, Delivery!Init, PaidInv, PaidOnce, VerifyInv, SeenHolds, Alone

LEMMA PaidStep == TypedInv /\ PaidInv /\ [Next]_vars => PaidInv'
<1> SUFFICES ASSUME RowsTyped, ProcsTyped, LocalsOK, PaidOnce, VerifyInv, [Next]_vars
             PROVE  PaidOnce' /\ VerifyInv'
  BY DEF TypedInv, TypeOK, PaidInv
<1>1. ASSUME NEW p \in Requests, NEW o \in Orders, CheckoutRead(p, o)
      PROVE  PaidOnce' /\ VerifyInv'
  <2>1. PaidOnce'
    BY <1>1 DEF CheckoutRead, PaidOnce
  <2>2. VerifyInv'
    BY <1>1 DEF CheckoutRead, ProcsTyped, VerifyInv, SeenHolds, Alone
  <2>3. QED
    BY <2>1, <2>2
<1>2. ASSUME NEW p \in Requests, NEW o \in Orders, VerifyPrivate(p, o)
      PROVE  PaidOnce' /\ VerifyInv'
  <2>1. PaidOnce'
    BY <1>2 DEF VerifyPrivate, PaidOnce
  <2>2. VerifyInv'
    BY <1>2 DEF VerifyPrivate, ProcsTyped, VerifyInv, SeenHolds, Alone
  <2>3. QED
    BY <2>1, <2>2
<1>3. ASSUME NEW p \in Requests, NEW o \in Orders, VerifyPublic(p, o)
      PROVE  PaidOnce' /\ VerifyInv'
  <2>1. PaidOnce'
    BY <1>3 DEF VerifyPublic, PaidOnce
  <2>2. VerifyInv'
    BY <1>3 DEF VerifyPublic, ProcsTyped, VerifyInv, SeenHolds, Alone
  <2>3. QED
    BY <2>1, <2>2
<1>4. ASSUME NEW p \in Requests, NEW o \in Orders, AuthRead(p, o)
      PROVE  PaidOnce' /\ VerifyInv'
  <2>1. PaidOnce'
    BY <1>4 DEF AuthRead, PaidOnce
  <2>2. VerifyInv'
    BY <1>4 DEF AuthRead, ProcsTyped, VerifyInv, SeenHolds, Alone
  <2>3. QED
    BY <2>1, <2>2
<1>5. ASSUME NEW p \in Procs, CheckoutInsert(p)
      PROVE  PaidOnce' /\ VerifyInv'
  <2>1. PaidOnce'
    BY <1>5 DEF CheckoutInsert, PaidOnce, VerifyInv, SeenHolds
  <2>2. VerifyInv'
    BY <1>5 DEF CheckoutInsert, ProcsTyped, VerifyInv, SeenHolds, Alone
  <2>3. QED
    BY <2>1, <2>2
<1>6. ASSUME NEW p \in Procs, SearchPayment(p)
      PROVE  PaidOnce' /\ VerifyInv'
  <2>1. PaidOnce'
    BY <1>6 DEF SearchPayment, Expirable, Found, RowsTyped, PaidOnce, Expirable
  <2>2. VerifyInv'
    BY <1>6
    DEF SearchPayment, Expirable, Found, RowsTyped, ProcsTyped, LocalsOK,
        VerifyInv, SeenHolds, Alone, Expirable
  <2>3. QED
    BY <2>1, <2>2
<1>7. ASSUME NEW p \in Procs, ReviveOrder(p)
      PROVE  PaidOnce' /\ VerifyInv'
  <2>1. PaidOnce'
    BY <1>7 DEF ReviveOrder, PaidOnce, Revivable
  <2>2. VerifyInv'
    BY <1>7 DEF ReviveOrder, ProcsTyped, VerifyInv, SeenHolds, Alone, Revivable
  <2>3. QED
    BY <2>1, <2>2
<1>8. ASSUME NEW p \in Procs, ClaimPaid(p)
      PROVE  PaidOnce' /\ VerifyInv'
  <2>1. PaidOnce'
    BY <1>8 DEF ClaimPaid, RowsTyped, PaidOnce, VerifyInv, SeenHolds, Claimable
  <2>2. VerifyInv'
    <3>1. CASE UNCHANGED status
      BY <1>8, <3>1
      DEF ClaimPaid, Claimable, RowsTyped, ProcsTyped, LocalsOK, VerifyInv,
          SeenHolds, Alone
    <3>2. CASE ~UNCHANGED status
      <4>1. /\ status[order[p]] = "pending" /\ order[p] \in Orders
            /\ status' = [status EXCEPT ![order[p]] = "paid"]
            /\ pc' = [pc EXCEPT ![p] = "event"]
            /\ UNCHANGED <<onChain, events, order, todo>>
        BY <1>8, <3>2 DEF ClaimPaid, Claimable, LocalsOK
      <4>2. events[order[p]] = 0
        BY <4>1 DEF PaidOnce, RowsTyped
      <4>3. \A q \in Procs : SeenHolds(q)'
        BY <4>1, <4>2 DEF RowsTyped, ProcsTyped, VerifyInv, SeenHolds
      <4>4. \A q \in Procs : pc[q] \in {"insert", "event"} => order[q] # order[p]
        BY <4>1 DEF VerifyInv, SeenHolds
      <4>5. \A q, r \in Procs : Alone(q, r)'
        BY <4>1, <4>4 DEF ProcsTyped, VerifyInv, Alone
      <4>6. \A o \in todo' : status'[o] = "paid"
        BY <4>1 DEF ProcsTyped, VerifyInv
      <4>7. QED
        BY <4>3, <4>5, <4>6 DEF VerifyInv
    <3>3. QED
      BY <3>1, <3>2
  <2>3. QED
    BY <2>1, <2>2
<1>9. ASSUME NEW p \in Procs, LostRace(p)
      PROVE  PaidOnce' /\ VerifyInv'
  <2>1. PaidOnce'
    BY <1>9 DEF LostRace, PaidOnce
  <2>2. VerifyInv'
    BY <1>9 DEF LostRace, ProcsTyped, VerifyInv, SeenHolds, Alone
  <2>3. QED
    BY <2>1, <2>2
<1>10. ASSUME NEW p \in Procs, RecordEvent(p)
      PROVE  PaidOnce' /\ VerifyInv'
  <2>1. PaidOnce'
    BY <1>10 DEF RecordEvent, PaidOnce, VerifyInv, SeenHolds
  <2>2. VerifyInv'
    BY <1>10 DEF RecordEvent, ProcsTyped, VerifyInv, SeenHolds, Alone
  <2>3. QED
    BY <2>1, <2>2
<1>11. ASSUME NEW p \in Procs, ReadProfile(p)
      PROVE  PaidOnce' /\ VerifyInv'
  <2>1. PaidOnce'
    BY <1>11 DEF ReadProfile, AfterActivation, PaidOnce
  <2>2. VerifyInv'
    BY <1>11 DEF ReadProfile, AfterActivation, ProcsTyped, VerifyInv, SeenHolds, Alone
  <2>3. QED
    BY <2>1, <2>2
<1>12. ASSUME NEW p \in Procs, ExtendPro(p)
      PROVE  PaidOnce' /\ VerifyInv'
  <2>1. PaidOnce'
    BY <1>12 DEF ExtendPro, AfterActivation, OneMore, PaidOnce
  <2>2. VerifyInv'
    BY <1>12
    DEF ExtendPro, AfterActivation, OneMore, ProcsTyped, VerifyInv, SeenHolds,
        Alone
  <2>3. QED
    BY <2>1, <2>2
<1>13. ASSUME NEW p \in Procs, DeliverClaim(p)
      PROVE  PaidOnce' /\ VerifyInv'
  <2>1. PaidOnce'
    BY <1>13 DEF DeliverClaim, Delivery!Claim, RowsTyped, PaidOnce, VerifyInv, SeenHolds
  <2>2. VerifyInv'
    BY <1>13
    DEF DeliverClaim, Delivery!Claim, RowsTyped, ProcsTyped, VerifyInv, SeenHolds,
        Alone
  <2>3. QED
    BY <2>1, <2>2
<1>14. ASSUME NEW p \in Procs, DeliverSettle(p)
      PROVE  PaidOnce' /\ VerifyInv'
  <2>1. PaidOnce'
    BY <1>14 DEF DeliverSettle, Delivery!Settle, RowsTyped, PaidOnce
  <2>2. VerifyInv'
    BY <1>14
    DEF DeliverSettle, Delivery!Settle, RowsTyped, ProcsTyped, VerifyInv,
        SeenHolds, Alone
  <2>3. QED
    BY <2>1, <2>2
<1>15. ASSUME NEW p \in Procs, AuthWrite(p)
      PROVE  PaidOnce' /\ VerifyInv'
  <2>1. PaidOnce'
    BY <1>15 DEF AuthWrite, PaidOnce
  <2>2. VerifyInv'
    BY <1>15 DEF AuthWrite, ProcsTyped, VerifyInv, SeenHolds, Alone
  <2>3. QED
    BY <2>1, <2>2
<1>16. ASSUME JobLoad
      PROVE  PaidOnce' /\ VerifyInv'
  <2>1. PaidOnce'
    BY <1>16 DEF JobLoad, NeedsActivation, PaidOnce
  <2>2. VerifyInv'
    BY <1>16
    DEF JobLoad, NeedsActivation, ProcsTyped, VerifyInv, SeenHolds, Alone,
        NeedsActivation
  <2>3. QED
    BY <2>1, <2>2
<1>17. ASSUME JobPick
      PROVE  PaidOnce' /\ VerifyInv'
  <2>1. PaidOnce'
    BY <1>17 DEF JobPick, PaidOnce
  <2>2. VerifyInv'
    BY <1>17 DEF JobPick, ProcsTyped, VerifyInv, SeenHolds, Alone
  <2>3. QED
    BY <2>1, <2>2
<1>18. ASSUME JobSweep
      PROVE  PaidOnce' /\ VerifyInv'
  <2>1. PaidOnce'
    BY <1>18 DEF JobSweep, NeedsDelivery, PaidOnce
  <2>2. VerifyInv'
    BY <1>18
    DEF JobSweep, NeedsDelivery, ProcsTyped, VerifyInv, SeenHolds, Alone,
        NeedsDelivery
  <2>3. QED
    BY <2>1, <2>2
<1>19. ASSUME NEW u \in Owners, TermEnds(u)
      PROVE  PaidOnce' /\ VerifyInv'
  <2>1. PaidOnce'
    BY <1>19 DEF TermEnds, PaidOnce
  <2>2. VerifyInv'
    BY <1>19 DEF TermEnds, ProcsTyped, VerifyInv, SeenHolds, Alone
  <2>3. QED
    BY <2>1, <2>2
<1>20. ASSUME NEW u \in Owners, Downgrade(u)
      PROVE  PaidOnce' /\ VerifyInv'
  <2>1. PaidOnce'
    BY <1>20 DEF Downgrade, PaidOnce
  <2>2. VerifyInv'
    BY <1>20 DEF Downgrade, ProcsTyped, VerifyInv, SeenHolds, Alone
  <2>3. QED
    BY <2>1, <2>2
<1>21. ASSUME NEW o \in Orders, PayOrder(o)
      PROVE  PaidOnce' /\ VerifyInv'
  <2>1. PaidOnce'
    BY <1>21 DEF PayOrder, PaidOnce
  <2>2. VerifyInv'
    BY <1>21 DEF PayOrder, ProcsTyped, VerifyInv, SeenHolds, Alone
  <2>3. QED
    BY <2>1, <2>2
<1>22. ASSUME NEW o \in Orders, DayPasses(o)
      PROVE  PaidOnce' /\ VerifyInv'
  <2>1. PaidOnce'
    BY <1>22 DEF DayPasses, PaidOnce
  <2>2. VerifyInv'
    BY <1>22 DEF DayPasses, ProcsTyped, VerifyInv, SeenHolds, Alone
  <2>3. QED
    BY <2>1, <2>2
<1>23. ASSUME NEW o \in Orders, LapseClaim(o)
      PROVE  PaidOnce' /\ VerifyInv'
  <2>1. PaidOnce'
    BY <1>23 DEF LapseClaim, Delivery!Lapse, PaidOnce
  <2>2. VerifyInv'
    BY <1>23 DEF LapseClaim, Delivery!Lapse, ProcsTyped, VerifyInv, SeenHolds, Alone
  <2>3. QED
    BY <2>1, <2>2
<1>24. ASSUME NEW U \in {{u} : u \in Owners} \cup {Owners}, ExpireOrders(U)
      PROVE  PaidOnce' /\ VerifyInv'
  <2>1. PaidOnce'
    BY <1>24 DEF ExpireOrders, PaidOnce, Expirable
  <2>2. VerifyInv'
    BY <1>24
    DEF ExpireOrders, ProcsTyped, LocalsOK, VerifyInv, SeenHolds, Alone, Expirable
  <2>3. QED
    BY <2>1, <2>2
<1>25. ASSUME NEW p \in Procs, Fault(p)
      PROVE  PaidOnce' /\ VerifyInv'
  <2>1. PaidOnce'
    BY <1>25 DEF Fault, PaidOnce
  <2>2. VerifyInv'
    BY <1>25 DEF Fault, ProcsTyped, VerifyInv, SeenHolds, Alone
  <2>3. QED
    BY <2>1, <2>2
<1>26. ASSUME Restart
      PROVE  PaidOnce' /\ VerifyInv'
  <2>1. PaidOnce'
    BY <1>26 DEF Restart, PaidOnce
  <2>2. VerifyInv'
    BY <1>26 DEF Restart, ProcsTyped, VerifyInv, SeenHolds, Alone
  <2>3. QED
    BY <2>1, <2>2
<1>27. CASE UNCHANGED vars
  BY <1>27 DEF vars, ProcsTyped, PaidOnce, VerifyInv, SeenHolds, Alone
<1>28. QED
  BY <1>1, <1>2, <1>3, <1>4, <1>5, <1>6, <1>7, <1>8, <1>9, <1>10, <1>11, <1>12,
     <1>13, <1>14, <1>15, <1>16, <1>17, <1>18, <1>19, <1>20, <1>21, <1>22, <1>23,
     <1>24, <1>25, <1>26, <1>27
  DEF Next, ProcStep, JobStep

\* Every column of the rows and every local of a process has its type.
THEOREM TypeCorrect == Spec => []TypeOK
<1>1. Init => TypedInv
  BY TypedInit
<1>2. TypedInv /\ [Next]_vars => TypedInv'
  BY TypedStep
<1>3. TypedInv => TypeOK
  BY DEF TypedInv
<1>4. QED
  BY <1>1, <1>2, <1>3, PTL DEF Spec

LEMMA PaidAlways == Spec => [](TypedInv /\ PaidInv)
<1>1. Init => TypedInv /\ PaidInv
  BY TypedInit, PaidInit
<1>2. TypedInv /\ PaidInv /\ [Next]_vars => (TypedInv /\ PaidInv)'
  BY TypedStep, PaidStep
<1>3. QED
  BY <1>1, <1>2, PTL DEF Spec

\* An order that is paid was paid for on chain, its payment is recorded once,
\* and nothing is recorded or delivered for an order that is not paid: any
\* number of pages, clean-ups and recovery runs may look at it at once.
THEOREM OrderPaidOnce == Spec => []PaidOnce
<1>1. TypedInv /\ PaidInv => PaidOnce
  BY DEF PaidInv
<1>2. QED
  BY <1>1, PaidAlways, PTL

(***************************************************************************)
(* The order's row and the delivery keep their contracts: each step of the *)
(* processes, the job and the clock is a step of OrderLifecycle or leaves  *)
(* the row alone, and a step of FulfillmentLease or leaves the delivery    *)
(* alone.                                                                  *)
(***************************************************************************)
\* The clean-ups and a page that finds an unpaid order late close only what
\* the contract lets expire.
LEMMA ExpireIsContract ==
  ASSUME RowsTyped, NEW S \in SUBSET Orders, \A o \in S : Expirable(o),
         status' = [o \in Orders |-> IF o \in S THEN "expired" ELSE status[o]],
         UNCHANGED <<overdue, onChain>>
  PROVE  Row!Next
<1>1. Row!Expire(S)
  BY DEF Row!Expire, Row!Becomes, Expirable
<1>2. Row!Pick
  BY DEF Row!Pick
<1>3. QED
  BY <1>1, <1>2 DEF Row!Next

\* A step that moves one order's status along an edge of the contract.
LEMMA MoveIsContract ==
  ASSUME RowsTyped, NEW o \in Orders, NEW to, status' = [status EXCEPT ![o] = to],
         UNCHANGED <<overdue, onChain>>,
         \/ status[o] = "none" /\ to = "pending"
         \/ status[o] = "expired" /\ onChain[o] /\ to = "pending"
         \/ status[o] = "pending" /\ onChain[o] /\ to = "paid"
  PROVE  Row!Next
<1>1. status' = [q \in Orders |-> IF q \in {o} THEN to ELSE status[q]]
  BY DEF RowsTyped
<1>2. Row!Open(o) \/ Row!Revive(o) \/ Row!Book(o)
  BY <1>1 DEF Row!Open, Row!Revive, Row!Book, Row!Becomes
<1>3. Row!Pick
  BY DEF Row!Pick
<1>4. QED
  BY <1>2, <1>3 DEF Row!Next

LEMMA RowStep == TypedInv /\ PaidInv /\ [Next]_vars => [Row!Next]_(Row!vars)
<1> SUFFICES ASSUME RowsTyped, LocalsOK, VerifyInv, [Next]_vars
             PROVE  Row!Next \/ UNCHANGED <<status, overdue, onChain>>
  BY DEF Row!vars, TypedInv, TypeOK, PaidInv
<1>1. ASSUME NEW p \in Procs, CheckoutInsert(p)
      PROVE  Row!Next
  <2>1. order[p] \in Orders /\ status[order[p]] = "none"
    BY <1>1 DEF CheckoutInsert, LocalsOK, VerifyInv, SeenHolds
  <2>2. QED
    BY <1>1, <2>1, MoveIsContract DEF CheckoutInsert
<1>2. ASSUME NEW p \in Procs, SearchPayment(p)
      PROVE  Row!Next \/ UNCHANGED <<status, overdue, onChain>>
  <2>1. CASE UNCHANGED status
    BY <1>2, <2>1 DEF SearchPayment
  <2>2. CASE ~UNCHANGED status
    <3>1. /\ Expirable(order[p]) /\ status' = [status EXCEPT ![order[p]] = "expired"]
          /\ order[p] \in Orders /\ UNCHANGED <<overdue, onChain>>
      BY <1>2, <2>2 DEF SearchPayment, LocalsOK
    <3>2. status' = [o \in Orders |-> IF o \in {order[p]} THEN "expired" ELSE status[o]]
      BY <3>1 DEF RowsTyped
    <3>3. {order[p]} \in SUBSET Orders /\ \A o \in {order[p]} : Expirable(o)
      BY <3>1
    <3>4. QED
      BY <3>1, <3>2, <3>3, ExpireIsContract
  <2>3. QED
    BY <2>1, <2>2
<1>3. ASSUME NEW p \in Procs, ReviveOrder(p)
      PROVE  Row!Next \/ UNCHANGED <<status, overdue, onChain>>
  <2>1. order[p] \in Orders /\ onChain[order[p]]
    BY <1>3 DEF ReviveOrder, LocalsOK, VerifyInv, SeenHolds
  <2>2. QED
    BY <1>3, <2>1, MoveIsContract DEF ReviveOrder, Revivable
<1>4. ASSUME NEW p \in Procs, ClaimPaid(p)
      PROVE  Row!Next \/ UNCHANGED <<status, overdue, onChain>>
  <2>1. order[p] \in Orders /\ onChain[order[p]]
    BY <1>4 DEF ClaimPaid, LocalsOK, VerifyInv, SeenHolds
  <2>2. QED
    BY <1>4, <2>1, MoveIsContract DEF ClaimPaid, Claimable
<1>5. ASSUME NEW U \in {{u} : u \in Owners} \cup {Owners}, ExpireOrders(U)
      PROVE  Row!Next
  <2> DEFINE S == {o \in Orders : OwnerOf[o] \in U /\ Expirable(o)}
  <2>1. status' = [o \in Orders |-> IF o \in S THEN "expired" ELSE status[o]]
    BY <1>5 DEF ExpireOrders
  <2>2. S \in SUBSET Orders /\ \A o \in S : Expirable(o)
    OBVIOUS
  <2>3. QED
    BY <1>5, <2>1, <2>2, ExpireIsContract DEF ExpireOrders
<1>6. ASSUME NEW o \in Orders, PayOrder(o) \/ DayPasses(o)
      PROVE  Row!Next
  <2>1. Row!Receive(o) \/ Row!Age(o)
    BY <1>6 DEF PayOrder, DayPasses, Row!Receive, Row!Age
  <2>2. Row!Pick
    BY DEF Row!Pick
  <2>3. QED
    BY <2>1, <2>2 DEF Row!Next
<1>7. ASSUME NEW p \in Procs, ProcStep(p)
      PROVE  Row!Next \/ UNCHANGED <<status, overdue, onChain>>
  BY <1>1, <1>2, <1>3, <1>4, <1>7
  DEF ProcStep, LostRace, RecordEvent, ReadProfile, ExtendPro, DeliverClaim,
      DeliverSettle, AuthWrite
<1>8. ASSUME NEW p \in Requests, NEW q \in Orders,
             CheckoutRead(p, q) \/ VerifyPrivate(p, q) \/ VerifyPublic(p, q)
             \/ AuthRead(p, q)
      PROVE  UNCHANGED <<status, overdue, onChain>>
  BY <1>8 DEF CheckoutRead, VerifyPrivate, VerifyPublic, AuthRead
<1>9. ASSUME JobLoad \/ JobPick \/ JobSweep
      PROVE  UNCHANGED <<status, overdue, onChain>>
  BY <1>9 DEF JobLoad, JobPick, JobSweep
<1>10. ASSUME \/ \E u \in Owners : TermEnds(u) \/ Downgrade(u)
              \/ \E q \in Orders : LapseClaim(q)
              \/ \E p \in Procs : Fault(p)
              \/ Restart \/ UNCHANGED vars
       PROVE  UNCHANGED <<status, overdue, onChain>>
  BY <1>10 DEF TermEnds, Downgrade, LapseClaim, Fault, Restart, vars
<1>11. QED
  BY <1>5, <1>6, <1>7, <1>8, <1>9, <1>10 DEF Next, JobStep, Procs

\* The order's row implements the contract of OrderLifecycle: two routes, two
\* clean-ups and a revival write it, and none writes what it did not see.
THEOREM OrderImplemented == Spec => OrderKept
<1>1. Init => Row!Init
  BY DEF Init, Row!Init
<1>2. QED
  BY <1>1, RowStep, PaidAlways, PTL DEF Spec, OrderKept, Row!Spec

\* What OrderLifecycle_proofs shows of every row that keeps the contract.
RowFacts == INSTANCE OrderLifecycle_proofs
              WITH late <- overdue, received <- onChain, doomed <- {}

LEMMA PaidStaysStep ==
  ASSUME TypedInv, PaidInv, [Next]_vars, NEW o \in Orders, status[o] = "paid"
  PROVE  status'[o] = "paid"
<1>1. [RowFacts!Next]_(RowFacts!vars)
  BY RowStep
  DEF Row!Next, Row!vars, Row!Pick, Row!Becomes, Row!Open, Row!Expire, Row!Revive,
      Row!Book, Row!Delete, Row!Age, Row!Receive,
      RowFacts!Next, RowFacts!vars, RowFacts!Pick, RowFacts!Becomes,
      RowFacts!Open, RowFacts!Expire, RowFacts!Revive, RowFacts!Book,
      RowFacts!Delete, RowFacts!Age, RowFacts!Receive
<1>2. RowFacts!TypeOK
  BY DEF TypedInv, TypeOK, RowsTyped, RowFacts!TypeOK
<1>3. RowFacts!Edges(o)
  BY <1>1, <1>2, RowFacts!StepEdges
<1>4. QED
  BY <1>3 DEF RowFacts!Edges

\* No step takes the status 'paid' away from an order.
THEOREM PaidForGood == Spec => PaidStays
<1>1. TypedInv /\ PaidInv /\ [Next]_vars =>
        [\A o \in Orders : status[o] = "paid" => status'[o] = "paid"]_status
  BY PaidStaysStep
<1>2. QED
  BY <1>1, PaidAlways, PTL DEF Spec, PaidStays

LEMMA DeliveryStep == TypedInv /\ PaidInv /\ [Next]_vars => [Delivery!Next]_(Delivery!vars)
<1> SUFFICES ASSUME LocalsOK, [Next]_vars
             PROVE  Delivery!Next \/ UNCHANGED deliveryVars
  BY DEF TypedInv, Delivery!vars
<1>1. ASSUME NEW p \in Procs, DeliverClaim(p)
      PROVE  Delivery!Next \/ UNCHANGED deliveryVars
  <2>1. order[p] \in Orders /\ {p} \X {0, 1} \subseteq Claims
    BY <1>1 DEF DeliverClaim, LocalsOK, Claims
  <2>2. QED
    BY <1>1, <2>1 DEF DeliverClaim, Delivery!Next
<1>2. ASSUME NEW p \in Procs, DeliverSettle(p)
      PROVE  Delivery!Next \/ UNCHANGED deliveryVars
  BY <1>2 DEF DeliverSettle, LocalsOK, Delivery!Next
<1>3. ASSUME NEW o \in Orders, LapseClaim(o)
      PROVE  Delivery!Next
  BY <1>3 DEF LapseClaim, Delivery!Next
<1>4. ASSUME NEW p \in Procs, ProcStep(p)
      PROVE  Delivery!Next \/ UNCHANGED deliveryVars
  BY <1>1, <1>2, <1>4
  DEF ProcStep, CheckoutInsert, SearchPayment, ReviveOrder, ClaimPaid, LostRace,
      RecordEvent, ReadProfile, ExtendPro, AuthWrite
<1>5. ASSUME NEW p \in Requests, NEW q \in Orders,
             CheckoutRead(p, q) \/ VerifyPrivate(p, q) \/ VerifyPublic(p, q)
             \/ AuthRead(p, q)
      PROVE  UNCHANGED deliveryVars
  BY <1>5 DEF CheckoutRead, VerifyPrivate, VerifyPublic, AuthRead
<1>6. ASSUME JobLoad \/ JobPick \/ JobSweep
      PROVE  UNCHANGED deliveryVars
  BY <1>6 DEF JobLoad, JobPick, JobSweep
<1>7. ASSUME \/ \E u \in Owners : TermEnds(u) \/ Downgrade(u)
             \/ \E q \in Orders : PayOrder(q) \/ DayPasses(q)
             \/ \E U \in {{u} : u \in Owners} \cup {Owners} : ExpireOrders(U)
             \/ \E p \in Procs : Fault(p)
             \/ Restart \/ UNCHANGED vars
      PROVE  UNCHANGED deliveryVars
  BY <1>7 DEF TermEnds, Downgrade, PayOrder, DayPasses, ExpireOrders, Fault, Restart, vars
<1>8. QED
  BY <1>3, <1>4, <1>5, <1>6, <1>7 DEF Next, JobStep, Procs

\* The delivery as the sale sees it implements FulfillmentLease, with the claims
\* of any number of requests and of the recovery job.
THEOREM DeliveryImplemented == Spec => Delivery!Spec
<1>1. Init => Delivery!Init
  BY DEF Init
<1>2. QED
  BY <1>1, DeliveryStep, PaidAlways, PTL DEF Spec, Delivery!Spec

\* A delivered order is never claimed or settled again, although the pages and
\* the job go on asking for its delivery.
THEOREM DeliveredForGood == Spec => Delivery!DeliveredIsKept
<1>1. TypedInv /\ [Delivery!Next]_(Delivery!vars) =>
        [\A o \in Orders : delivery[o] = "completed" =>
           /\ delivery'[o] = "completed"
           /\ holder'[o] = holder[o] /\ settler'[o] = settler[o]]_(Delivery!vars)
  <2> SUFFICES ASSUME RowsTyped, Delivery!Next, NEW o \in Orders,
                      delivery[o] = "completed"
               PROVE  /\ delivery'[o] = "completed"
                      /\ holder'[o] = holder[o] /\ settler'[o] = settler[o]
    BY DEF TypedInv, TypeOK, Delivery!vars
  <2>1. PICK q \in Orders :
          \/ \E c \in Claims : Delivery!Claim(q, c)
          \/ Delivery!Lapse(q)
          \/ \E outcome \in {"completed", "failed"} : Delivery!Settle(q, outcome)
    BY DEF Delivery!Next
  <2>2. QED
    BY <2>1 DEF RowsTyped, Delivery!Claim, Delivery!Free, Delivery!Lapse, Delivery!Settle
<1>2. QED
  BY <1>1, DeliveryImplemented, PaidAlways, PTL DEF Delivery!Spec, Delivery!DeliveredIsKept
-----------------------------------------------------------------------------
\* Nobody is Pro, or has a term to come back to, who paid for no order: neither
\* the branches that repeat an activation nor the job activate an unpaid one.
\* (How many terms an owner gets is another matter, see TermsArePaidFor.)
ProWasPaidFor == \A u \in Owners :
  tier[u] = "pro" \/ proEnds[u] > 0 =>
    \E o \in Orders : OwnerOf[o] = u /\ status[o] = "paid"

LEMMA ProStep == TypedInv /\ PaidInv /\ ProWasPaidFor /\ [Next]_vars => ProWasPaidFor'
<1> SUFFICES ASSUME RowsTyped, ProcsTyped, LocalsOK, PaidInv, TypedInv, ProWasPaidFor,
                    [Next]_vars, NEW u \in Owners,
                    tier'[u] = "pro" \/ proEnds'[u] > 0
             PROVE  \E o \in Orders : OwnerOf[o] = u /\ status'[o] = "paid"
  BY DEF TypedInv, TypeOK, ProWasPaidFor
<1>1. \A o \in Orders : status[o] = "paid" => status'[o] = "paid"
  BY PaidStaysStep
<1>2. ASSUME tier[u] = "pro" \/ proEnds[u] > 0
      PROVE  \E o \in Orders : OwnerOf[o] = u /\ status'[o] = "paid"
  BY <1>1, <1>2 DEF ProWasPaidFor
<1>3. ASSUME NEW p \in Procs, ExtendPro(p)
      PROVE  \E o \in Orders : OwnerOf[o] = u /\ status'[o] = "paid"
  <2>1. order[p] \in Orders /\ status'[order[p]] = "paid"
    BY <1>1, <1>3 DEF ExtendPro, LocalsOK, PaidInv, VerifyInv, SeenHolds
  <2>2. CASE OwnerOf[order[p]] = u
    BY <2>1, <2>2
  <2>3. CASE OwnerOf[order[p]] # u
    <3>1. tier'[u] = tier[u] /\ proEnds'[u] = proEnds[u]
      BY <1>3, <2>3 DEF ExtendPro, RowsTyped
    <3>2. QED
      BY <3>1, <1>2
  <2>4. QED
    BY <2>2, <2>3
<1>4. ASSUME NEW p \in Procs, AuthWrite(p)
      PROVE  tier'[u] \in {tier[u], "trial"} /\ proEnds' = proEnds
  BY <1>4 DEF AuthWrite, RowsTyped
<1>5. ASSUME NEW v \in Owners, TermEnds(v) \/ Downgrade(v)
      PROVE  tier'[u] \in {tier[u], "trial"} /\ proEnds' = proEnds
  BY <1>5 DEF TermEnds, Downgrade, RowsTyped
<1>6. ASSUME NEW p \in Procs, ProcStep(p)
      PROVE  \E o \in Orders : OwnerOf[o] = u /\ status'[o] = "paid"
  BY <1>2, <1>3, <1>4, <1>6
  DEF ProcStep, CheckoutInsert, SearchPayment, ReviveOrder, ClaimPaid, LostRace,
      RecordEvent, ReadProfile, DeliverClaim, DeliverSettle
<1>7. ASSUME NEW p \in Requests, NEW q \in Orders,
             CheckoutRead(p, q) \/ VerifyPrivate(p, q) \/ VerifyPublic(p, q)
             \/ AuthRead(p, q)
      PROVE  UNCHANGED <<tier, proEnds>>
  BY <1>7 DEF CheckoutRead, VerifyPrivate, VerifyPublic, AuthRead
<1>8. ASSUME JobLoad \/ JobPick \/ JobSweep
      PROVE  UNCHANGED <<tier, proEnds>>
  BY <1>8 DEF JobLoad, JobPick, JobSweep
<1>9. ASSUME \/ \E q \in Orders : PayOrder(q) \/ DayPasses(q) \/ LapseClaim(q)
             \/ \E U \in {{v} : v \in Owners} \cup {Owners} : ExpireOrders(U)
             \/ \E p \in Procs : Fault(p)
             \/ Restart \/ UNCHANGED vars
      PROVE  UNCHANGED <<tier, proEnds>>
  BY <1>9 DEF PayOrder, DayPasses, LapseClaim, ExpireOrders, Fault, Restart, vars
<1>10. QED
  BY <1>2, <1>5, <1>6, <1>7, <1>8, <1>9 DEF Next, JobStep, Procs

\* Pro is sold, not given: whoever has it, or had it, has an order that is paid
\* and that was paid for on chain.
THEOREM ProSoldForMoney == Spec => []ProWasPaidFor
<1>1. Init => ProWasPaidFor
  BY DEF Init, ProWasPaidFor
<1>2. QED
  BY <1>1, ProStep, PaidAlways, PTL DEF Spec
=============================================================================
