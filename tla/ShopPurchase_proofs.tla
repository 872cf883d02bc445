------------------------- MODULE ShopPurchase_proofs -------------------------
(***************************************************************************)
(* Proofs about ShopPurchase, for any lots, purchases, buyers and          *)
(* concurrent requests and any number of faults: what is handed over was   *)
(* paid for and booked, a booked payment stays and is settled by the check *)
(* that booked it, and a lot is given to few.                              *)
(***************************************************************************)
EXTENDS ShopPurchase, FiniteSetTheorems, TLAPS

USE ShopConstants DEF None, Seller, Goto, Decide, Return, lotVars, purchaseVars,
                      locals, mishaps

\* A request under way works on a purchase; a batch cancellation on its ids.
LocalsOK == \A r \in Requests : pc[r] # "idle" => buy[r] \in Purchases

TypedInv == RowsTyped /\ LocalsOK

LEMMA TypedInit == Init => TypedInv
  BY DEF Init, TypedInv, RowsTyped, LocalsOK, Places

\* What the two writes with a choice in them come to.
LEMMA InsertShape ==
  ASSUME NEW r \in Requests, CreateInsert(r)
  PROVE  /\ UNCHANGED <<lotVars, old, payment, transfer, delivered, cut>>
         /\ pc[r] = "insert" /\ Return(r)
         /\ \/ status' = status
            \/ \E q \in Purchases :
                 status[q] = "none" /\ status' = [status EXCEPT ![q] = "pending"]
<1>1. status' = status \/ \E q \in Purchases :
        status[q] = "none" /\ status' = [status EXCEPT ![q] = "pending"]
  BY Zenon DEF CreateInsert, On
<1>2. QED
  BY <1>1 DEF CreateInsert

LEMMA ReviveStatus ==
  ASSUME NEW r \in Requests, CheckRevive(r), TypedInv
  PROVE  \/ status' = status
         \/ /\ status[buy[r]] = "expired"
            /\ status' = [status EXCEPT ![buy[r]] = "pending"]
<1>1. CASE status[buy[r]] = "expired"
  <2>1. status' = [status EXCEPT ![buy[r]] = "pending"]
    BY <1>1 DEF CheckRevive
  <2>2. QED
    BY <1>1, <2>1
<1>2. CASE status[buy[r]] # "expired"
  <2>1. status' = [status EXCEPT ![buy[r]] = status[buy[r]]]
    BY <1>2 DEF CheckRevive
  <2>2. QED
    BY <2>1 DEF TypedInv, RowsTyped
<1>3. QED
  BY <1>1, <1>2

LEMMA ClaimStatus ==
  ASSUME NEW r \in Requests, CheckClaim(r), TypedInv
  PROVE  \/ status' = status
         \/ /\ status[buy[r]] = "pending"
            /\ status' = [status EXCEPT ![buy[r]] = "paid"]
<1>1. CASE status[buy[r]] = "pending"
  <2>1. status' = [status EXCEPT ![buy[r]] = "paid"]
    BY <1>1 DEF CheckClaim
  <2>2. QED
    BY <1>1, <2>1
<1>2. CASE status[buy[r]] # "pending"
  <2>1. status' = [status EXCEPT ![buy[r]] = status[buy[r]]]
    BY <1>2 DEF CheckClaim
  <2>2. QED
    BY <2>1 DEF TypedInv, RowsTyped
<1>3. QED
  BY <1>1, <1>2

\* A payload written back keeps the purchase paid for.
LEMMA PayloadShape ==
  ASSUME NEW p \in Purchases, TypedInv, PayloadBack(p)
  PROVE  /\ payment' \in [Purchases -> {"no", "found", "orphaned"}]
         /\ \A q \in Purchases : payment[q] # "no" => payment'[q] # "no"
         /\ \A q \in Purchases : payment'[q] # payment[q] => q = p
<1>1. payment' = payment \/ payment' = [payment EXCEPT ![p] = "found"]
  <2>1. CASE Exists(p)
    BY <2>1 DEF PayloadBack
  <2>2. CASE ~Exists(p)
    <3>1. payment' = [payment EXCEPT ![p] = payment[p]]
      BY <2>2 DEF PayloadBack
    <3>2. QED
      BY <3>1 DEF TypedInv, RowsTyped
  <2>3. QED
    BY <2>1, <2>2
<1>2. QED
  BY <1>1 DEF TypedInv, RowsTyped

LEMMA DeliverShape ==
  ASSUME NEW r \in Requests, DeliverFiles(r), TypedInv
  PROVE  /\ UNCHANGED <<lotVars, status, old, transfer>>
         /\ pc[r] = "deliver" /\ buy[r] \in Purchases /\ Return(r)
         /\ delivered' \in [Purchases -> BOOLEAN]
         /\ \A q \in Purchases : q # buy[r] => delivered'[q] = delivered[q]
         /\ payment' = payment \/ PayloadBack(buy[r])
         /\ \/ mishaps' = mishaps /\ delivered'[buy[r]] = Exists(buy[r])
            \/ delivered' = delivered /\ cut' = cut \cup {buy[r]}
<1>1. /\ UNCHANGED <<lotVars, status, old, transfer>>
      /\ pc[r] = "deliver" /\ buy[r] \in Purchases /\ Return(r)
  BY DEF DeliverFiles, TypedInv, LocalsOK
<1>2. delivered \in [Purchases -> BOOLEAN]
  BY DEF TypedInv, RowsTyped
<1>3. CASE /\ delivered' = [delivered EXCEPT ![buy[r]] = Exists(buy[r])]
           /\ PayloadBack(buy[r]) /\ mishaps' = mishaps
  <2>1. Exists(buy[r]) \in BOOLEAN
    BY DEF Exists
  <2>2. \A f \in [Purchases -> BOOLEAN], b \in BOOLEAN, x \in Purchases :
          /\ [f EXCEPT ![x] = b] \in [Purchases -> BOOLEAN]
          /\ [f EXCEPT ![x] = b][x] = b
          /\ \A q \in Purchases : q # x => [f EXCEPT ![x] = b][q] = f[q]
    BY Zenon
  <2>3. QED
    BY <1>1, <1>2, <1>3, <2>1, <2>2, Zenon
<1>4. CASE delivered' = delivered /\ cut' = cut \cup {buy[r]} /\ payment' = payment
  BY <1>1, <1>2, <1>4, Zenon
<1>5. \/ /\ delivered' = [delivered EXCEPT ![buy[r]] = Exists(buy[r])]
         /\ PayloadBack(buy[r]) /\ mishaps' = mishaps
      \/ delivered' = delivered /\ cut' = cut \cup {buy[r]} /\ payment' = payment
  BY Zenon DEF DeliverFiles, mishaps
<1>6. QED
  BY <1>3, <1>4, <1>5

\* A refresh keeps what was paid, and delivers nothing.
LEMMA RefreshShape ==
  ASSUME NEW r \in Requests, CreateRefresh(r), TypedInv
  PROVE  /\ UNCHANGED <<lotVars, status, old, transfer, faults>>
         /\ pc[r] = "refresh" /\ Return(r)
         /\ payment' \in [Purchases -> {"no", "found", "orphaned"}]
         /\ \A q \in Purchases : payment'[q] # "no" <=> payment[q] # "no"
         /\ delivered' \in [Purchases -> BOOLEAN]
         /\ \A q \in Purchases : delivered'[q] => delivered[q]
         /\ cut \subseteq cut'
         /\ \A q \in Purchases : delivered[q] /\ ~delivered'[q] => q \in cut'
<1> DEFINE p == buy[r]
<1>1. /\ UNCHANGED <<lotVars, status, old, transfer, faults>>
      /\ pc[r] = "refresh" /\ Return(r) /\ p \in Purchases
  BY DEF CreateRefresh, TypedInv, LocalsOK
<1>2. payment \in [Purchases -> {"no", "found", "orphaned"}]
      /\ delivered \in [Purchases -> BOOLEAN]
  BY DEF TypedInv, RowsTyped
<1>3. CASE Exists(p)
  <2>1. /\ payment' = [payment EXCEPT ![p] = IF @ = "found" THEN "orphaned" ELSE @]
        /\ delivered' = [delivered EXCEPT ![p] = FALSE]
        /\ cut' = IF delivered[p] THEN cut \cup {p} ELSE cut
    BY <1>3 DEF CreateRefresh
  <2>2. /\ payment' \in [Purchases -> {"no", "found", "orphaned"}]
        /\ \A q \in Purchases : payment'[q] # "no" <=> payment[q] # "no"
    <3>1. payment' = [payment EXCEPT ![p] = "orphaned"] \/ payment' = [payment EXCEPT ![p] = payment[p]]
      BY <2>1
    <3>2. CASE payment[p] = "found"
      BY <1>1, <1>2, <2>1, <3>2
    <3>3. CASE payment[p] # "found"
      <4>1. payment' = [payment EXCEPT ![p] = payment[p]]
        BY <2>1, <3>3
      <4>2. QED
        BY <1>2, <4>1
    <3>4. QED
      BY <3>2, <3>3
  <2>3. /\ delivered' \in [Purchases -> BOOLEAN]
        /\ \A q \in Purchases : delivered'[q] => delivered[q] /\ q # p
        /\ \A q \in Purchases : q # p => delivered'[q] = delivered[q]
    BY <1>2, <2>1
  <2>4. cut \subseteq cut' /\ (delivered[p] => p \in cut')
    BY <2>1
  <2>5. QED
    BY <1>1, <2>2, <2>3, <2>4
<1>4. CASE ~Exists(p)
  BY <1>1, <1>2, <1>4 DEF CreateRefresh
<1>5. QED
  BY <1>3, <1>4

LEMMA FinishPayment ==
  ASSUME NEW r \in Requests, Finish(r), TypedInv
  PROVE  payment' = payment \/ PayloadBack(buy[r])
BY Zenon DEF Finish

LEMMA TypedStep == TypedInv /\ [Next]_vars => TypedInv'
<1> SUFFICES ASSUME TypedInv, [Next]_vars PROVE TypedInv'
  OBVIOUS
<1>1. ASSUME NEW r \in Requests, NEW p \in Purchases, CreateRead(r, p)
      PROVE  TypedInv'
  BY <1>1 DEF CreateRead, Expire, Expirable, Overdue, TypedInv, RowsTyped, LocalsOK, Places
<1>2. ASSUME NEW r \in Requests, NEW p \in Purchases, CancelBatchRead(r, p)
      PROVE  TypedInv'
  BY <1>2 DEF CancelBatchRead, TypedInv, RowsTyped, LocalsOK, Places
<1>3. ASSUME NEW r \in Requests, NEW p \in Purchases, CheckRead(r, p)
      PROVE  TypedInv'
  BY <1>3 DEF CheckRead, Exists, TypedInv, RowsTyped, LocalsOK, Places
<1>4. ASSUME NEW r \in Requests, NEW l \in Lots, DeleteLotRead(r, l)
      PROVE  TypedInv'
  BY <1>4 DEF DeleteLotRead, Expire, Expirable, Overdue, On, TypedInv, RowsTyped, LocalsOK, Places
<1>5. ASSUME NEW r \in Requests, CreateOwn(r)
      PROVE  TypedInv'
  <2>1. /\ kind' \in [Lots -> Kinds]
        /\ item' \in [Lots -> {"published", "draft", "sold", "deleted"}]
        /\ good' \in [Lots -> BOOLEAN]
        /\ holder' \in [Lots -> Purchases \cup {Seller}]
        /\ given' \in [Lots -> SUBSET Purchases]
        /\ faults' \in 0 .. MaxFaults
    BY <1>5 DEF CreateOwn, Own, On, Exists, TypedInv, RowsTyped
  <2>2. /\ status' \in [Purchases -> {"none", "pending", "expired", "paid", "deleted"}]
        /\ old' \in [Purchases -> BOOLEAN]
        /\ payment' \in [Purchases -> {"no", "found", "orphaned"}]
    BY <1>5 DEF CreateOwn, Own, On, Exists, TypedInv, RowsTyped
  <2>3. /\ transfer' \in [Purchases -> {"pending", "completed", "failed"}]
        /\ delivered' \in [Purchases -> BOOLEAN]
    BY <1>5 DEF CreateOwn, Own, On, Exists, TypedInv, RowsTyped
  <2>4. pc' \in [Requests -> Places]
    BY <1>5 DEF CreateOwn, Own, On, Exists, TypedInv, RowsTyped, Places
  <2>5. buy' \in [Requests -> Purchases \cup {None}]
    BY <1>5 DEF CreateOwn, Own, On, Exists, TypedInv, RowsTyped
  <2>6. saw' \in [Requests -> {"none", "pending", "expired", "paid"}]
    BY <1>5 DEF CreateOwn, Own, On, Exists, TypedInv, RowsTyped
  <2>7. doomed' \in [Requests -> SUBSET Purchases]
    BY <1>5 DEF CreateOwn, Own, On, Exists, TypedInv, RowsTyped
  <2>8. kept' \in [Requests -> BOOLEAN]
    <3>1. kept' = kept \/ kept' = [kept EXCEPT ![r] = TRUE]
      BY <1>5, Zenon DEF CreateOwn, Own, On, Exists
    <3>2. QED
      BY <3>1 DEF TypedInv, RowsTyped
  <2>9. LocalsOK'
    BY <1>5 DEF CreateOwn, Own, On, Exists, TypedInv, RowsTyped, LocalsOK
  <2>10. QED
    BY <2>1, <2>2, <2>3, <2>4, <2>5, <2>6, <2>7, <2>8, <2>9 DEF TypedInv, RowsTyped
<1>6. ASSUME NEW r \in Requests, CreateRefresh(r)
      PROVE  TypedInv'
  <2>1. /\ kind' \in [Lots -> Kinds]
        /\ item' \in [Lots -> {"published", "draft", "sold", "deleted"}]
        /\ good' \in [Lots -> BOOLEAN]
        /\ holder' \in [Lots -> Purchases \cup {Seller}]
        /\ given' \in [Lots -> SUBSET Purchases]
        /\ faults' \in 0 .. MaxFaults
    BY <1>6 DEF CreateRefresh, TypedInv, RowsTyped
  <2>2. /\ status' \in [Purchases -> {"none", "pending", "expired", "paid", "deleted"}]
        /\ old' \in [Purchases -> BOOLEAN]
        /\ payment' \in [Purchases -> {"no", "found", "orphaned"}]
    <3>1. payment' \in [Purchases -> {"no", "found", "orphaned"}]
      BY <1>6, RefreshShape
    <3>2. UNCHANGED <<status, old>>
      BY <1>6 DEF CreateRefresh
    <3>3. QED
      BY <3>1, <3>2 DEF TypedInv, RowsTyped
  <2>3. /\ transfer' \in [Purchases -> {"pending", "completed", "failed"}]
        /\ delivered' \in [Purchases -> BOOLEAN]
    BY <1>6, RefreshShape DEF TypedInv, RowsTyped
  <2>4. pc' \in [Requests -> Places]
    BY <1>6 DEF CreateRefresh, TypedInv, RowsTyped, Places
  <2>5. buy' \in [Requests -> Purchases \cup {None}]
    BY <1>6 DEF CreateRefresh, TypedInv, RowsTyped
  <2>6. saw' \in [Requests -> {"none", "pending", "expired", "paid"}]
    BY <1>6 DEF CreateRefresh, TypedInv, RowsTyped
  <2>7. doomed' \in [Requests -> SUBSET Purchases]
    BY <1>6 DEF CreateRefresh, TypedInv, RowsTyped
  <2>8. kept' \in [Requests -> BOOLEAN]
    <3>1. kept' = kept \/ kept' = [kept EXCEPT ![r] = TRUE]
      BY <1>6, Zenon DEF CreateRefresh
    <3>2. QED
      BY <3>1 DEF TypedInv, RowsTyped
  <2>9. LocalsOK'
    BY <1>6 DEF CreateRefresh, TypedInv, RowsTyped, LocalsOK
  <2>10. QED
    BY <2>1, <2>2, <2>3, <2>4, <2>5, <2>6, <2>7, <2>8, <2>9 DEF TypedInv, RowsTyped
<1>7. ASSUME NEW r \in Requests, CreateInsert(r)
      PROVE  TypedInv'
  <2>1. /\ kind' \in [Lots -> Kinds]
        /\ item' \in [Lots -> {"published", "draft", "sold", "deleted"}]
        /\ good' \in [Lots -> BOOLEAN]
        /\ holder' \in [Lots -> Purchases \cup {Seller}]
        /\ given' \in [Lots -> SUBSET Purchases]
        /\ faults' \in 0 .. MaxFaults
    BY <1>7 DEF CreateInsert, On, TypedInv, RowsTyped
  <2>2. /\ status' \in [Purchases -> {"none", "pending", "expired", "paid", "deleted"}]
        /\ old' \in [Purchases -> BOOLEAN]
        /\ payment' \in [Purchases -> {"no", "found", "orphaned"}]
    BY <1>7, InsertShape DEF TypedInv, RowsTyped
  <2>3. /\ transfer' \in [Purchases -> {"pending", "completed", "failed"}]
        /\ delivered' \in [Purchases -> BOOLEAN]
    BY <1>7 DEF CreateInsert, On, TypedInv, RowsTyped
  <2>4. pc' \in [Requests -> Places]
    BY <1>7 DEF CreateInsert, On, TypedInv, RowsTyped, Places
  <2>5. buy' \in [Requests -> Purchases \cup {None}]
    BY <1>7 DEF CreateInsert, On, TypedInv, RowsTyped
  <2>6. saw' \in [Requests -> {"none", "pending", "expired", "paid"}]
    BY <1>7 DEF CreateInsert, On, TypedInv, RowsTyped
  <2>7. doomed' \in [Requests -> SUBSET Purchases]
    BY <1>7 DEF CreateInsert, On, TypedInv, RowsTyped
  <2>8. kept' \in [Requests -> BOOLEAN]
    <3>1. kept' = kept \/ kept' = [kept EXCEPT ![r] = TRUE]
      BY <1>7, Zenon DEF CreateInsert, On
    <3>2. QED
      BY <3>1 DEF TypedInv, RowsTyped
  <2>9. LocalsOK'
    BY <1>7 DEF CreateInsert, On, TypedInv, RowsTyped, LocalsOK
  <2>10. QED
    BY <2>1, <2>2, <2>3, <2>4, <2>5, <2>6, <2>7, <2>8, <2>9 DEF TypedInv, RowsTyped
<1>8. ASSUME NEW r \in Requests, DeleteRows(r)
      PROVE  TypedInv'
  <2>1. /\ kind' \in [Lots -> Kinds]
        /\ item' \in [Lots -> {"published", "draft", "sold", "deleted"}]
        /\ good' \in [Lots -> BOOLEAN]
        /\ holder' \in [Lots -> Purchases \cup {Seller}]
        /\ given' \in [Lots -> SUBSET Purchases]
        /\ faults' \in 0 .. MaxFaults
    BY <1>8 DEF DeleteRows, TypedInv, RowsTyped
  <2>2. /\ status' \in [Purchases -> {"none", "pending", "expired", "paid", "deleted"}]
        /\ old' \in [Purchases -> BOOLEAN]
        /\ payment' \in [Purchases -> {"no", "found", "orphaned"}]
    BY <1>8 DEF DeleteRows, TypedInv, RowsTyped
  <2>3. /\ transfer' \in [Purchases -> {"pending", "completed", "failed"}]
        /\ delivered' \in [Purchases -> BOOLEAN]
    BY <1>8 DEF DeleteRows, TypedInv, RowsTyped
  <2>4. pc' \in [Requests -> Places]
    BY <1>8 DEF DeleteRows, TypedInv, RowsTyped, Places
  <2>5. buy' \in [Requests -> Purchases \cup {None}]
    BY <1>8 DEF DeleteRows, TypedInv, RowsTyped
  <2>6. saw' \in [Requests -> {"none", "pending", "expired", "paid"}]
    BY <1>8 DEF DeleteRows, TypedInv, RowsTyped
  <2>7. doomed' \in [Requests -> SUBSET Purchases]
    BY <1>8 DEF DeleteRows, TypedInv, RowsTyped
  <2>8. kept' \in [Requests -> BOOLEAN]
    <3>1. kept' = kept \/ kept' = [kept EXCEPT ![r] = TRUE]
      BY <1>8, Zenon DEF DeleteRows
    <3>2. QED
      BY <3>1 DEF TypedInv, RowsTyped
  <2>9. LocalsOK'
    <3>1. CASE kept[r]
      <4>1. Return(r)
        BY <1>8, <3>1 DEF DeleteRows
      <4>2. QED
        BY <4>1 DEF TypedInv, RowsTyped, LocalsOK
    <3>2. CASE ~kept[r]
      <4>1. pc' = [pc EXCEPT ![r] = "unlist"] /\ UNCHANGED <<buy, kept>>
        BY <1>8, <3>2 DEF DeleteRows
      <4>2. buy[r] \in Purchases
        BY <1>8 DEF DeleteRows, TypedInv, LocalsOK
      <4>3. QED
        BY <4>1, <4>2 DEF TypedInv, RowsTyped, LocalsOK
    <3>3. QED
      BY <3>1, <3>2
  <2>10. QED
    BY <2>1, <2>2, <2>3, <2>4, <2>5, <2>6, <2>7, <2>8, <2>9 DEF TypedInv, RowsTyped
<1>9. ASSUME NEW r \in Requests, DeleteLot(r)
      PROVE  TypedInv'
  <2>1. /\ kind' \in [Lots -> Kinds]
        /\ item' \in [Lots -> {"published", "draft", "sold", "deleted"}]
        /\ good' \in [Lots -> BOOLEAN]
        /\ holder' \in [Lots -> Purchases \cup {Seller}]
        /\ given' \in [Lots -> SUBSET Purchases]
        /\ faults' \in 0 .. MaxFaults
    BY <1>9 DEF DeleteLot, TypedInv, RowsTyped
  <2>2. /\ status' \in [Purchases -> {"none", "pending", "expired", "paid", "deleted"}]
        /\ old' \in [Purchases -> BOOLEAN]
        /\ payment' \in [Purchases -> {"no", "found", "orphaned"}]
    BY <1>9 DEF DeleteLot, TypedInv, RowsTyped
  <2>3. /\ transfer' \in [Purchases -> {"pending", "completed", "failed"}]
        /\ delivered' \in [Purchases -> BOOLEAN]
    BY <1>9 DEF DeleteLot, TypedInv, RowsTyped
  <2>4. pc' \in [Requests -> Places]
    BY <1>9 DEF DeleteLot, TypedInv, RowsTyped, Places
  <2>5. buy' \in [Requests -> Purchases \cup {None}]
    BY <1>9 DEF DeleteLot, TypedInv, RowsTyped
  <2>6. saw' \in [Requests -> {"none", "pending", "expired", "paid"}]
    BY <1>9 DEF DeleteLot, TypedInv, RowsTyped
  <2>7. doomed' \in [Requests -> SUBSET Purchases]
    BY <1>9 DEF DeleteLot, TypedInv, RowsTyped
  <2>8. kept' \in [Requests -> BOOLEAN]
    <3>1. kept' = kept \/ kept' = [kept EXCEPT ![r] = TRUE]
      BY <1>9, Zenon DEF DeleteLot
    <3>2. QED
      BY <3>1 DEF TypedInv, RowsTyped
  <2>9. LocalsOK'
    BY <1>9 DEF DeleteLot, TypedInv, RowsTyped, LocalsOK
  <2>10. QED
    BY <2>1, <2>2, <2>3, <2>4, <2>5, <2>6, <2>7, <2>8, <2>9 DEF TypedInv, RowsTyped
<1>10. ASSUME NEW r \in Requests, CheckExpires(r)
      PROVE  TypedInv'
  BY <1>10 DEF CheckExpires, Expire, Expirable, Overdue, TypedInv, RowsTyped, LocalsOK, Places
<1>11. ASSUME NEW r \in Requests, CheckItem(r)
      PROVE  TypedInv'
  <2>1. /\ kind' \in [Lots -> Kinds]
        /\ item' \in [Lots -> {"published", "draft", "sold", "deleted"}]
        /\ good' \in [Lots -> BOOLEAN]
        /\ holder' \in [Lots -> Purchases \cup {Seller}]
        /\ given' \in [Lots -> SUBSET Purchases]
        /\ faults' \in 0 .. MaxFaults
    BY <1>11 DEF CheckItem, TypedInv, RowsTyped
  <2>2. /\ status' \in [Purchases -> {"none", "pending", "expired", "paid", "deleted"}]
        /\ old' \in [Purchases -> BOOLEAN]
        /\ payment' \in [Purchases -> {"no", "found", "orphaned"}]
    BY <1>11 DEF CheckItem, TypedInv, RowsTyped
  <2>3. /\ transfer' \in [Purchases -> {"pending", "completed", "failed"}]
        /\ delivered' \in [Purchases -> BOOLEAN]
    BY <1>11 DEF CheckItem, TypedInv, RowsTyped
  <2>4. pc' \in [Requests -> Places]
    BY <1>11 DEF CheckItem, TypedInv, RowsTyped, Places
  <2>5. buy' \in [Requests -> Purchases \cup {None}]
    BY <1>11 DEF CheckItem, TypedInv, RowsTyped
  <2>6. saw' \in [Requests -> {"none", "pending", "expired", "paid"}]
    BY <1>11 DEF CheckItem, TypedInv, RowsTyped
  <2>7. doomed' \in [Requests -> SUBSET Purchases]
    BY <1>11 DEF CheckItem, TypedInv, RowsTyped
  <2>8. kept' \in [Requests -> BOOLEAN]
    <3>1. kept' = kept \/ kept' = [kept EXCEPT ![r] = TRUE]
      BY <1>11, Zenon DEF CheckItem
    <3>2. QED
      BY <3>1 DEF TypedInv, RowsTyped
  <2>9. LocalsOK'
    BY <1>11 DEF CheckItem, TypedInv, RowsTyped, LocalsOK
  <2>10. QED
    BY <2>1, <2>2, <2>3, <2>4, <2>5, <2>6, <2>7, <2>8, <2>9 DEF TypedInv, RowsTyped
<1>12. ASSUME NEW r \in Requests, CheckRefund(r)
      PROVE  TypedInv'
  BY <1>12 DEF CheckRefund, TypedInv, RowsTyped, LocalsOK, Places
<1>13. ASSUME NEW r \in Requests, CheckRevive(r)
      PROVE  TypedInv'
  <2>1. /\ kind' \in [Lots -> Kinds]
        /\ item' \in [Lots -> {"published", "draft", "sold", "deleted"}]
        /\ good' \in [Lots -> BOOLEAN]
        /\ holder' \in [Lots -> Purchases \cup {Seller}]
        /\ given' \in [Lots -> SUBSET Purchases]
        /\ faults' \in 0 .. MaxFaults
    BY <1>13 DEF CheckRevive, TypedInv, RowsTyped
  <2>2. /\ status' \in [Purchases -> {"none", "pending", "expired", "paid", "deleted"}]
        /\ old' \in [Purchases -> BOOLEAN]
        /\ payment' \in [Purchases -> {"no", "found", "orphaned"}]
    <3>1. status' \in [Purchases -> {"none", "pending", "expired", "paid", "deleted"}]
      BY <1>13, ReviveStatus DEF TypedInv, RowsTyped
    <3>2. UNCHANGED <<old, payment>>
      BY <1>13 DEF CheckRevive
    <3>3. QED
      BY <3>1, <3>2 DEF TypedInv, RowsTyped
  <2>3. /\ transfer' \in [Purchases -> {"pending", "completed", "failed"}]
        /\ delivered' \in [Purchases -> BOOLEAN]
    BY <1>13 DEF CheckRevive, TypedInv, RowsTyped
  <2>4. pc' \in [Requests -> Places]
    BY <1>13 DEF CheckRevive, TypedInv, RowsTyped, Places
  <2>5. buy' \in [Requests -> Purchases \cup {None}]
    BY <1>13 DEF CheckRevive, TypedInv, RowsTyped
  <2>6. saw' \in [Requests -> {"none", "pending", "expired", "paid"}]
    BY <1>13 DEF CheckRevive, TypedInv, RowsTyped
  <2>7. doomed' \in [Requests -> SUBSET Purchases]
    BY <1>13 DEF CheckRevive, TypedInv, RowsTyped
  <2>8. kept' \in [Requests -> BOOLEAN]
    <3>1. kept' = kept \/ kept' = [kept EXCEPT ![r] = TRUE]
      BY <1>13, Zenon DEF CheckRevive
    <3>2. QED
      BY <3>1 DEF TypedInv, RowsTyped
  <2>9. LocalsOK'
    BY <1>13 DEF CheckRevive, TypedInv, RowsTyped, LocalsOK
  <2>10. QED
    BY <2>1, <2>2, <2>3, <2>4, <2>5, <2>6, <2>7, <2>8, <2>9 DEF TypedInv, RowsTyped
<1>14. ASSUME NEW r \in Requests, CheckClaim(r)
      PROVE  TypedInv'
  <2>1. /\ kind' \in [Lots -> Kinds]
        /\ item' \in [Lots -> {"published", "draft", "sold", "deleted"}]
        /\ good' \in [Lots -> BOOLEAN]
        /\ holder' \in [Lots -> Purchases \cup {Seller}]
        /\ given' \in [Lots -> SUBSET Purchases]
        /\ faults' \in 0 .. MaxFaults
    BY <1>14 DEF CheckClaim, ClaimWon, TypedInv, RowsTyped
  <2>2. /\ status' \in [Purchases -> {"none", "pending", "expired", "paid", "deleted"}]
        /\ old' \in [Purchases -> BOOLEAN]
        /\ payment' \in [Purchases -> {"no", "found", "orphaned"}]
    <3>1. status' \in [Purchases -> {"none", "pending", "expired", "paid", "deleted"}]
      BY <1>14, ClaimStatus DEF TypedInv, RowsTyped
    <3>2. UNCHANGED <<old, payment>>
      BY <1>14 DEF CheckClaim
    <3>3. QED
      BY <3>1, <3>2 DEF TypedInv, RowsTyped
  <2>3. /\ transfer' \in [Purchases -> {"pending", "completed", "failed"}]
        /\ delivered' \in [Purchases -> BOOLEAN]
    BY <1>14 DEF CheckClaim, ClaimWon, TypedInv, RowsTyped
  <2>4. pc' \in [Requests -> Places]
    BY <1>14 DEF CheckClaim, ClaimWon, TypedInv, RowsTyped, Places
  <2>5. buy' \in [Requests -> Purchases \cup {None}]
    BY <1>14 DEF CheckClaim, ClaimWon, TypedInv, RowsTyped
  <2>6. saw' \in [Requests -> {"none", "pending", "expired", "paid"}]
    BY <1>14 DEF CheckClaim, ClaimWon, TypedInv, RowsTyped
  <2>7. doomed' \in [Requests -> SUBSET Purchases]
    BY <1>14 DEF CheckClaim, ClaimWon, TypedInv, RowsTyped
  <2>8. kept' \in [Requests -> BOOLEAN]
    <3>1. kept' = kept \/ kept' = [kept EXCEPT ![r] = TRUE]
      BY <1>14, Zenon DEF CheckClaim, ClaimWon
    <3>2. QED
      BY <3>1 DEF TypedInv, RowsTyped
  <2>9. LocalsOK'
    BY <1>14 DEF CheckClaim, ClaimWon, TypedInv, RowsTyped, LocalsOK
  <2>10. QED
    BY <2>1, <2>2, <2>3, <2>4, <2>5, <2>6, <2>7, <2>8, <2>9 DEF TypedInv, RowsTyped
<1>15. ASSUME NEW r \in Requests, CheckRoute(r)
      PROVE  TypedInv'
  BY <1>15 DEF CheckRoute, TypedInv, RowsTyped, LocalsOK, Places
<1>16. ASSUME NEW r \in Requests, LotSold(r)
      PROVE  TypedInv'
  BY <1>16 DEF LotSold, Fault, TypedInv, RowsTyped, LocalsOK, Places
<1>17. ASSUME NEW r \in Requests, DeliverFiles(r)
      PROVE  TypedInv'
  <2>1. /\ kind' \in [Lots -> Kinds]
        /\ item' \in [Lots -> {"published", "draft", "sold", "deleted"}]
        /\ good' \in [Lots -> BOOLEAN]
        /\ holder' \in [Lots -> Purchases \cup {Seller}]
        /\ given' \in [Lots -> SUBSET Purchases]
        /\ faults' \in 0 .. MaxFaults
    BY <1>17 DEF DeliverFiles, Exists, Fault, TypedInv, RowsTyped
  <2>2. /\ status' \in [Purchases -> {"none", "pending", "expired", "paid", "deleted"}]
        /\ old' \in [Purchases -> BOOLEAN]
        /\ payment' \in [Purchases -> {"no", "found", "orphaned"}]
    <3>1. payment' \in [Purchases -> {"no", "found", "orphaned"}]
      <4>1. (payment' = payment \/ PayloadBack(buy[r])) /\ buy[r] \in Purchases
        BY <1>17, DeliverShape, Zenon
      <4>2. QED
        BY <4>1, PayloadShape DEF TypedInv, RowsTyped
    <3>2. UNCHANGED <<status, old>>
      BY <1>17, DeliverShape, Zenon
    <3>3. QED
      BY <3>1, <3>2 DEF TypedInv, RowsTyped
  <2>3. /\ transfer' \in [Purchases -> {"pending", "completed", "failed"}]
        /\ delivered' \in [Purchases -> BOOLEAN]
    BY <1>17, DeliverShape DEF TypedInv, RowsTyped
  <2>4. pc' \in [Requests -> Places]
    BY <1>17 DEF DeliverFiles, Exists, Fault, TypedInv, RowsTyped, Places
  <2>5. buy' \in [Requests -> Purchases \cup {None}]
    BY <1>17 DEF DeliverFiles, Exists, Fault, TypedInv, RowsTyped
  <2>6. saw' \in [Requests -> {"none", "pending", "expired", "paid"}]
    BY <1>17 DEF DeliverFiles, Exists, Fault, TypedInv, RowsTyped
  <2>7. doomed' \in [Requests -> SUBSET Purchases]
    BY <1>17 DEF DeliverFiles, Exists, Fault, TypedInv, RowsTyped
  <2>8. kept' \in [Requests -> BOOLEAN]
    <3>1. kept' = kept \/ kept' = [kept EXCEPT ![r] = TRUE]
      BY <1>17, Zenon DEF DeliverFiles, Exists, Fault
    <3>2. QED
      BY <3>1 DEF TypedInv, RowsTyped
  <2>9. LocalsOK'
    BY <1>17 DEF DeliverFiles, Exists, Fault, TypedInv, RowsTyped, LocalsOK
  <2>10. QED
    BY <2>1, <2>2, <2>3, <2>4, <2>5, <2>6, <2>7, <2>8, <2>9 DEF TypedInv, RowsTyped
<1>18. ASSUME NEW r \in Requests, PickAccount(r)
      PROVE  TypedInv'
  BY <1>18 DEF PickAccount, TypedInv, RowsTyped, LocalsOK, Places
<1>19. ASSUME NEW r \in Requests, GiveAsset(r)
      PROVE  TypedInv'
  BY <1>19 DEF GiveAsset, Takes, TypedInv, RowsTyped, LocalsOK, Places
<1>20. ASSUME NEW r \in Requests, GiveFails(r)
      PROVE  TypedInv'
  BY <1>20 DEF GiveFails, Fault, TypedInv, RowsTyped, LocalsOK, Places
<1>21. ASSUME NEW r \in Requests, Finish(r)
      PROVE  TypedInv'
  <2>1. buy[r] \in Purchases /\ UNCHANGED <<lotVars, status, old, delivered>> /\ Return(r)
    BY <1>21 DEF Finish, TypedInv, LocalsOK
  <2>2. payment' \in [Purchases -> {"no", "found", "orphaned"}]
    BY <1>21, <2>1, FinishPayment, PayloadShape DEF TypedInv, RowsTyped
  <2>3. transfer' \in [Purchases -> {"pending", "completed", "failed"}]
    BY <1>21 DEF Finish, Exists, TypedInv, RowsTyped
  <2>4. faults' \in 0 .. MaxFaults
    BY <1>21 DEF Finish, Fault, TypedInv, RowsTyped
  <2>5. /\ pc' \in [Requests -> Places]
        /\ buy' \in [Requests -> Purchases \cup {None}]
        /\ saw' \in [Requests -> {"none", "pending", "expired", "paid"}]
        /\ doomed' \in [Requests -> SUBSET Purchases]
        /\ LocalsOK'
    BY <2>1 DEF TypedInv, RowsTyped, LocalsOK, Places
  <2>6. kept' \in [Requests -> BOOLEAN]
    BY <2>1 DEF TypedInv, RowsTyped
  <2>7. QED
    BY <2>1, <2>2, <2>3, <2>4, <2>5, <2>6 DEF TypedInv, RowsTyped
<1>22. ASSUME NEW p \in Purchases, Cancel(p)
      PROVE  TypedInv'
  BY <1>22 DEF Cancel, TypedInv, RowsTyped, LocalsOK, Places
<1>23. ASSUME NEW p \in Purchases, Pay(p)
      PROVE  TypedInv'
  BY <1>23 DEF Pay, TypedInv, RowsTyped, LocalsOK, Places
<1>24. ASSUME NEW p \in Purchases, Ages(p)
      PROVE  TypedInv'
  BY <1>24 DEF Ages, TypedInv, RowsTyped, LocalsOK, Places
<1>25. ASSUME NEW l \in Lots, Unpublish(l)
      PROVE  TypedInv'
  BY <1>25 DEF Unpublish, TypedInv, RowsTyped, LocalsOK, Places
<1>26. ASSUME NEW l \in Lots, Quarantine(l)
      PROVE  TypedInv'
  BY <1>26 DEF Quarantine, TypedInv, RowsTyped, LocalsOK, Places
<1>27. ASSUME NEW l \in Lots, Restore(l)
      PROVE  TypedInv'
  BY <1>27 DEF Restore, TypedInv, RowsTyped, LocalsOK, Places
<1>28. ASSUME ExpiryJob
      PROVE  TypedInv'
  BY <1>28 DEF ExpiryJob, Expire, Expirable, Overdue, TypedInv, RowsTyped, LocalsOK, Places
<1>29. ASSUME Restart
      PROVE  TypedInv'
  BY <1>29 DEF Restart, LocalsIdle, Fault, TypedInv, RowsTyped, LocalsOK, Places
<1>30. ASSUME UNCHANGED vars PROVE TypedInv'
  BY <1>30 DEF vars, TypedInv, RowsTyped, LocalsOK
<1>31. QED
  BY <1>1, <1>2, <1>3, <1>4, <1>5, <1>6, <1>7, <1>8, <1>9, <1>10, <1>11, <1>12, <1>13, <1>14, <1>15, <1>16, <1>17, <1>18, <1>19, <1>20, <1>21, <1>22, <1>23, <1>24, <1>25, <1>26, <1>27, <1>28, <1>29, <1>30 DEF Next, RequestStep

\* The histories name lots and purchases of the model.
LEMMA HistoryStep ==
  TypedInv /\ TypeOK /\ [Next]_vars =>
    (contested \subseteq Lots /\ cut \subseteq Purchases)'
<1> SUFFICES ASSUME TypedInv, TypeOK, [Next]_vars
             PROVE  contested' \subseteq Lots /\ cut' \subseteq Purchases
  OBVIOUS
<1>1. \A r \in Requests : pc[r] # "idle" => buy[r] \in Purchases /\ LotOf[buy[r]] \in Lots
  BY ShopConstants DEF TypedInv, LocalsOK
<1>2. contested \subseteq Lots /\ cut \subseteq Purchases
  BY DEF TypeOK
<1>3. ASSUME NEW r \in Requests, RequestStep(r)
      PROVE  contested' \subseteq Lots /\ cut' \subseteq Purchases
  <2>1. CASE CreateOwn(r) \/ CreateInsert(r) \/ DeleteRows(r) \/ DeleteLot(r)
             \/ CheckExpires(r) \/ CheckItem(r) \/ CheckRefund(r) \/ CheckRevive(r)
    BY <1>2, <2>1, Zenon
    DEF CreateOwn, CreateInsert, DeleteRows, DeleteLot, CheckExpires, CheckItem,
        CheckRefund, CheckRevive
  <2>2. CASE CheckClaim(r) \/ CheckRoute(r) \/ LotSold(r) \/ GiveAsset(r) \/ GiveFails(r)
    BY <1>2, <2>2, Zenon DEF CheckClaim, CheckRoute, LotSold, GiveAsset, GiveFails
  <2>3. CASE CreateRefresh(r) \/ DeliverFiles(r) \/ Finish(r)
    <3>1. buy[r] \in Purchases
      BY <1>1, <2>3 DEF CreateRefresh, DeliverFiles, Finish
    <3>2. contested' = contested
      BY <2>3, Zenon DEF CreateRefresh, DeliverFiles, Finish
    <3>3. cut' = cut \/ cut' = cut \cup {buy[r]}
      BY <2>3, Zenon DEF CreateRefresh, DeliverFiles, Finish
    <3>4. QED
      BY <1>2, <3>1, <3>2, <3>3
  <2>4. CASE PickAccount(r)
    <3>1. LotOf[buy[r]] \in Lots
      BY <1>1, <2>4 DEF PickAccount
    <3>2. cut' = cut /\ (contested' = contested \/ contested' = contested \cup {LotOf[buy[r]]})
      BY <2>4, Zenon DEF PickAccount
    <3>3. QED
      BY <1>2, <3>1, <3>2
  <2>5. QED
    BY <1>3, <2>1, <2>2, <2>3, <2>4 DEF RequestStep
<1>4. CASE Restart
  <2>1. contested' = contested
    BY <1>4 DEF Restart
  <2>2. cut' = cut \cup {buy[r] : r \in {q \in Requests : pc[q] \in HandOver}}
    BY <1>4 DEF Restart
  <2>3. \A r \in {q \in Requests : pc[q] \in HandOver} : buy[r] \in Purchases
    BY <1>1 DEF HandOver
  <2>4. QED
    BY <1>2, <2>1, <2>2, <2>3
<1>5. ASSUME NEW r \in Requests, NEW p \in Purchases,
             CreateRead(r, p) \/ CancelBatchRead(r, p) \/ CheckRead(r, p)
      PROVE  contested' \subseteq Lots /\ cut' \subseteq Purchases
  BY <1>2, <1>5, Zenon DEF CreateRead, CancelBatchRead, CheckRead
<1>6. ASSUME NEW r \in Requests, NEW l \in Lots, DeleteLotRead(r, l)
      PROVE  contested' \subseteq Lots /\ cut' \subseteq Purchases
  BY <1>2, <1>6, Zenon DEF DeleteLotRead
<1>7. ASSUME NEW p \in Purchases, Cancel(p) \/ Pay(p) \/ Ages(p)
      PROVE  contested' \subseteq Lots /\ cut' \subseteq Purchases
  BY <1>2, <1>7, Zenon DEF Cancel, Pay, Ages
<1>8. ASSUME NEW l \in Lots, Unpublish(l) \/ Quarantine(l) \/ Restore(l)
      PROVE  contested' \subseteq Lots /\ cut' \subseteq Purchases
  BY <1>2, <1>8, Zenon DEF Unpublish, Quarantine, Restore
<1>9. CASE ExpiryJob \/ UNCHANGED vars
  BY <1>2, <1>9, Zenon DEF ExpiryJob, vars
<1>10. QED
  BY <1>3, <1>4, <1>5, <1>6, <1>7, <1>8, <1>9 DEF Next

\* Every variable keeps its type.
THEOREM TypeCorrect == Spec => []TypeOK
<1>1. Init => TypedInv /\ TypeOK
  BY TypedInit DEF Init, TypedInv, TypeOK
<1>2. (TypedInv /\ TypeOK) /\ [Next]_vars => (TypedInv /\ TypeOK)'
  BY TypedStep, HistoryStep DEF TypedInv, TypeOK
<1>3. QED
  BY <1>1, <1>2, PTL DEF Spec
-----------------------------------------------------------------------------
(***************************************************************************)
(* What is handed over is paid for.                                        *)
(***************************************************************************)
Sure == {"paid", "deleted"}
Searched == {"item", "refund", "revive", "claim"} \cup HandOver

\* A check past the search has found the transfer, and past the claim the
\* purchase is booked.
HandedInv ==
  /\ HandedIsPaid
  /\ \A r \in Requests : pc[r] \in Searched => payment[buy[r]] # "no"
  /\ \A r \in Requests : pc[r] \in HandOver => status[buy[r]] \in Sure

LEMMA HandedInit == Init => HandedInv
  BY DEF Init, HandedInv, HandedIsPaid, Searched, HandOver

LEMMA HandedStep == TypedInv /\ HandedInv /\ [Next]_vars => HandedInv'
<1> SUFFICES ASSUME TypedInv /\ HandedInv, [Next]_vars PROVE HandedInv'
  OBVIOUS
<1>1. ASSUME NEW r \in Requests, NEW p \in Purchases, CreateRead(r, p)
      PROVE  HandedInv'
  BY <1>1 DEF CreateRead, Expire, Expirable, Overdue, TypedInv, RowsTyped, LocalsOK, HandedInv, HandedIsPaid, Searched, HandOver, Sure
<1>2. ASSUME NEW r \in Requests, NEW p \in Purchases, CancelBatchRead(r, p)
      PROVE  HandedInv'
  BY <1>2 DEF CancelBatchRead, TypedInv, RowsTyped, LocalsOK, HandedInv, HandedIsPaid, Searched, HandOver, Sure
<1>3. ASSUME NEW r \in Requests, NEW p \in Purchases, CheckRead(r, p)
      PROVE  HandedInv'
  BY <1>3 DEF CheckRead, Exists, TypedInv, RowsTyped, LocalsOK, HandedInv, HandedIsPaid, Searched, HandOver, Sure
<1>4. ASSUME NEW r \in Requests, NEW l \in Lots, DeleteLotRead(r, l)
      PROVE  HandedInv'
  BY <1>4 DEF DeleteLotRead, Expire, Expirable, Overdue, On, TypedInv, RowsTyped, LocalsOK, HandedInv, HandedIsPaid, Searched, HandOver, Sure
<1>5. ASSUME NEW r \in Requests, CreateOwn(r)
      PROVE  HandedInv'
  <2>1. UNCHANGED <<status, payment, transfer, delivered, given>>
    BY <1>5 DEF CreateOwn, lotVars, purchaseVars
  <2>2. \A s \in Requests : s # r => pc'[s] = pc[s] /\ buy'[s] = buy[s]
    BY <1>5 DEF CreateOwn, Goto, Return, TypedInv, RowsTyped
  <2>3. pc'[r] \in {"idle", "refresh", "insert"}
    BY <1>5 DEF CreateOwn, Goto, Return, TypedInv, RowsTyped
  <2>4. pc'[r] \notin Searched /\ pc'[r] \notin HandOver
    BY <2>3 DEF Searched, HandOver
  <2>5. QED
    BY <2>1, <2>2, <2>4 DEF HandedInv, HandedIsPaid
<1>6. ASSUME NEW r \in Requests, CreateRefresh(r)
      PROVE  HandedInv'
  <2>1. /\ UNCHANGED <<status, transfer, given>>
        /\ \A q \in Purchases : payment'[q] # "no" <=> payment[q] # "no"
        /\ \A q \in Purchases : delivered'[q] => delivered[q]
    BY <1>6, RefreshShape
  <2>2. HandedIsPaid'
    BY <2>1 DEF HandedInv, HandedIsPaid
  <2>3. \A s \in Requests : pc'[s] # "idle" => pc'[s] = pc[s] /\ buy'[s] = buy[s] /\ buy[s] \in Purchases
    BY <1>6, RefreshShape DEF TypedInv, RowsTyped, LocalsOK
  <2>4. QED
    BY <2>1, <2>2, <2>3 DEF HandedInv, Searched, HandOver
<1>7. ASSUME NEW r \in Requests, CreateInsert(r)
      PROVE  HandedInv'
  <2>1. ASSUME NEW q \in Purchases, status[q] \in Sure PROVE status'[q] = status[q]
    BY <1>7, <2>1, InsertShape DEF TypedInv, RowsTyped, Sure
  <2>2. HandedIsPaid'
    BY <1>7, <2>1, InsertShape DEF TypedInv, RowsTyped, HandedInv, HandedIsPaid, Sure
  <2>3. \A s \in Requests : pc'[s] \in Searched => pc[s] \in Searched /\ buy'[s] = buy[s]
    BY <1>7, InsertShape DEF Searched, HandOver, TypedInv, RowsTyped
  <2>4. \A s \in Requests : pc'[s] \in HandOver =>
          pc[s] \in HandOver /\ buy[s] \in Purchases /\ buy'[s] = buy[s]
    BY <1>7, InsertShape DEF HandOver, TypedInv, RowsTyped, LocalsOK
  <2>5. payment' = payment
    BY <1>7, InsertShape
  <2>6. \A s \in Requests : pc'[s] \in Searched => payment'[buy'[s]] # "no"
    BY <2>3, <2>5 DEF HandedInv
  <2>7. \A s \in Requests : pc'[s] \in HandOver => status'[buy'[s]] \in Sure
    BY <2>1, <2>4 DEF HandedInv
  <2>8. QED
    BY <2>2, <2>6, <2>7 DEF HandedInv
<1>8. ASSUME NEW r \in Requests, DeleteRows(r)
      PROVE  HandedInv'
  <2>1. \A q \in Purchases : status[q] \in Sure => status'[q] \in Sure
    BY <1>8 DEF DeleteRows, TypedInv, RowsTyped, Sure
  <2>2. UNCHANGED <<payment, transfer, delivered, given>>
    BY <1>8 DEF DeleteRows, lotVars
  <2>3. \A s \in Requests : pc'[s] \in Searched =>
          pc[s] = pc'[s] /\ buy[s] \in Purchases /\ buy'[s] = buy[s]
    BY <1>8 DEF DeleteRows, Return, Searched, HandOver, TypedInv, RowsTyped, LocalsOK
  <2>4. HandOver \subseteq Searched
    BY DEF Searched
  <2>5. QED
    BY <2>1, <2>2, <2>3, <2>4 DEF HandedInv, HandedIsPaid, Sure
<1>9. ASSUME NEW r \in Requests, DeleteLot(r)
      PROVE  HandedInv'
  BY <1>9 DEF DeleteLot, TypedInv, RowsTyped, LocalsOK, HandedInv, HandedIsPaid, Searched, HandOver, Sure
<1>10. ASSUME NEW r \in Requests, CheckExpires(r)
      PROVE  HandedInv'
  BY <1>10 DEF CheckExpires, Expire, Expirable, Overdue, TypedInv, RowsTyped, LocalsOK, HandedInv, HandedIsPaid, Searched, HandOver, Sure
<1>11. ASSUME NEW r \in Requests, CheckItem(r)
      PROVE  HandedInv'
  BY <1>11 DEF CheckItem, TypedInv, RowsTyped, LocalsOK, HandedInv, HandedIsPaid, Searched, HandOver, Sure
<1>12. ASSUME NEW r \in Requests, CheckRefund(r)
      PROVE  HandedInv'
  <2>1. ASSUME NEW q \in Purchases
        PROVE  /\ status'[q] = status[q] \/ (status[q] = "pending" /\ status'[q] = "paid")
               /\ transfer'[q] = "completed" => transfer[q] = "completed"
    BY <1>12 DEF CheckRefund, TypedInv, RowsTyped
  <2>2. HandedIsPaid'
    BY <1>12, <2>1 DEF CheckRefund, HandedInv, HandedIsPaid
  <2>3. \A s \in Requests : pc'[s] \in Searched => pc[s] \in Searched /\ buy'[s] = buy[s]
    BY <1>12 DEF CheckRefund, Searched, HandOver, TypedInv, RowsTyped
  <2>4. \A s \in Requests : pc'[s] \in HandOver =>
          pc[s] \in HandOver /\ buy[s] \in Purchases /\ buy'[s] = buy[s]
    BY <1>12 DEF CheckRefund, HandOver, TypedInv, RowsTyped, LocalsOK
  <2>5. payment' = payment
    BY <1>12 DEF CheckRefund
  <2>6. QED
    BY <2>1, <2>2, <2>3, <2>4, <2>5 DEF HandedInv, Sure
<1>13. ASSUME NEW r \in Requests, CheckRevive(r)
      PROVE  HandedInv'
  BY <1>13 DEF CheckRevive, TypedInv, RowsTyped, LocalsOK, HandedInv, HandedIsPaid, Searched, HandOver, Sure
<1>14. ASSUME NEW r \in Requests, CheckClaim(r)
      PROVE  HandedInv'
  <2> DEFINE p == buy[r]
  <2>1. p \in Purchases /\ payment[p] # "no"
    BY <1>14 DEF CheckClaim, TypedInv, LocalsOK, HandedInv, Searched
  <2>2. \A q \in Purchases : status[q] \in Sure => status'[q] = status[q]
    BY <1>14 DEF CheckClaim, TypedInv, RowsTyped, Sure
  <2>3. \A q \in Purchases : transfer'[q] = "completed" =>
          transfer[q] = "completed" \/ (q = p /\ status'[p] = "paid")
    BY <1>14, <2>1 DEF CheckClaim, TypedInv, RowsTyped
  <2>4. UNCHANGED <<payment, delivered, given>>
    BY <1>14 DEF CheckClaim, lotVars
  <2>5. HandedIsPaid'
    BY <2>1, <2>2, <2>3, <2>4 DEF HandedInv, HandedIsPaid, Sure, TypedInv, RowsTyped
  <2>6. \A s \in Requests : s # r => pc'[s] = pc[s] /\ buy'[s] = buy[s]
    BY <1>14 DEF CheckClaim, Goto, Return, TypedInv, RowsTyped
  <2>7. pc'[r] \in Searched => pc'[r] = "route" /\ buy'[r] = p /\ status'[p] = "paid"
    BY <1>14, <2>1 DEF CheckClaim, ClaimWon, Goto, Return, Searched, HandOver, TypedInv, RowsTyped
  <2>8. \A s \in Requests : pc[s] # "idle" => buy[s] \in Purchases
    BY DEF TypedInv, LocalsOK
  <2>9. "idle" \notin Searched /\ HandOver \subseteq Searched
    BY DEF Searched, HandOver
  <2>10. \A s \in Requests : pc'[s] \in Searched => payment'[buy'[s]] # "no"
    BY <2>1, <2>4, <2>6, <2>7 DEF HandedInv
  <2>11. ASSUME NEW s \in Requests, pc'[s] \in HandOver
         PROVE  status'[buy'[s]] \in Sure
    <3>1. CASE s = r
      BY <2>7, <2>9, <2>11, <3>1 DEF Sure
    <3>2. CASE s # r
      <4>1. status[buy[s]] \in Sure /\ buy[s] \in Purchases
        BY <2>6, <2>8, <2>9, <2>11, <3>2 DEF HandedInv
      <4>2. QED
        BY <2>2, <2>6, <3>2, <4>1
    <3>3. QED
      BY <3>1, <3>2
  <2>12. QED
    BY <2>5, <2>10, <2>11 DEF HandedInv
<1>15. ASSUME NEW r \in Requests, CheckRoute(r)
      PROVE  HandedInv'
  BY <1>15 DEF CheckRoute, TypedInv, RowsTyped, LocalsOK, HandedInv, HandedIsPaid, Searched, HandOver, Sure
<1>16. ASSUME NEW r \in Requests, LotSold(r)
      PROVE  HandedInv'
  BY <1>16 DEF LotSold, Fault, TypedInv, RowsTyped, LocalsOK, HandedInv, HandedIsPaid, Searched, HandOver, Sure
<1>17. ASSUME NEW r \in Requests, DeliverFiles(r)
      PROVE  HandedInv'
  <2>1. /\ UNCHANGED <<lotVars, status, old, transfer>>
        /\ pc[r] = "deliver" /\ buy[r] \in Purchases
    BY <1>17, DeliverShape
  <2>2. /\ \A q \in Purchases : delivered'[q] => delivered[q] \/ q = buy[r]
        /\ \A q \in Purchases : payment[q] # "no" => payment'[q] # "no"
    <3>1. payment' = payment \/ PayloadBack(buy[r])
      BY <1>17, DeliverShape, Zenon
    <3>2. \A q \in Purchases : payment[q] # "no" => payment'[q] # "no"
      BY <2>1, <3>1, PayloadShape
    <3>3. \A q \in Purchases : q # buy[r] => delivered'[q] = delivered[q]
      BY <1>17, DeliverShape, Zenon
    <3>4. QED
      BY <3>2, <3>3
  <2>3. payment[buy[r]] # "no" /\ status[buy[r]] \in Sure
    BY <2>1 DEF HandedInv, Searched, HandOver
  <2>4. HandedIsPaid'
    BY <2>1, <2>2, <2>3 DEF HandedInv, HandedIsPaid, Sure
  <2>5. \A s \in Requests : pc'[s] # "idle" =>
          pc'[s] = pc[s] /\ buy'[s] = buy[s] /\ buy[s] \in Purchases
    BY <1>17, DeliverShape DEF TypedInv, RowsTyped, LocalsOK
  <2>6. QED
    BY <2>1, <2>2, <2>4, <2>5 DEF HandedInv, Searched, HandOver
<1>18. ASSUME NEW r \in Requests, PickAccount(r)
      PROVE  HandedInv'
  BY <1>18 DEF PickAccount, TypedInv, RowsTyped, LocalsOK, HandedInv, HandedIsPaid, Searched, HandOver, Sure
<1>19. ASSUME NEW r \in Requests, GiveAsset(r)
      PROVE  HandedInv'
  BY <1>19 DEF GiveAsset, Takes, TypedInv, RowsTyped, LocalsOK, HandedInv, HandedIsPaid, Searched, HandOver, Sure
<1>20. ASSUME NEW r \in Requests, GiveFails(r)
      PROVE  HandedInv'
  BY <1>20 DEF GiveFails, Fault, TypedInv, RowsTyped, LocalsOK, HandedInv, HandedIsPaid, Searched, HandOver, Sure
<1>21. ASSUME NEW r \in Requests, Finish(r)
      PROVE  HandedInv'
  <2>1. /\ UNCHANGED <<lotVars, status, delivered>> /\ Return(r)
        /\ pc[r] \in HandOver /\ buy[r] \in Purchases
    BY <1>21 DEF Finish, HandOver, TypedInv, LocalsOK
  <2>2. \A q \in Purchases : payment[q] # "no" => payment'[q] # "no"
    BY <1>21, <2>1, FinishPayment, PayloadShape
  <2>3. \A q \in Purchases : transfer'[q] = "completed" => transfer[q] = "completed" \/ q = buy[r]
    BY <1>21 DEF Finish, TypedInv, RowsTyped
  <2>4. payment[buy[r]] # "no" /\ status[buy[r]] \in Sure
    BY <2>1 DEF HandedInv, Searched
  <2>5. HandedIsPaid'
    BY <2>1, <2>2, <2>3, <2>4 DEF HandedInv, HandedIsPaid, Sure
  <2>6. \A s \in Requests : pc'[s] # "idle" =>
          pc'[s] = pc[s] /\ buy'[s] = buy[s] /\ buy[s] \in Purchases
    BY <2>1 DEF TypedInv, RowsTyped, LocalsOK
  <2>7. QED
    BY <2>1, <2>2, <2>5, <2>6 DEF HandedInv, Searched, HandOver
<1>22. ASSUME NEW p \in Purchases, Cancel(p)
      PROVE  HandedInv'
  BY <1>22 DEF Cancel, TypedInv, RowsTyped, LocalsOK, HandedInv, HandedIsPaid, Searched, HandOver, Sure
<1>23. ASSUME NEW p \in Purchases, Pay(p)
      PROVE  HandedInv'
  BY <1>23 DEF Pay, TypedInv, RowsTyped, LocalsOK, HandedInv, HandedIsPaid, Searched, HandOver, Sure
<1>24. ASSUME NEW p \in Purchases, Ages(p)
      PROVE  HandedInv'
  BY <1>24 DEF Ages, TypedInv, RowsTyped, LocalsOK, HandedInv, HandedIsPaid, Searched, HandOver, Sure
<1>25. ASSUME NEW l \in Lots, Unpublish(l)
      PROVE  HandedInv'
  BY <1>25 DEF Unpublish, TypedInv, RowsTyped, LocalsOK, HandedInv, HandedIsPaid, Searched, HandOver, Sure
<1>26. ASSUME NEW l \in Lots, Quarantine(l)
      PROVE  HandedInv'
  BY <1>26 DEF Quarantine, TypedInv, RowsTyped, LocalsOK, HandedInv, HandedIsPaid, Searched, HandOver, Sure
<1>27. ASSUME NEW l \in Lots, Restore(l)
      PROVE  HandedInv'
  BY <1>27 DEF Restore, TypedInv, RowsTyped, LocalsOK, HandedInv, HandedIsPaid, Searched, HandOver, Sure
<1>28. ASSUME ExpiryJob
      PROVE  HandedInv'
  BY <1>28 DEF ExpiryJob, Expire, Expirable, Overdue, TypedInv, RowsTyped, LocalsOK, HandedInv, HandedIsPaid, Searched, HandOver, Sure
<1>29. ASSUME Restart
      PROVE  HandedInv'
  BY <1>29 DEF Restart, LocalsIdle, Fault, TypedInv, RowsTyped, LocalsOK, HandedInv, HandedIsPaid, Searched, HandOver, Sure
<1>30. ASSUME UNCHANGED vars PROVE HandedInv'
  BY <1>30 DEF vars, HandedInv, HandedIsPaid
<1>31. QED
  BY <1>1, <1>2, <1>3, <1>4, <1>5, <1>6, <1>7, <1>8, <1>9, <1>10, <1>11, <1>12, <1>13, <1>14, <1>15, <1>16, <1>17, <1>18, <1>19, <1>20, <1>21, <1>22, <1>23, <1>24, <1>25, <1>26, <1>27, <1>28, <1>29, <1>30 DEF Next, RequestStep

\* Whoever is given a lot, its archive or a completed transfer has paid, and the
\* payment is booked.
THEOREM HandedOnlyWhenPaid == Spec => []HandedIsPaid
<1>1. HandedInv => HandedIsPaid
  BY DEF HandedInv
<1>2. Init => TypedInv /\ HandedInv
  BY TypedInit, HandedInit
<1>3. (TypedInv /\ HandedInv) /\ [Next]_vars => (TypedInv /\ HandedInv)'
  BY TypedStep, HandedStep
<1>4. QED
  BY <1>1, <1>2, <1>3, PTL DEF Spec
-----------------------------------------------------------------------------
(***************************************************************************)
(* A booked payment stays, and is settled.                                 *)
(***************************************************************************)
Unpaid(p) == status[p] = "paid" /\ status'[p] # "paid"
BeingDeleted(p) == \E r \in Requests : pc[r] \in {"delete", "purge"} /\ p \in doomed[r]

LEMMA StaysStep == TypedInv /\ [Next]_vars => \A q \in Purchases : Unpaid(q) => BeingDeleted(q)
<1> SUFFICES ASSUME TypedInv, [Next]_vars PROVE \A q \in Purchases : Unpaid(q) => BeingDeleted(q)
  OBVIOUS
<1>1. ASSUME NEW r \in Requests, NEW p \in Purchases, CreateRead(r, p)
      PROVE  \A q \in Purchases : Unpaid(q) => BeingDeleted(q)
  BY <1>1 DEF CreateRead, Expire, Expirable, Overdue, Unpaid, TypedInv, RowsTyped
<1>2. ASSUME NEW r \in Requests, NEW p \in Purchases, CancelBatchRead(r, p)
      PROVE  \A q \in Purchases : Unpaid(q) => BeingDeleted(q)
  BY <1>2 DEF CancelBatchRead, Unpaid, TypedInv, RowsTyped
<1>3. ASSUME NEW r \in Requests, NEW p \in Purchases, CheckRead(r, p)
      PROVE  \A q \in Purchases : Unpaid(q) => BeingDeleted(q)
  BY <1>3 DEF CheckRead, Exists, Unpaid, TypedInv, RowsTyped
<1>4. ASSUME NEW r \in Requests, NEW l \in Lots, DeleteLotRead(r, l)
      PROVE  \A q \in Purchases : Unpaid(q) => BeingDeleted(q)
  BY <1>4 DEF DeleteLotRead, Expire, Expirable, Overdue, On, Unpaid, TypedInv, RowsTyped
<1>5. ASSUME NEW r \in Requests, CreateOwn(r)
      PROVE  \A q \in Purchases : Unpaid(q) => BeingDeleted(q)
  BY <1>5 DEF CreateOwn, Own, On, Exists, Unpaid, TypedInv, RowsTyped
<1>6. ASSUME NEW r \in Requests, CreateRefresh(r)
      PROVE  \A q \in Purchases : Unpaid(q) => BeingDeleted(q)
  BY <1>6 DEF CreateRefresh, Unpaid, TypedInv, RowsTyped
<1>7. ASSUME NEW r \in Requests, CreateInsert(r)
      PROVE  \A q \in Purchases : Unpaid(q) => BeingDeleted(q)
  BY <1>7, InsertShape DEF Unpaid, TypedInv, RowsTyped
<1>8. ASSUME NEW r \in Requests, DeleteRows(r)
      PROVE  \A q \in Purchases : Unpaid(q) => BeingDeleted(q)
  BY <1>8 DEF DeleteRows, Unpaid, TypedInv, RowsTyped, BeingDeleted
<1>9. ASSUME NEW r \in Requests, DeleteLot(r)
      PROVE  \A q \in Purchases : Unpaid(q) => BeingDeleted(q)
  BY <1>9 DEF DeleteLot, Unpaid, TypedInv, RowsTyped
<1>10. ASSUME NEW r \in Requests, CheckExpires(r)
      PROVE  \A q \in Purchases : Unpaid(q) => BeingDeleted(q)
  BY <1>10 DEF CheckExpires, Expire, Expirable, Overdue, Unpaid, TypedInv, RowsTyped
<1>11. ASSUME NEW r \in Requests, CheckItem(r)
      PROVE  \A q \in Purchases : Unpaid(q) => BeingDeleted(q)
  BY <1>11 DEF CheckItem, Unpaid, TypedInv, RowsTyped
<1>12. ASSUME NEW r \in Requests, CheckRefund(r)
      PROVE  \A q \in Purchases : Unpaid(q) => BeingDeleted(q)
  BY <1>12 DEF CheckRefund, Unpaid, TypedInv, RowsTyped
<1>13. ASSUME NEW r \in Requests, CheckRevive(r)
      PROVE  \A q \in Purchases : Unpaid(q) => BeingDeleted(q)
  BY <1>13 DEF CheckRevive, Unpaid, TypedInv, RowsTyped
<1>14. ASSUME NEW r \in Requests, CheckClaim(r)
      PROVE  \A q \in Purchases : Unpaid(q) => BeingDeleted(q)
  BY <1>14 DEF CheckClaim, ClaimWon, Unpaid, TypedInv, RowsTyped
<1>15. ASSUME NEW r \in Requests, CheckRoute(r)
      PROVE  \A q \in Purchases : Unpaid(q) => BeingDeleted(q)
  BY <1>15 DEF CheckRoute, Unpaid, TypedInv, RowsTyped
<1>16. ASSUME NEW r \in Requests, LotSold(r)
      PROVE  \A q \in Purchases : Unpaid(q) => BeingDeleted(q)
  BY <1>16 DEF LotSold, Fault, Unpaid, TypedInv, RowsTyped
<1>17. ASSUME NEW r \in Requests, DeliverFiles(r)
      PROVE  \A q \in Purchases : Unpaid(q) => BeingDeleted(q)
  BY <1>17 DEF DeliverFiles, Exists, Fault, Unpaid, TypedInv, RowsTyped
<1>18. ASSUME NEW r \in Requests, PickAccount(r)
      PROVE  \A q \in Purchases : Unpaid(q) => BeingDeleted(q)
  BY <1>18 DEF PickAccount, Unpaid, TypedInv, RowsTyped
<1>19. ASSUME NEW r \in Requests, GiveAsset(r)
      PROVE  \A q \in Purchases : Unpaid(q) => BeingDeleted(q)
  BY <1>19 DEF GiveAsset, Takes, Unpaid, TypedInv, RowsTyped
<1>20. ASSUME NEW r \in Requests, GiveFails(r)
      PROVE  \A q \in Purchases : Unpaid(q) => BeingDeleted(q)
  BY <1>20 DEF GiveFails, Fault, Unpaid, TypedInv, RowsTyped
<1>21. ASSUME NEW r \in Requests, Finish(r)
      PROVE  \A q \in Purchases : Unpaid(q) => BeingDeleted(q)
  BY <1>21 DEF Finish, Exists, Fault, Unpaid, TypedInv, RowsTyped
<1>22. ASSUME NEW p \in Purchases, Cancel(p)
      PROVE  \A q \in Purchases : Unpaid(q) => BeingDeleted(q)
  BY <1>22 DEF Cancel, Unpaid, TypedInv, RowsTyped
<1>23. ASSUME NEW p \in Purchases, Pay(p)
      PROVE  \A q \in Purchases : Unpaid(q) => BeingDeleted(q)
  BY <1>23 DEF Pay, Unpaid, TypedInv, RowsTyped
<1>24. ASSUME NEW p \in Purchases, Ages(p)
      PROVE  \A q \in Purchases : Unpaid(q) => BeingDeleted(q)
  BY <1>24 DEF Ages, Unpaid, TypedInv, RowsTyped
<1>25. ASSUME NEW l \in Lots, Unpublish(l)
      PROVE  \A q \in Purchases : Unpaid(q) => BeingDeleted(q)
  BY <1>25 DEF Unpublish, Unpaid, TypedInv, RowsTyped
<1>26. ASSUME NEW l \in Lots, Quarantine(l)
      PROVE  \A q \in Purchases : Unpaid(q) => BeingDeleted(q)
  BY <1>26 DEF Quarantine, Unpaid, TypedInv, RowsTyped
<1>27. ASSUME NEW l \in Lots, Restore(l)
      PROVE  \A q \in Purchases : Unpaid(q) => BeingDeleted(q)
  BY <1>27 DEF Restore, Unpaid, TypedInv, RowsTyped
<1>28. ASSUME ExpiryJob
      PROVE  \A q \in Purchases : Unpaid(q) => BeingDeleted(q)
  BY <1>28 DEF ExpiryJob, Expire, Expirable, Overdue, Unpaid, TypedInv, RowsTyped
<1>29. ASSUME Restart
      PROVE  \A q \in Purchases : Unpaid(q) => BeingDeleted(q)
  BY <1>29 DEF Restart, LocalsIdle, Fault, Unpaid, TypedInv, RowsTyped
<1>30. ASSUME UNCHANGED vars PROVE \A q \in Purchases : Unpaid(q) => BeingDeleted(q)
  BY <1>30 DEF vars, Unpaid
<1>31. QED
  BY <1>1, <1>2, <1>3, <1>4, <1>5, <1>6, <1>7, <1>8, <1>9, <1>10, <1>11, <1>12, <1>13, <1>14, <1>15, <1>16, <1>17, <1>18, <1>19, <1>20, <1>21, <1>22, <1>23, <1>24, <1>25, <1>26, <1>27, <1>28, <1>29, <1>30 DEF Next, RequestStep

\* A paid purchase neither expires nor reopens; only a deletion that saw it
\* unpaid removes it.
THEOREM PaidRemains == Spec => PaidStays
<1>1. TypedInv /\ [Next]_vars =>
        [\A p \in Purchases : status[p] = "paid" /\ status'[p] # "paid" =>
           \E r \in Requests : pc[r] \in {"delete", "purge"} /\ p \in doomed[r]]_vars
  BY StaysStep DEF Unpaid, BeingDeleted
<1>2. TypedInv /\ [Next]_vars => TypedInv'
  BY TypedStep
<1>3. QED
  BY TypedInit, <1>1, <1>2, PTL DEF Spec, PaidStays

LEMMA SettledInit == Init => PaidIsSettled
  BY DEF Init, PaidIsSettled

\* Steps that book nothing and leave the checks on their way.
LEMMA SettledKept ==
  ASSUME PaidIsSettled,
         transfer' = transfer, delivered' = delivered, cut' = cut,
         \A q \in Purchases : status'[q] = "paid" => status[q] = "paid",
         \A s \in Requests : pc[s] \in HandOver => pc'[s] = pc[s] /\ buy'[s] = buy[s]
  PROVE  PaidIsSettled'
<1> SUFFICES ASSUME NEW q \in Purchases, status'[q] = "paid",
                    transfer'[q] = "pending", ~delivered'[q]
             PROVE  q \in cut' \/ \E s \in Requests : buy'[s] = q /\ pc'[s] \in HandOver
  BY Zenon DEF PaidIsSettled
<1>1. q \in cut \/ \E s \in Requests : buy[s] = q /\ pc[s] \in HandOver
  <2>1. status[q] = "paid" /\ transfer[q] = "pending" /\ ~delivered[q]
    OBVIOUS
  <2>2. QED
    BY <2>1, Zenon DEF PaidIsSettled
<1>2. CASE q \in cut
  BY <1>2
<1>3. CASE \E s \in Requests : buy[s] = q /\ pc[s] \in HandOver
  BY <1>3, Zenon
<1>4. QED
  BY <1>1, <1>2, <1>3

LEMMA SettledStep == TypedInv /\ PaidIsSettled /\ [Next]_vars => PaidIsSettled'
<1> SUFFICES ASSUME TypedInv /\ PaidIsSettled, [Next]_vars PROVE PaidIsSettled'
  OBVIOUS
<1>1. ASSUME NEW r \in Requests, NEW p \in Purchases, CreateRead(r, p)
      PROVE  PaidIsSettled'
  BY <1>1 DEF CreateRead, Expire, Expirable, Overdue, TypedInv, RowsTyped, LocalsOK, PaidIsSettled, HandOver
<1>2. ASSUME NEW r \in Requests, NEW p \in Purchases, CancelBatchRead(r, p)
      PROVE  PaidIsSettled'
  <2>1. \A q \in Purchases : status'[q] = "paid" => status[q] = "paid"
    BY <1>2 DEF CancelBatchRead
  <2>2. \A s \in Requests : pc[s] \in HandOver => pc'[s] = pc[s] /\ buy'[s] = buy[s]
    BY <1>2 DEF CancelBatchRead, HandOver, TypedInv, RowsTyped
  <2>3. UNCHANGED <<transfer, delivered, cut>>
    BY <1>2 DEF CancelBatchRead
  <2>4. QED
    BY <2>1, <2>2, <2>3, SettledKept
<1>3. ASSUME NEW r \in Requests, NEW p \in Purchases, CheckRead(r, p)
      PROVE  PaidIsSettled'
  <2>1. \A q \in Purchases : status'[q] = "paid" => status[q] = "paid"
    BY <1>3 DEF CheckRead
  <2>2. \A s \in Requests : pc[s] \in HandOver => pc'[s] = pc[s] /\ buy'[s] = buy[s]
    BY <1>3 DEF CheckRead, HandOver, TypedInv, RowsTyped
  <2>3. UNCHANGED <<transfer, delivered, cut>>
    BY <1>3 DEF CheckRead
  <2>4. QED
    BY <2>1, <2>2, <2>3, SettledKept
<1>4. ASSUME NEW r \in Requests, NEW l \in Lots, DeleteLotRead(r, l)
      PROVE  PaidIsSettled'
  <2>1. \A q \in Purchases : status'[q] = "paid" => status[q] = "paid"
    BY <1>4 DEF DeleteLotRead, Expire, TypedInv, RowsTyped
  <2>2. \A s \in Requests : pc[s] \in HandOver => pc'[s] = pc[s] /\ buy'[s] = buy[s]
    BY <1>4 DEF DeleteLotRead, HandOver, TypedInv, RowsTyped
  <2>3. UNCHANGED <<transfer, delivered, cut>>
    BY <1>4 DEF DeleteLotRead
  <2>4. QED
    BY <2>1, <2>2, <2>3, SettledKept
<1>5. ASSUME NEW r \in Requests, CreateOwn(r)
      PROVE  PaidIsSettled'
  BY <1>5 DEF CreateOwn, Own, On, Exists, TypedInv, RowsTyped, LocalsOK, PaidIsSettled, HandOver
<1>6. ASSUME NEW r \in Requests, CreateRefresh(r)
      PROVE  PaidIsSettled'
  BY <1>6 DEF CreateRefresh, TypedInv, RowsTyped, LocalsOK, PaidIsSettled, HandOver
<1>7. ASSUME NEW r \in Requests, CreateInsert(r)
      PROVE  PaidIsSettled'
  <2>1. ASSUME NEW q \in Purchases, status'[q] = "paid"
        PROVE  status[q] = "paid"
    BY <1>7, <2>1, InsertShape DEF TypedInv, RowsTyped
  <2>2. \A s \in Requests : pc[s] \in HandOver => pc'[s] = pc[s] /\ buy'[s] = buy[s]
    BY <1>7, InsertShape DEF HandOver, TypedInv, RowsTyped
  <2>3. UNCHANGED <<transfer, delivered, cut>>
    BY <1>7, InsertShape
  <2>4. \A q \in Purchases : status'[q] = "paid" => status[q] = "paid"
    BY <2>1
  <2>5. QED
    BY <2>4, <2>2, <2>3, SettledKept
<1>8. ASSUME NEW r \in Requests, DeleteRows(r)
      PROVE  PaidIsSettled'
  <2>1. \A q \in Purchases : status'[q] = "paid" => status[q] = "paid"
    BY <1>8 DEF DeleteRows, TypedInv, RowsTyped
  <2>2. \A s \in Requests : pc[s] \in HandOver => pc'[s] = pc[s] /\ buy'[s] = buy[s]
    BY <1>8 DEF DeleteRows, HandOver, TypedInv, RowsTyped
  <2>3. UNCHANGED <<transfer, delivered, cut>>
    BY <1>8 DEF DeleteRows
  <2>4. QED
    BY <2>1, <2>2, <2>3, SettledKept
<1>9. ASSUME NEW r \in Requests, DeleteLot(r)
      PROVE  PaidIsSettled'
  <2>1. \A q \in Purchases : status'[q] = "paid" => status[q] = "paid"
    BY <1>9 DEF DeleteLot
  <2>2. \A s \in Requests : pc[s] \in HandOver => pc'[s] = pc[s] /\ buy'[s] = buy[s]
    BY <1>9 DEF DeleteLot, HandOver, TypedInv, RowsTyped
  <2>3. UNCHANGED <<transfer, delivered, cut>>
    BY <1>9 DEF DeleteLot
  <2>4. QED
    BY <2>1, <2>2, <2>3, SettledKept
<1>10. ASSUME NEW r \in Requests, CheckExpires(r)
      PROVE  PaidIsSettled'
  <2>1. \A q \in Purchases : status'[q] = "paid" => status[q] = "paid"
    BY <1>10 DEF CheckExpires, Expire, TypedInv, RowsTyped
  <2>2. \A s \in Requests : pc[s] \in HandOver => pc'[s] = pc[s] /\ buy'[s] = buy[s]
    BY <1>10 DEF CheckExpires, HandOver, TypedInv, RowsTyped
  <2>3. UNCHANGED <<transfer, delivered, cut>>
    BY <1>10 DEF CheckExpires
  <2>4. QED
    BY <2>1, <2>2, <2>3, SettledKept
<1>11. ASSUME NEW r \in Requests, CheckItem(r)
      PROVE  PaidIsSettled'
  BY <1>11 DEF CheckItem, TypedInv, RowsTyped, LocalsOK, PaidIsSettled, HandOver
<1>12. ASSUME NEW r \in Requests, CheckRefund(r)
      PROVE  PaidIsSettled'
  BY <1>12 DEF CheckRefund, TypedInv, RowsTyped, LocalsOK, PaidIsSettled, HandOver
<1>13. ASSUME NEW r \in Requests, CheckRevive(r)
      PROVE  PaidIsSettled'
  BY <1>13 DEF CheckRevive, TypedInv, RowsTyped, LocalsOK, PaidIsSettled, HandOver
<1>14. ASSUME NEW r \in Requests, CheckClaim(r)
      PROVE  PaidIsSettled'
  BY <1>14 DEF CheckClaim, ClaimWon, TypedInv, RowsTyped, LocalsOK, PaidIsSettled, HandOver
<1>15. ASSUME NEW r \in Requests, CheckRoute(r)
      PROVE  PaidIsSettled'
  BY <1>15 DEF CheckRoute, TypedInv, RowsTyped, LocalsOK, PaidIsSettled, HandOver
<1>16. ASSUME NEW r \in Requests, LotSold(r)
      PROVE  PaidIsSettled'
  BY <1>16 DEF LotSold, Fault, TypedInv, RowsTyped, LocalsOK, PaidIsSettled, HandOver
<1>17. ASSUME NEW r \in Requests, DeliverFiles(r)
      PROVE  PaidIsSettled'
  <2>1. UNCHANGED <<status, transfer>> /\ pc[r] = "deliver"
    BY <1>17, DeliverShape
  <2>2. ASSUME NEW s \in Requests, s # r PROVE pc'[s] = pc[s] /\ buy'[s] = buy[s]
    BY <1>17, <2>2, DeliverShape DEF TypedInv, RowsTyped
  <2>3. CASE delivered' = delivered /\ cut' = cut \cup {buy[r]}
    BY <2>1, <2>2, <2>3 DEF PaidIsSettled
  <2>4. CASE ~(delivered' = delivered /\ cut' = cut \cup {buy[r]})
    <3>1. cut' = cut /\ delivered'[buy[r]] = Exists(buy[r])
      BY <1>17, <2>4, DeliverShape
    <3>2. \A q \in Purchases : q # buy[r] => delivered'[q] = delivered[q]
      BY <1>17, DeliverShape
    <3>3. \A q \in Purchases :
            ~delivered'[q] /\ status[q] = "paid" => q # buy[r] /\ ~delivered[q]
      BY <3>1, <3>2 DEF Exists
    <3>4. QED
      BY <2>1, <2>2, <3>1, <3>3 DEF PaidIsSettled
  <2>5. QED
    BY <2>3, <2>4
<1>18. ASSUME NEW r \in Requests, PickAccount(r)
      PROVE  PaidIsSettled'
  BY <1>18 DEF PickAccount, TypedInv, RowsTyped, LocalsOK, PaidIsSettled, HandOver
<1>19. ASSUME NEW r \in Requests, GiveAsset(r)
      PROVE  PaidIsSettled'
  BY <1>19 DEF GiveAsset, Takes, TypedInv, RowsTyped, LocalsOK, PaidIsSettled, HandOver
<1>20. ASSUME NEW r \in Requests, GiveFails(r)
      PROVE  PaidIsSettled'
  BY <1>20 DEF GiveFails, Fault, TypedInv, RowsTyped, LocalsOK, PaidIsSettled, HandOver
<1>21. ASSUME NEW r \in Requests, Finish(r)
      PROVE  PaidIsSettled'
  BY <1>21 DEF Finish, Exists, Fault, TypedInv, RowsTyped, LocalsOK, PaidIsSettled, HandOver
<1>22. ASSUME NEW p \in Purchases, Cancel(p)
      PROVE  PaidIsSettled'
  BY <1>22 DEF Cancel, TypedInv, RowsTyped, LocalsOK, PaidIsSettled, HandOver
<1>23. ASSUME NEW p \in Purchases, Pay(p)
      PROVE  PaidIsSettled'
  BY <1>23 DEF Pay, TypedInv, RowsTyped, LocalsOK, PaidIsSettled, HandOver
<1>24. ASSUME NEW p \in Purchases, Ages(p)
      PROVE  PaidIsSettled'
  BY <1>24 DEF Ages, TypedInv, RowsTyped, LocalsOK, PaidIsSettled, HandOver
<1>25. ASSUME NEW l \in Lots, Unpublish(l)
      PROVE  PaidIsSettled'
  BY <1>25 DEF Unpublish, TypedInv, RowsTyped, LocalsOK, PaidIsSettled, HandOver
<1>26. ASSUME NEW l \in Lots, Quarantine(l)
      PROVE  PaidIsSettled'
  BY <1>26 DEF Quarantine, TypedInv, RowsTyped, LocalsOK, PaidIsSettled, HandOver
<1>27. ASSUME NEW l \in Lots, Restore(l)
      PROVE  PaidIsSettled'
  BY <1>27 DEF Restore, TypedInv, RowsTyped, LocalsOK, PaidIsSettled, HandOver
<1>28. ASSUME ExpiryJob
      PROVE  PaidIsSettled'
  <2>1. ASSUME NEW q \in Purchases, status'[q] = "paid"
        PROVE  status[q] = "paid"
    BY <1>28, <2>1 DEF ExpiryJob, Expire, Expirable, TypedInv, RowsTyped
  <2>2. UNCHANGED <<transfer, delivered, cut, pc, buy>>
    BY <1>28 DEF ExpiryJob
  <2>3. QED
    BY <2>1, <2>2 DEF PaidIsSettled
<1>29. ASSUME Restart
      PROVE  PaidIsSettled'
  <2>1. UNCHANGED <<status, transfer, delivered>>
    BY <1>29 DEF Restart
  <2>2. /\ cut \subseteq cut'
        /\ \A s \in Requests : pc[s] \in HandOver => buy[s] \in cut'
    BY <1>29 DEF Restart
  <2>3. QED
    BY <2>1, <2>2 DEF PaidIsSettled
<1>30. ASSUME UNCHANGED vars PROVE PaidIsSettled'
  BY <1>30 DEF vars, PaidIsSettled
<1>31. QED
  BY <1>1, <1>2, <1>3, <1>4, <1>5, <1>6, <1>7, <1>8, <1>9, <1>10, <1>11, <1>12, <1>13, <1>14, <1>15, <1>16, <1>17, <1>18, <1>19, <1>20, <1>21, <1>22, <1>23, <1>24, <1>25, <1>26, <1>27, <1>28, <1>29, <1>30 DEF Next, RequestStep

\* A booked payment is handed over or recorded as failed by the check that
\* booked it, unless its last write fails, the process restarts in between or a
\* refresh that read a reservation writes over it.
THEOREM PaidGetsSettled == Spec => []PaidIsSettled
<1>1. Init => TypedInv /\ PaidIsSettled
  BY TypedInit, SettledInit
<1>2. (TypedInv /\ PaidIsSettled) /\ [Next]_vars => (TypedInv /\ PaidIsSettled)'
  BY TypedStep, SettledStep
<1>3. QED
  BY <1>1, <1>2, PTL DEF Spec
-----------------------------------------------------------------------------
(***************************************************************************)
(* The purchase's row keeps the contract of OrderLifecycle.                *)
(***************************************************************************)
Came == [p \in Purchases |-> payment[p] # "no"]
Doomed == UNION {doomed[r] : r \in Requests}

\* What a request is about to delete was inserted before.
DoomedInv == \A r \in Requests : \A p \in doomed[r] : status[p] # "none"

\* A request picks purchases for deletion only while they are unpaid.
LEMMA PickStep ==
  ASSUME TypedInv, [Next]_vars, NEW r \in Requests, NEW p \in doomed'[r]
  PROVE  p \in doomed[r] \/ status[p] = "pending"
<1> USE DEF TypedInv, RowsTyped
<1>1. ASSUME NEW s \in Requests, NEW q \in Purchases,
             CreateRead(s, q) \/ CancelBatchRead(s, q) \/ CheckRead(s, q)
      PROVE  p \in doomed[r] \/ status[p] = "pending"
  BY <1>1 DEF CreateRead, CancelBatchRead, CheckRead
<1>2. ASSUME NEW s \in Requests, NEW l \in Lots, DeleteLotRead(s, l)
      PROVE  p \in doomed[r] \/ status[p] = "pending"
  <2>1. doomed' = [doomed EXCEPT ![s] = {q \in On(l) : status[q] = "pending" /\ Overdue(q)}]
    BY <1>2 DEF DeleteLotRead
  <2>2. QED
    BY <2>1
<1>3. ASSUME NEW s \in Requests, RequestStep(s)
      PROVE  p \in doomed[r]
  <2>1. UNCHANGED doomed \/ doomed' = [doomed EXCEPT ![s] = {}]
    BY <1>3
    DEF RequestStep, CreateOwn, CreateRefresh, CreateInsert, DeleteRows, DeleteLot,
        CheckExpires, CheckItem, CheckRefund, CheckRevive, CheckClaim, CheckRoute,
        LotSold, DeliverFiles, PickAccount, GiveAsset, GiveFails, Finish
  <2>2. QED
    BY <2>1
<1>4. CASE \/ \E q \in Purchases : Cancel(q) \/ Pay(q) \/ Ages(q)
           \/ \E l \in Lots : Unpublish(l) \/ Quarantine(l) \/ Restore(l)
           \/ ExpiryJob \/ Restart \/ UNCHANGED vars
  BY <1>4 DEF Cancel, Pay, Ages, Unpublish, Quarantine, Restore, ExpiryJob, Restart,
              LocalsIdle, vars
<1>5. QED
  BY <1>1, <1>2, <1>3, <1>4 DEF Next

LEMMA ExpireIsContract ==
  ASSUME NEW S \in SUBSET Purchases, status' = Expire(S), UNCHANGED <<old, payment>>
  PROVE  \E E \in SUBSET Purchases : Row!Expire(E)
<1> DEFINE E == {p \in S : Expirable(p)}
<1>1. status' = [p \in Purchases |-> IF p \in E THEN "expired" ELSE status[p]]
  BY DEF Expire
<1>2. Row!Expire(E)
  BY <1>1 DEF Row!Expire, Row!Becomes, Expirable, Overdue
<1>3. QED
  BY <1>2

\* A write that moves one purchase along an edge of the contract.
LEMMA MoveIsContract ==
  ASSUME TypedInv, NEW p \in Purchases, NEW to, status' = [status EXCEPT ![p] = to],
         UNCHANGED <<old, payment>>,
         \/ status[p] = "none" /\ to = "pending"
         \/ status[p] = "expired" /\ payment[p] # "no" /\ to = "pending"
         \/ status[p] = "pending" /\ payment[p] # "no" /\ to = "paid"
  PROVE  Row!Open(p) \/ Row!Revive(p) \/ Row!Book(p)
<1>1. status' = [q \in Purchases |-> IF q \in {p} THEN to ELSE status[q]]
  BY DEF TypedInv, RowsTyped
<1>2. QED
  BY <1>1 DEF Row!Open, Row!Revive, Row!Book, Row!Becomes

\* What a step writes in the rows is one write of the contract.
RowWrite ==
  \/ UNCHANGED <<status, old, Came>>
  \/ \E p \in Purchases : \/ Row!Open(p) \/ Row!Revive(p) \/ Row!Book(p)
                          \/ Row!Age(p) \/ Row!Receive(p)
  \/ \E S \in SUBSET Purchases : Row!Expire(S) \/ Row!Delete(S)

LEMMA WriteStep == TypedInv /\ HandedInv /\ DoomedInv /\ [Next]_vars => RowWrite
<1> SUFFICES ASSUME TypedInv, HandedInv, DoomedInv, [Next]_vars
             PROVE  RowWrite
  OBVIOUS
<1>q. ASSUME UNCHANGED <<status, old, payment>>
      PROVE  RowWrite
  BY <1>q DEF RowWrite, Came
<1>e. ASSUME NEW S \in SUBSET Purchases, status' = Expire(S), UNCHANGED <<old, payment>>
      PROVE  RowWrite
  BY <1>e, ExpireIsContract DEF RowWrite
<1>s. ASSUME NEW r \in Requests, pc[r] \in {"refund", "revive", "claim"}
      PROVE  buy[r] \in Purchases /\ payment[buy[r]] # "no"
  BY <1>s DEF TypedInv, LocalsOK, HandedInv, Searched
<1>1. ASSUME NEW r \in Requests, NEW p \in Purchases, CreateRead(r, p)
      PROVE  RowWrite
  BY <1>1, <1>e DEF CreateRead, On
<1>2. ASSUME NEW r \in Requests, NEW p \in Purchases,
             CancelBatchRead(r, p) \/ CheckRead(r, p)
      PROVE  RowWrite
  BY <1>2, <1>q DEF CancelBatchRead, CheckRead
<1>3. ASSUME NEW r \in Requests, NEW l \in Lots, DeleteLotRead(r, l)
      PROVE  RowWrite
  BY <1>3, <1>e DEF DeleteLotRead, On
<1>4. ASSUME NEW r \in Requests, CreateRefresh(r)
      PROVE  RowWrite
  <2>1. UNCHANGED <<status, old>>
        /\ \A p \in Purchases : payment'[p] # "no" <=> payment[p] # "no"
    BY <1>4 DEF CreateRefresh, TypedInv, RowsTyped
  <2>2. UNCHANGED Came
    BY <2>1 DEF Came
  <2>3. QED
    BY <2>1, <2>2 DEF RowWrite
<1>5. ASSUME NEW r \in Requests, CreateInsert(r)
      PROVE  RowWrite
  BY <1>5, <1>q, InsertShape, MoveIsContract DEF RowWrite
<1>6. ASSUME NEW r \in Requests, DeleteRows(r)
      PROVE  RowWrite
  <2>1. status' = [p \in Purchases |-> IF p \in doomed[r] THEN "deleted" ELSE status[p]]
        /\ UNCHANGED <<old, payment>>
    BY <1>6 DEF DeleteRows
  <2>2. doomed[r] \in SUBSET Purchases /\ doomed[r] \subseteq Doomed
    BY DEF TypedInv, RowsTyped, Doomed
  <2>3. \A p \in doomed[r] : status[p] # "none"
    BY DEF DoomedInv
  <2>4. Row!Delete(doomed[r])
    BY <2>1, <2>2, <2>3 DEF Row!Delete, Doomed
  <2>5. QED
    BY <2>2, <2>4 DEF RowWrite
<1>7. ASSUME NEW r \in Requests, CheckExpires(r)
      PROVE  RowWrite
  <2>1. {buy[r]} \in SUBSET Purchases
    BY <1>7 DEF CheckExpires, TypedInv, LocalsOK
  <2>2. QED
    BY <1>7, <1>e, <2>1 DEF CheckExpires
<1>8. ASSUME NEW r \in Requests, CheckRefund(r)
      PROVE  RowWrite
  <2>1. buy[r] \in Purchases /\ payment[buy[r]] # "no"
    BY <1>8, <1>s DEF CheckRefund
  <2>2. QED
    BY <1>8, <1>q, <2>1, MoveIsContract DEF CheckRefund, RowWrite
<1>9. ASSUME NEW r \in Requests, CheckRevive(r) \/ CheckClaim(r)
      PROVE  RowWrite
  <2>1. buy[r] \in Purchases /\ payment[buy[r]] # "no" /\ UNCHANGED <<old, payment>>
    BY <1>9, <1>s DEF CheckRevive, CheckClaim
  <2>2. \/ UNCHANGED status
        \/ status[buy[r]] = "expired" /\ status' = [status EXCEPT ![buy[r]] = "pending"]
        \/ status[buy[r]] = "pending" /\ status' = [status EXCEPT ![buy[r]] = "paid"]
    BY <1>9, ReviveStatus, ClaimStatus DEF TypedInv
  <2>3. QED
    BY <1>q, <2>1, <2>2, MoveIsContract DEF RowWrite
<1>10. ASSUME NEW r \in Requests,
              \/ CreateOwn(r) \/ DeleteLot(r) \/ CheckItem(r) \/ CheckRoute(r)
              \/ LotSold(r) \/ PickAccount(r) \/ GiveAsset(r) \/ GiveFails(r)
       PROVE  RowWrite
  BY <1>10, <1>q
  DEF CreateOwn, DeleteLot, CheckItem, CheckRoute, LotSold,
      PickAccount, GiveAsset, GiveFails
<1>p. ASSUME NEW r \in Requests, DeliverFiles(r) \/ Finish(r)
      PROVE  RowWrite
  <2>1. UNCHANGED <<status, old>> /\ pc[r] \in HandOver /\ buy[r] \in Purchases
    BY <1>p DEF DeliverFiles, Finish, HandOver, TypedInv, LocalsOK
  <2>2. payment[buy[r]] # "no"
    BY <2>1 DEF HandedInv, Searched
  <2>3. payment' = payment \/ PayloadBack(buy[r])
    BY <1>p, DeliverShape, FinishPayment
  <2>4. \A p \in Purchases : payment'[p] # "no" <=> payment[p] # "no"
    BY <2>1, <2>2, <2>3, PayloadShape
  <2>5. UNCHANGED Came
    BY <2>4 DEF Came
  <2>6. QED
    BY <2>1, <2>5 DEF RowWrite
<1>11. ASSUME NEW p \in Purchases, Cancel(p)
       PROVE  RowWrite
  <2>0. status \in [Purchases -> {"none", "pending", "expired", "paid", "deleted"}]
    BY DEF TypedInv, RowsTyped
  <2>1. status' = [q \in Purchases |-> IF q \in {p} THEN "deleted" ELSE status[q]]
        /\ status[p] = "pending" /\ UNCHANGED <<old, payment>>
    BY <1>11, <2>0 DEF Cancel
  <2>2. Row!Delete({p})
    BY <2>1 DEF Row!Delete
  <2>3. QED
    BY <2>2 DEF RowWrite
<1>12. ASSUME NEW p \in Purchases, Pay(p)
       PROVE  RowWrite
  <2>1. /\ status[p] # "none" /\ UNCHANGED <<status, old>>
        /\ payment' = [payment EXCEPT ![p] = "found"]
    BY <1>12 DEF Pay
  <2>2. Came' = [Came EXCEPT ![p] = TRUE]
    BY <2>1 DEF Came, TypedInv, RowsTyped
  <2>3. Row!Receive(p)
    BY <2>1, <2>2 DEF Row!Receive, Came
  <2>4. QED
    BY <2>3 DEF RowWrite
<1>13. ASSUME NEW p \in Purchases, Ages(p)
       PROVE  RowWrite
  <2>1. Row!Age(p)
    BY <1>13 DEF Ages, Row!Age
  <2>2. QED
    BY <2>1 DEF RowWrite
<1>14. CASE ExpiryJob
  BY <1>14, <1>e DEF ExpiryJob
<1>15. CASE \/ \E l \in Lots : Unpublish(l) \/ Quarantine(l) \/ Restore(l)
            \/ Restart \/ UNCHANGED vars
  BY <1>15, <1>q DEF Unpublish, Quarantine, Restore, Restart, vars, purchaseVars
<1>16. QED
  BY <1>1, <1>2, <1>3, <1>4, <1>5, <1>6, <1>7, <1>8, <1>9, <1>10, <1>p, <1>11, <1>12,
     <1>13, <1>14, <1>15 DEF Next, RequestStep

LEMMA DoomedStep == TypedInv /\ DoomedInv /\ RowWrite /\ [Next]_vars => DoomedInv'
<1> SUFFICES ASSUME TypedInv, DoomedInv, RowWrite, [Next]_vars,
                    NEW r \in Requests, NEW p \in doomed'[r]
             PROVE  status'[p] # "none"
  BY DEF DoomedInv
<1>1. status[p] # "none"
  BY PickStep DEF DoomedInv
<1>2. p \in Purchases
  BY TypedStep DEF TypedInv, RowsTyped
<1>3. CASE UNCHANGED <<status, old, Came>>
  BY <1>1, <1>3
<1>4. ASSUME NEW q \in Purchases, Row!Open(q) \/ Row!Revive(q) \/ Row!Book(q)
      PROVE  status'[p] # "none"
  BY <1>1, <1>2, <1>4 DEF Row!Open, Row!Revive, Row!Book, Row!Becomes
<1>5. ASSUME NEW q \in Purchases, Row!Age(q) \/ Row!Receive(q)
      PROVE  status'[p] # "none"
  BY <1>1, <1>5 DEF Row!Age, Row!Receive
<1>6. ASSUME NEW S \in SUBSET Purchases, Row!Expire(S) \/ Row!Delete(S)
      PROVE  status'[p] # "none"
  <2>1. \E to \in {"expired", "deleted"} :
          status' = [q \in Purchases |-> IF q \in S THEN to ELSE status[q]]
    BY <1>6 DEF Row!Expire, Row!Delete, Row!Becomes
  <2>2. QED
    BY <1>1, <1>2, <2>1
<1>7. QED
  BY <1>3, <1>4, <1>5, <1>6 DEF RowWrite

LEMMA RowStep ==
  TypedInv /\ HandedInv /\ DoomedInv /\ [Next]_vars => [Row!Next]_(Row!vars)
<1> SUFFICES ASSUME TypedInv, HandedInv, DoomedInv, [Next]_vars
             PROVE  Row!Next
  OBVIOUS
<1>1. Row!Pick
  <2> SUFFICES ASSUME NEW p \in Doomed' \ Doomed
               PROVE  p \in Purchases /\ status[p] = "pending"
    BY DEF Row!Pick, Doomed
  <2>1. PICK r \in Requests : p \in doomed'[r]
    BY DEF Doomed
  <2>2. p \in Purchases
    BY <2>1, TypedStep DEF TypedInv, RowsTyped
  <2>3. QED
    BY <2>1, <2>2, PickStep DEF Doomed
<1>2. QED
  BY <1>1, WriteStep DEF RowWrite, Row!Next, Came

LEMMA RowAlways == Spec => [](TypedInv /\ HandedInv /\ DoomedInv)
<1>1. Init => TypedInv /\ HandedInv /\ DoomedInv
  BY TypedInit, HandedInit DEF Init, DoomedInv
<1>2. TypedInv /\ HandedInv /\ DoomedInv /\ [Next]_vars
        => (TypedInv /\ HandedInv /\ DoomedInv)'
  BY TypedStep, HandedStep, WriteStep, DoomedStep
<1>3. QED
  BY <1>1, <1>2, PTL DEF Spec

\* The purchase's row implements the same contract as the billing order's, with
\* deletions: the checks, the expiry, the record for a refund and the three
\* kinds of deletion book, revive and delete only what they saw.
THEOREM OrderImplemented == Spec => OrderKept
<1>1. Init => Row!Init
  <2> SUFFICES ASSUME Init PROVE Row!Init
    OBVIOUS
  <2>1. Doomed = {}
    BY DEF Init, Doomed
  <2>2. Came = [p \in Purchases |-> FALSE]
    BY DEF Init, Came
  <2>3. QED
    BY <2>1, <2>2 DEF Init, Row!Init, Doomed, Came
<1>2. QED
  BY <1>1, RowStep, RowAlways, PTL DEF Spec, OrderKept, Row!Spec

\* What OrderLifecycle_proofs shows of every row that keeps the contract.
RowFacts == INSTANCE OrderLifecycle_proofs
              WITH Orders <- Purchases, late <- old, received <- Came, doomed <- Doomed

LEMMA FactsOfRow == Row!Spec => RowFacts!Spec
<1>1. Row!Init => RowFacts!Init
  BY DEF Row!Init, RowFacts!Init, Came, Doomed
<1>2. [Row!Next]_(Row!vars) => [RowFacts!Next]_(RowFacts!vars)
  BY DEF Came, Doomed, Row!Next, Row!vars, Row!Pick, Row!Becomes, Row!Open,
         Row!Expire, Row!Revive, Row!Book, Row!Delete, Row!Age, Row!Receive,
         RowFacts!Next, RowFacts!vars, RowFacts!Pick, RowFacts!Becomes,
         RowFacts!Open, RowFacts!Expire, RowFacts!Revive, RowFacts!Book,
         RowFacts!Delete, RowFacts!Age, RowFacts!Receive
<1>3. QED
  BY <1>1, <1>2, PTL DEF Row!Spec, RowFacts!Spec

\* No purchase is booked for money that did not come, not even the one that is
\* booked only to be refunded.
BookedForMoney == \A p \in Purchases : status[p] = "paid" => payment[p] # "no"

THEOREM PurchasePaidFor == Spec => []BookedForMoney
<1>1. RowFacts!PaidWasReceived => BookedForMoney
  BY DEF RowFacts!PaidWasReceived, BookedForMoney, Came
<1>2. QED
  BY <1>1, OrderImplemented, FactsOfRow, RowFacts!BookedWasReceived, PTL DEF OrderKept

\* A row that was deleted stays so: no check, refresh or revival that still
\* works on it writes its status again.
DeletedStays == [][\A o \in Purchases : status[o] = "deleted" => status'[o] = "deleted"]_status

THEOREM DeletedForGood == Spec => DeletedStays
<1>1. [\A o \in Purchases : status[o] = "deleted" => status'[o] = "deleted"]_(RowFacts!vars)
      => [\A o \in Purchases : status[o] = "deleted" => status'[o] = "deleted"]_status
  BY DEF RowFacts!vars
<1>2. Spec => RowFacts!DeletedIsKept
  BY OrderImplemented, FactsOfRow, RowFacts!DeletedIsGone, PTL DEF OrderKept
<1>3. QED
  BY <1>1, <1>2, PTL DEF RowFacts!DeletedIsKept, DeletedStays
-----------------------------------------------------------------------------
(***************************************************************************)
(* To how many buyers one asset can go.                                    *)
(***************************************************************************)

\* As long as the lot is not contested, at most one check has seen its account
\* in the seller's hands and not written its new owner yet, and nobody has it.
SoleInv(l) ==
  /\ holder[l] = Seller => given[l] = {}
  /\ HasAccount(l) /\ l \notin contested =>
       /\ \A r, s \in About(l) : r = s
       /\ About(l) # {} => given[l] = {}
  /\ (HasAccount(l) => l \notin contested) => \A p, q \in given[l] : p = q
AllSole == \A l \in Lots : SoleInv(l)

\* A step that gives nothing away sends no other check for the account, or one
\* that finds it in the seller's hands, alone or to be remembered.
Withholds(l) ==
  /\ holder'[l] = holder[l] /\ given'[l] = given[l]
  /\ \/ About(l)' \subseteq About(l)
     \/ ~HasAccount(l)
     \/ /\ holder[l] = Seller
        /\ l \in contested' \/ \E r \in Requests : About(l)' = {r}
Gives(l, r) ==
  /\ r \in About(l) /\ About(l)' = About(l) \ {r} /\ Takes(l)
  /\ \E p \in Purchases : holder'[l] = p /\ given'[l] = given[l] \cup {p}

LEMMA SoleKept ==
  ASSUME NEW l \in Lots, SoleInv(l), kind' = kind, contested \subseteq contested',
         Withholds(l) \/ \E r \in Requests : Gives(l, r)
  PROVE  SoleInv(l)'
<1>0. HasAccount(l)' = HasAccount(l)
  BY DEF HasAccount
<1>1. CASE Withholds(l)
  BY <1>0, <1>1 DEF Withholds, SoleInv
<1>2. ASSUME NEW r \in Requests, Gives(l, r)
      PROVE  SoleInv(l)'
  <2>1. PICK p \in Purchases : holder'[l] = p /\ given'[l] = given[l] \cup {p}
    BY <1>2 DEF Gives
  <2>2. holder'[l] # Seller
    BY <2>1, ShopConstants DEF Seller
  <2>3. HasAccount(l) /\ l \notin contested => About(l)' = {} /\ given'[l] = {p}
    BY <1>2, <2>1 DEF Gives, SoleInv
  <2>4. ~HasAccount(l) => given'[l] = {p}
    BY <1>2, <2>1 DEF Gives, Takes, SoleInv
  <2>5. QED
    BY <1>0, <2>2, <2>3, <2>4 DEF SoleInv
<1>3. QED
  BY <1>1, <1>2

LEMMA SoleMoves ==
  ASSUME TypedInv, [Next]_vars, NEW l \in Lots
  PROVE  /\ kind' = kind /\ contested \subseteq contested'
         /\ Withholds(l) \/ \E r \in Requests : Gives(l, r)
<1> USE DEF TypedInv, RowsTyped
<1>1. ASSUME UNCHANGED <<kind, contested, holder, given>>, About(l)' \subseteq About(l)
      PROVE  kind' = kind /\ contested \subseteq contested' /\ Withholds(l)
  BY <1>1 DEF Withholds
<1>2. ASSUME NEW r \in Requests, UNCHANGED <<kind, contested, holder, given>>, pc'[r] # "give",
             \A s \in Requests : s # r => pc'[s] = pc[s] /\ buy'[s] = buy[s]
      PROVE  kind' = kind /\ contested \subseteq contested' /\ Withholds(l)
  BY <1>1, <1>2 DEF About
<1>3. ASSUME NEW r \in Requests, NEW p \in Purchases,
             CreateRead(r, p) \/ CancelBatchRead(r, p) \/ CheckRead(r, p)
      PROVE  kind' = kind /\ contested \subseteq contested' /\ Withholds(l)
  BY <1>2, <1>3 DEF CreateRead, CancelBatchRead, CheckRead, lotVars
<1>4. ASSUME NEW r \in Requests, NEW k \in Lots, DeleteLotRead(r, k)
      PROVE  kind' = kind /\ contested \subseteq contested' /\ Withholds(l)
  BY <1>2, <1>4 DEF DeleteLotRead, lotVars
<1>5. ASSUME NEW r \in Requests,
             CreateOwn(r) \/ CreateRefresh(r) \/ CreateInsert(r) \/ DeleteRows(r)
      PROVE  kind' = kind /\ contested \subseteq contested' /\ Withholds(l)
  BY <1>2, <1>5 DEF CreateOwn, CreateRefresh, CreateInsert, DeleteRows, Goto, Return, lotVars
<1>6. ASSUME NEW r \in Requests, DeleteLot(r)
      PROVE  kind' = kind /\ contested \subseteq contested' /\ Withholds(l)
  BY <1>2, <1>6 DEF DeleteLot, Return
<1>7. ASSUME NEW r \in Requests,
             CheckExpires(r) \/ CheckItem(r) \/ CheckRefund(r) \/ CheckRevive(r)
      PROVE  kind' = kind /\ contested \subseteq contested' /\ Withholds(l)
  BY <1>2, <1>7 DEF CheckExpires, CheckItem, CheckRefund, CheckRevive, Goto, Return, lotVars
<1>8. ASSUME NEW r \in Requests, CheckClaim(r)
      PROVE  kind' = kind /\ contested \subseteq contested' /\ Withholds(l)
  BY <1>2, <1>8 DEF CheckClaim, Goto, Return, lotVars
<1>9. ASSUME NEW r \in Requests, LotSold(r) \/ DeliverFiles(r) \/ GiveFails(r) \/ Finish(r)
      PROVE  kind' = kind /\ contested \subseteq contested' /\ Withholds(l)
  BY <1>2, <1>9 DEF LotSold, DeliverFiles, GiveFails, Finish, Goto, Return, lotVars
<1>10. ASSUME NEW r \in Requests, CheckRoute(r)
       PROVE  kind' = kind /\ contested \subseteq contested' /\ Withholds(l)
  <2>1. /\ pc[r] = "route" /\ UNCHANGED <<kind, contested, holder, given, buy>>
        /\ \A s \in Requests : s # r => pc'[s] = pc[s]
    BY <1>10 DEF CheckRoute, Goto, lotVars
  <2>2. CASE pc'[r] # "give"
    BY <1>2, <2>1, <2>2
  <2>3. CASE pc'[r] = "give"
    <3>1. ~HasAccount(LotOf[buy[r]])
      BY <1>10, <2>3 DEF CheckRoute, Goto
    <3>2. HasAccount(l) => About(l)' \subseteq About(l)
      BY <2>1, <3>1 DEF About
    <3>3. QED
      BY <2>1, <3>2 DEF Withholds
  <2>4. QED
    BY <2>2, <2>3
<1>11. ASSUME NEW r \in Requests, PickAccount(r)
       PROVE  kind' = kind /\ contested \subseteq contested' /\ Withholds(l)
  <2>1. /\ UNCHANGED <<kind, holder, given, buy>>
        /\ \A s \in Requests : s # r => pc'[s] = pc[s]
        /\ contested \subseteq contested'
    BY <1>11 DEF PickAccount
  <2>2. CASE LotOf[buy[r]] = l /\ Transferable(l)
    <3>1. About(l)' = About(l) \cup {r}
      BY <1>11, <2>1, <2>2 DEF PickAccount, About
    <3>2. About(l) = {} \/ l \in contested'
      BY <1>11, <2>2 DEF PickAccount
    <3>3. QED
      BY <2>1, <2>2, <3>1, <3>2 DEF Withholds, Transferable
  <2>3. CASE ~(LotOf[buy[r]] = l /\ Transferable(l))
    <3>1. About(l)' \subseteq About(l)
      BY <1>11, <2>1, <2>3 DEF PickAccount, About
    <3>2. QED
      BY <2>1, <3>1 DEF Withholds
  <2>4. QED
    BY <2>2, <2>3
<1>12. ASSUME NEW r \in Requests, GiveAsset(r)
       PROVE  kind' = kind /\ contested \subseteq contested' /\ (Withholds(l) \/ Gives(l, r))
  <2>1. /\ pc[r] = "give" /\ buy[r] \in Purchases /\ LotOf[buy[r]] \in Lots
        /\ kind' = kind /\ contested' = contested /\ pc' = [pc EXCEPT ![r] = "shelf"] /\ buy' = buy
    BY <1>12, ShopConstants DEF GiveAsset, Goto, LocalsOK
  <2>2. CASE ~Takes(LotOf[buy[r]])
    BY <1>2, <1>12, <2>1, <2>2 DEF GiveAsset
  <2>3. CASE Takes(LotOf[buy[r]])
    <3>1. /\ holder' = [holder EXCEPT ![LotOf[buy[r]]] = buy[r]]
          /\ given' = [given EXCEPT ![LotOf[buy[r]]] = @ \cup {buy[r]}]
      BY <1>12, <2>3 DEF GiveAsset
    <3>2. CASE LotOf[buy[r]] = l
      <4>1. r \in About(l) /\ About(l)' = About(l) \ {r}
        BY <2>1, <3>2 DEF About
      <4>2. holder'[l] = buy[r] /\ given'[l] = given[l] \cup {buy[r]}
        BY <3>1, <3>2
      <4>3. QED
        BY <2>1, <2>3, <3>2, <4>1, <4>2 DEF Gives
    <3>3. CASE LotOf[buy[r]] # l
      <4>1. holder'[l] = holder[l] /\ given'[l] = given[l]
        BY <3>1, <3>3
      <4>2. About(l)' \subseteq About(l)
        BY <2>1 DEF About
      <4>3. QED
        BY <2>1, <4>1, <4>2 DEF Withholds
    <3>4. QED
      BY <3>2, <3>3
  <2>4. QED
    BY <2>2, <2>3
<1>13. CASE (\E p \in Purchases : Cancel(p) \/ Pay(p) \/ Ages(p)) \/ ExpiryJob \/ UNCHANGED vars
            \/ \E k \in Lots : Unpublish(k) \/ Quarantine(k) \/ Restore(k)
  <2>1. UNCHANGED <<kind, contested, holder, given, pc, buy>>
    BY <1>13 DEF Cancel, Pay, Ages, ExpiryJob, Unpublish, Quarantine, Restore, vars, lotVars, locals
  <2>2. QED
    BY <1>1, <2>1 DEF About
<1>14. CASE Restart
  BY <1>1, <1>14 DEF Restart, LocalsIdle, lotVars, About
<1>15. QED
  BY <1>3, <1>4, <1>5, <1>6, <1>7, <1>8, <1>9, <1>10, <1>11, <1>12, <1>13, <1>14
  DEF Next, RequestStep

\* For any number of requests and purchases: a lot goes to one buyer, unless
\* two checks read its account before either wrote the new owner.
THEOREM SoldToOneOrFew == Spec => []SoldToFew
<1>1. Init => AllSole
  BY DEF Init, AllSole, SoleInv, About
<1>2. TypedInv /\ AllSole /\ [Next]_vars => AllSole'
  BY SoleKept, SoleMoves DEF AllSole
<1>3. TypedInv /\ AllSole => SoldToFew
  <2> SUFFICES ASSUME TypedInv, AllSole, NEW l \in Lots, HasAccount(l) => l \notin contested
               PROVE  Cardinality(given[l]) <= 1
    BY DEF SoldToFew
  <2>1. \A p, q \in given[l] : p = q
    BY DEF AllSole, SoleInv
  <2>2. CASE given[l] = {}
    BY <2>2, FS_EmptySet
  <2>3. CASE given[l] # {}
    <3>1. PICK p \in given[l] : given[l] = {p}
      BY <2>1, <2>3
    <3>2. Cardinality({p}) = 1
      BY FS_Singleton
    <3>3. QED
      BY <3>1, <3>2
  <2>4. QED
    BY <2>2, <2>3
<1>4. QED
  BY <1>1, <1>2, <1>3, TypedInit, TypedStep, PTL DEF Spec
=============================================================================
