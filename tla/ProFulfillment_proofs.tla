------------------------ MODULE ProFulfillment_proofs ------------------------
(***************************************************************************)
(* Proofs about ProFulfillment, for any sets of orders, lots, workers and  *)
(* timestamps: the claim protocol implements FulfillmentLease, and a lot   *)
(* on sale for the first time is sold once.                                *)
(***************************************************************************)
EXTENDS ProFulfillment, FiniteSetTheorems, TLAPS

USE FulfillmentConstants DEF NoToken, NoLot, Holding, Selling, InRun, Goto,
    Leave, orderVars, assetVars, shopVars, workerVars, history, ProxyTo, BotTo

\* Type correctness together with what a running call holds in its hands.
TypedInv == TypeOK /\ LocalsOK

LEMMA TypedInit == Init => TypedInv
  BY DEF Init, TypedInv, TypeOK, RowsTyped, WorkersTyped, ShopTyped, LocalsOK

(***************************************************************************)
(* A check of the Shop: it leaves the orders, their sales and the workers  *)
(* alone, and gives a lot's assets only to a buyer who paid for the lot.   *)
(***************************************************************************)
Bought(i) == {b \in Buyers : want[b] = i}

ShopMoves ==
  /\ UNCHANGED <<orderVars, deal, workerVars, history>>
  /\ \A b \in Buyers : want[b] \in Lots => want'[b] = want[b]
  /\ \A i \in Lots :
       /\ lot'[i] \in {lot[i], "sold"}
       /\ botOf'[i] \in {botOf[i]} \cup Bought(i)'
       /\ proxyOf'[i] \in {proxyOf[i]} \cup Bought(i)'

\* The columns a Shop check may write are lists of the same lots as before.
ShopShape == /\ DOMAIN lot' = Lots /\ DOMAIN botOf' = Lots /\ DOMAIN proxyOf' = Lots
             /\ lot' = [i \in Lots |-> lot'[i]]
             /\ botOf' = [i \in Lots |-> botOf'[i]]
             /\ proxyOf' = [i \in Lots |-> proxyOf'[i]]

LEMMA ShopActions ==
  ASSUME RowsTyped, ShopTyped, NEW b \in Buyers,
         ShopStep(b) \/ \E i \in Wanted : ShopBooks(b, i)
  PROVE  ShopMoves /\ ShopTyped' /\ ShopShape
<1> USE DEF ShopMoves, ShopTyped, ShopShape, Bought, Transfer
<1>0. /\ lot = [i \in Lots |-> lot[i]] /\ botOf = [i \in Lots |-> botOf[i]]
      /\ proxyOf = [i \in Lots |-> proxyOf[i]]
  BY DEF RowsTyped
<1>1. CASE \E i \in Wanted : ShopBooks(b, i)
  <2>1. PICK i \in Wanted : ShopBooks(b, i)
    BY <1>1
  <2>2. i \in Lots /\ FirstAsset(i) \in Transfer
    BY DEF FirstAsset
  <2>3. QED
    BY <1>0, <2>1, <2>2 DEF ShopBooks
<1>2. CASE shop[b] \in Transfer /\ ShopStep(b)
  <2>1. want[b] \in Lots
    BY <1>2
  <2>2. CASE ShopProxy(b)
    BY <1>0, <2>1, <2>2 DEF ShopProxy, ShopAt, AfterProxy
  <2>3. CASE ShopReadBot(b)
    BY <1>0, <2>1, <2>3 DEF ShopReadBot, ShopAt
  <2>4. CASE ShopMoveBot(b)
    BY <1>0, <2>1, <2>4 DEF ShopMoveBot, ShopAt, AfterBot
  <2>5. CASE ShopMarkSold(b)
    BY <1>0, <2>1, <2>5 DEF ShopMarkSold, ShopAt
  <2>6. CASE ShopFails(b)
    BY <1>0, <2>1, <2>6 DEF ShopFails
  <2>7. QED
    BY <1>2, <2>2, <2>3, <2>4, <2>5, <2>6 DEF ShopStep
<1>3. ShopStep(b) => shop[b] \in Transfer
  BY DEF ShopStep, ShopProxy, ShopReadBot, ShopMoveBot, ShopMarkSold, ShopFails, ShopAt
<1>4. QED
  BY <1>1, <1>2, <1>3

\* No step but those of the Shop checks and a crash touches their state.
LEMMA ShopTypedStep == TypedInv /\ [Next]_vars => ShopTyped'
<1> SUFFICES ASSUME TypedInv, [Next]_vars PROVE ShopTyped'
  OBVIOUS
<1>0. RowsTyped /\ ShopTyped
  BY DEF TypedInv, TypeOK
<1>1. ASSUME UNCHANGED shopVars PROVE ShopTyped'
  BY <1>0, <1>1 DEF ShopTyped
<1>2. ASSUME NEW w \in Workers, WorkerStep(w) \/ Throw(w) \/ \E o \in Orders : Call(w, o)
      PROVE  ShopTyped'
  <2>1. UNCHANGED shopVars
    BY <1>2 DEF Call, Throw, WorkerStep, ReadOrder, ClaimOrder, LoadLots, NextLot,
       TakeLot, RecordDeal, MoveProxy, ReadBot, MoveBot, MarkSold, CloseDeal,
       Complete, FailDeal, FailOrder
  <2>2. QED
    BY <1>1, <2>1
<1>3. CASE Crash
  BY <1>0, <1>3 DEF Crash, ShopTyped, Transfer
<1>4. CASE (\E o \in Orders : Lapse(o)) \/ (\E i \in Withdrawn : Unpublish(i) \/ Relist(i))
           \/ UNCHANGED vars
  BY <1>1, <1>4 DEF Lapse, Unpublish, Relist, vars
<1>5. CASE \E b \in Buyers : ShopStep(b) \/ \E i \in Wanted : ShopBooks(b, i)
  BY <1>0, <1>5, ShopActions
<1>6. QED
  BY <1>2, <1>3, <1>4, <1>5 DEF Next

\* A new claim is later than what any row carries.
LEMMA NewTokenLater ==
  Later # {} => NewToken \in Tokens /\ \A o \in Orders : token[o] < NewToken
  BY DEF Later, NewToken

LEMMA TokensAreTimes ==
  TypedInv => /\ \A o \in Orders : token[o] \in Nat
              /\ \A w \in Workers : own[w] \in Nat
<1>1. \A t \in Tokens \cup {NoToken} : t \in Nat
  OBVIOUS
<1>2. TypedInv => /\ \A o \in Orders : token[o] \in Tokens \cup {NoToken}
                  /\ \A w \in Workers : own[w] \in Tokens \cup {NoToken}
  BY DEF TypedInv, TypeOK, RowsTyped, WorkersTyped
<1>3. QED
  BY <1>1, <1>2

LEMMA TypedStep == TypedInv /\ [Next]_vars => TypedInv'
<1> SUFFICES ASSUME RowsTyped, WorkersTyped, ShopTyped, LocalsOK, [Next]_vars
             PROVE  RowsTyped' /\ WorkersTyped' /\ LocalsOK'
  BY ShopTypedStep DEF TypedInv, TypeOK
<1>1. ASSUME NEW w \in Workers, NEW o \in Orders, Call(w, o)
      PROVE  RowsTyped' /\ WorkersTyped' /\ LocalsOK'
  <2>1. RowsTyped'
    BY <1>1 DEF Call, RowsTyped, WorkersTyped, LocalsOK
  <2>2. WorkersTyped'
    BY <1>1 DEF Call, RowsTyped, WorkersTyped, LocalsOK
  <2>3. LocalsOK'
    BY <1>1 DEF Call, WorkersTyped, LocalsOK
  <2>4. QED
    BY <2>1, <2>2, <2>3
<1>2. ASSUME NEW w \in Workers, ReadOrder(w)
      PROVE  RowsTyped' /\ WorkersTyped' /\ LocalsOK'
  <2>1. RowsTyped'
    BY <1>2 DEF ReadOrder, RowsTyped, WorkersTyped, LocalsOK
  <2>2. WorkersTyped'
    <3>1. order[w] \in Orders
      BY <1>2 DEF ReadOrder, LocalsOK
    <3>2. CASE Reclaimable(order[w])
      <4>1. /\ seen' = [seen EXCEPT ![w] = status[order[w]]]
            /\ own'  = [own EXCEPT ![w] = token[order[w]]]
            /\ pc'   = [pc EXCEPT ![w] = "claim"]
            /\ UNCHANGED <<order, todo, item>>
        BY <1>2, <3>2 DEF ReadOrder
      <4>2. /\ status[order[w]] \in {"none", "processing", "completed", "failed"}
            /\ token[order[w]] \in Tokens \cup {NoToken}
        BY <3>1 DEF RowsTyped
      <4>3. QED
        BY <4>1, <4>2 DEF WorkersTyped
    <3>3. CASE ~Reclaimable(order[w])
      BY <1>2, <3>3 DEF ReadOrder, WorkersTyped
    <3>4. QED
      BY <3>2, <3>3
  <2>3. LocalsOK'
    BY <1>2 DEF ReadOrder, WorkersTyped, LocalsOK
  <2>4. QED
    BY <2>1, <2>2, <2>3
<1>3. ASSUME NEW w \in Workers, ClaimOrder(w)
      PROVE  RowsTyped' /\ WorkersTyped' /\ LocalsOK'
  <2>1. RowsTyped'
    <3>1. order[w] \in Orders
      BY <1>3 DEF ClaimOrder, LocalsOK
    <3>2. CASE UnclaimedSince(w)
      <4>1. NewToken \in Tokens
        BY <1>3, <3>2, NewTokenLater DEF ClaimOrder
      <4>2. /\ status'  = [status EXCEPT ![order[w]] = "processing"]
            /\ token'   = [token EXCEPT ![order[w]] = NewToken]
            /\ lapsed'  = [lapsed EXCEPT ![order[w]] = FALSE]
            /\ settler' = [settler EXCEPT ![order[w]] = NoToken]
            /\ again' \in {again, again \cup {order[w]}}
            /\ UNCHANGED <<lot, botOf, proxyOf, deal, relisted>>
        BY <1>3, <3>2 DEF ClaimOrder
      <4>3. QED
        BY <3>1, <4>1, <4>2 DEF RowsTyped
    <3>3. CASE ~UnclaimedSince(w)
      BY <1>3, <3>3 DEF ClaimOrder, RowsTyped
    <3>4. QED
      BY <3>2, <3>3
  <2>2. WorkersTyped'
    <3>1. CASE UnclaimedSince(w)
      <4>1. NewToken \in Tokens
        BY <1>3, <3>1, NewTokenLater DEF ClaimOrder
      <4>2. QED
        BY <1>3, <3>1, <4>1 DEF ClaimOrder, WorkersTyped
    <3>2. CASE ~UnclaimedSince(w)
      BY <1>3, <3>2 DEF ClaimOrder, WorkersTyped
    <3>3. QED
      BY <3>1, <3>2
  <2>3. LocalsOK'
    BY <1>3 DEF ClaimOrder, Later, NewToken, WorkersTyped, LocalsOK
  <2>4. QED
    BY <2>1, <2>2, <2>3
<1>4. ASSUME NEW w \in Workers, LoadLots(w)
      PROVE  RowsTyped' /\ WorkersTyped' /\ LocalsOK'
  <2>1. RowsTyped'
    BY <1>4 DEF LoadLots, RowsTyped, WorkersTyped, LocalsOK
  <2>2. WorkersTyped'
    BY <1>4 DEF LoadLots, RowsTyped, WorkersTyped, LocalsOK
  <2>3. LocalsOK'
    BY <1>4 DEF LoadLots, WorkersTyped, LocalsOK
  <2>4. QED
    BY <2>1, <2>2, <2>3
<1>5. ASSUME NEW w \in Workers, NextLot(w)
      PROVE  RowsTyped' /\ WorkersTyped' /\ LocalsOK'
  <2>1. RowsTyped'
    BY <1>5 DEF NextLot, RowsTyped, WorkersTyped, LocalsOK
  <2>2. WorkersTyped'
    <3>1. CASE todo[w] = {} \/ token[order[w]] # own[w]
      BY <1>5, <3>1 DEF NextLot, WorkersTyped
    <3>2. CASE todo[w] # {} /\ token[order[w]] = own[w]
      <4>1. PICK i \in todo[w] :
              /\ todo' = [todo EXCEPT ![w] = @ \ {i}]
              /\ \/ item' = [item EXCEPT ![w] = i] /\ Goto(w, "take")
                 \/ UNCHANGED <<item, pc>>
              /\ UNCHANGED <<order, seen, own>>
        BY <1>5, <3>2 DEF NextLot
      <4>2. i \in Lots
        BY DEF WorkersTyped
      <4>3. QED
        BY <4>1, <4>2 DEF WorkersTyped
    <3>3. QED
      BY <3>1, <3>2
  <2>3. LocalsOK'
    BY <1>5 DEF NextLot, WorkersTyped, LocalsOK
  <2>4. QED
    BY <2>1, <2>2, <2>3
<1>6. ASSUME NEW w \in Workers, TakeLot(w)
      PROVE  RowsTyped' /\ WorkersTyped' /\ LocalsOK'
  <2>1. RowsTyped'
    <3>1. lot' \in [Lots -> {"published", "sold", "draft"}]
      BY <1>6 DEF TakeLot, RowsTyped
    <3>2. QED
      BY <1>6, <3>1 DEF TakeLot, RowsTyped
  <2>2. WorkersTyped'
    <3>1. CASE /\ todo' = [todo EXCEPT ![w] = {}] /\ pc' = [pc EXCEPT ![w] = "record"]
               /\ UNCHANGED <<order, seen, own, item>>
      BY <3>1 DEF WorkersTyped
    <3>2. CASE /\ item' = [item EXCEPT ![w] = NoLot] /\ pc' = [pc EXCEPT ![w] = "next"]
               /\ UNCHANGED <<order, seen, own, todo>>
      BY <3>2 DEF WorkersTyped
    <3>3. QED
      BY <1>6, <3>1, <3>2 DEF TakeLot
  <2>3. LocalsOK'
    BY <1>6 DEF TakeLot, WorkersTyped, LocalsOK
  <2>4. QED
    BY <2>1, <2>2, <2>3
<1>7. ASSUME NEW w \in Workers, RecordDeal(w)
      PROVE  RowsTyped' /\ WorkersTyped' /\ LocalsOK'
  <2>1. RowsTyped'
    <3>1. deal' \in [Orders -> [Lots -> {"none", "pending", "completed", "failed"}]]
      <4>1. CASE UNCHANGED deal
        BY <4>1 DEF RowsTyped
      <4>2. CASE SetDeal(w, "pending")
        BY <4>2 DEF SetDeal, RowsTyped
      <4>3. QED
        BY <1>7, <4>1, <4>2 DEF RecordDeal
    <3>2. QED
      BY <1>7, <3>1 DEF RecordDeal, RowsTyped
  <2>2. WorkersTyped'
    BY <1>7 DEF RecordDeal, SetDeal, FirstAsset, RowsTyped, WorkersTyped, LocalsOK
  <2>3. LocalsOK'
    BY <1>7 DEF RecordDeal, SetDeal, FirstAsset, WorkersTyped, LocalsOK
  <2>4. QED
    BY <2>1, <2>2, <2>3
<1>8. ASSUME NEW w \in Workers, MoveProxy(w)
      PROVE  RowsTyped' /\ WorkersTyped' /\ LocalsOK'
  <2>1. RowsTyped'
    BY <1>8 DEF MoveProxy, AfterProxy, RowsTyped, WorkersTyped, LocalsOK
  <2>2. WorkersTyped'
    BY <1>8 DEF MoveProxy, AfterProxy, RowsTyped, WorkersTyped, LocalsOK
  <2>3. LocalsOK'
    BY <1>8 DEF MoveProxy, AfterProxy, WorkersTyped, LocalsOK
  <2>4. QED
    BY <2>1, <2>2, <2>3
<1>9. ASSUME NEW w \in Workers, ReadBot(w)
      PROVE  RowsTyped' /\ WorkersTyped' /\ LocalsOK'
  <2>1. RowsTyped'
    BY <1>9 DEF ReadBot, RowsTyped, WorkersTyped, LocalsOK
  <2>2. WorkersTyped'
    BY <1>9 DEF ReadBot, RowsTyped, WorkersTyped, LocalsOK
  <2>3. LocalsOK'
    BY <1>9 DEF ReadBot, WorkersTyped, LocalsOK
  <2>4. QED
    BY <2>1, <2>2, <2>3
<1>10. ASSUME NEW w \in Workers, MoveBot(w)
      PROVE  RowsTyped' /\ WorkersTyped' /\ LocalsOK'
  <2>1. RowsTyped'
    BY <1>10 DEF MoveBot, AfterBot, RowsTyped, WorkersTyped, LocalsOK
  <2>2. WorkersTyped'
    BY <1>10 DEF MoveBot, AfterBot, RowsTyped, WorkersTyped, LocalsOK
  <2>3. LocalsOK'
    BY <1>10 DEF MoveBot, AfterBot, WorkersTyped, LocalsOK
  <2>4. QED
    BY <2>1, <2>2, <2>3
<1>11. ASSUME NEW w \in Workers, MarkSold(w)
      PROVE  RowsTyped' /\ WorkersTyped' /\ LocalsOK'
  <2>1. RowsTyped'
    BY <1>11 DEF MarkSold, RowsTyped, WorkersTyped, LocalsOK
  <2>2. WorkersTyped'
    BY <1>11 DEF MarkSold, RowsTyped, WorkersTyped, LocalsOK
  <2>3. LocalsOK'
    BY <1>11 DEF MarkSold, WorkersTyped, LocalsOK
  <2>4. QED
    BY <2>1, <2>2, <2>3
<1>12. ASSUME NEW w \in Workers, CloseDeal(w)
      PROVE  RowsTyped' /\ WorkersTyped' /\ LocalsOK'
  <2>1. RowsTyped'
    <3>1. deal' \in [Orders -> [Lots -> {"none", "pending", "completed", "failed"}]]
      <4>1. CASE UNCHANGED deal
        BY <4>1 DEF RowsTyped
      <4>2. CASE SetDeal(w, "completed")
        BY <4>2 DEF SetDeal, RowsTyped
      <4>3. QED
        BY <1>12, <4>1, <4>2 DEF CloseDeal
    <3>2. QED
      BY <1>12, <3>1 DEF CloseDeal, RowsTyped
  <2>2. WorkersTyped'
    BY <1>12 DEF CloseDeal, SetDeal, RowsTyped, WorkersTyped, LocalsOK
  <2>3. LocalsOK'
    BY <1>12 DEF CloseDeal, SetDeal, WorkersTyped, LocalsOK
  <2>4. QED
    BY <2>1, <2>2, <2>3
<1>13. ASSUME NEW w \in Workers, Complete(w)
      PROVE  RowsTyped' /\ WorkersTyped' /\ LocalsOK'
  <2>1. RowsTyped'
    <3>1. UNCHANGED <<token, lapsed, lot, botOf, proxyOf, deal, again, relisted>>
      BY <1>13 DEF Complete
    <3>2. CASE UNCHANGED <<status, settler>>
      BY <3>1, <3>2 DEF RowsTyped
    <3>3. CASE /\ status'  = [status EXCEPT ![order[w]] = "completed"]
               /\ settler' = [settler EXCEPT ![order[w]] = own[w]]
      BY <3>1, <3>3 DEF RowsTyped, WorkersTyped
    <3>4. QED
      BY <1>13, <3>2, <3>3 DEF Complete, Settle
  <2>2. WorkersTyped'
    <3>1. CASE Settle(w, "completed")
      BY <3>1 DEF Settle, WorkersTyped
    <3>2. CASE pc' = [pc EXCEPT ![w] = "failDeal"] /\ UNCHANGED <<order, seen, own, todo, item>>
      BY <3>2 DEF WorkersTyped
    <3>3. QED
      BY <1>13, <3>1, <3>2 DEF Complete
  <2>3. LocalsOK'
    BY <1>13 DEF Complete, Settle, WorkersTyped, LocalsOK
  <2>4. QED
    BY <2>1, <2>2, <2>3
<1>14. ASSUME NEW w \in Workers, FailDeal(w)
      PROVE  RowsTyped' /\ WorkersTyped' /\ LocalsOK'
  <2>1. RowsTyped'
    <3>1. deal' \in [Orders -> [Lots -> {"none", "pending", "completed", "failed"}]]
      <4>1. CASE UNCHANGED deal
        BY <4>1 DEF RowsTyped
      <4>2. CASE SetDeal(w, "failed")
        BY <4>2 DEF SetDeal, RowsTyped
      <4>3. QED
        BY <1>14, <4>1, <4>2 DEF FailDeal
    <3>2. QED
      BY <1>14, <3>1 DEF FailDeal, RowsTyped
  <2>2. WorkersTyped'
    BY <1>14 DEF FailDeal, SetDeal, RowsTyped, WorkersTyped, LocalsOK
  <2>3. LocalsOK'
    BY <1>14 DEF FailDeal, SetDeal, WorkersTyped, LocalsOK
  <2>4. QED
    BY <2>1, <2>2, <2>3
<1>15. ASSUME NEW w \in Workers, FailOrder(w)
      PROVE  RowsTyped' /\ WorkersTyped' /\ LocalsOK'
  <2>1. RowsTyped'
    BY <1>15 DEF FailOrder, Settle, RowsTyped, WorkersTyped, LocalsOK
  <2>2. WorkersTyped'
    BY <1>15 DEF FailOrder, Settle, RowsTyped, WorkersTyped, LocalsOK
  <2>3. LocalsOK'
    BY <1>15 DEF FailOrder, Settle, WorkersTyped, LocalsOK
  <2>4. QED
    BY <2>1, <2>2, <2>3
<1>16. ASSUME NEW w \in Workers, Throw(w)
      PROVE  RowsTyped' /\ WorkersTyped' /\ LocalsOK'
  <2>1. RowsTyped'
    BY <1>16 DEF Throw, MayThrow, RowsTyped, WorkersTyped, LocalsOK
  <2>2. WorkersTyped'
    BY <1>16 DEF Throw, MayThrow, RowsTyped, WorkersTyped, LocalsOK
  <2>3. LocalsOK'
    BY <1>16 DEF Throw, MayThrow, WorkersTyped, LocalsOK
  <2>4. QED
    BY <2>1, <2>2, <2>3
<1>17. ASSUME Crash
      PROVE  RowsTyped' /\ WorkersTyped' /\ LocalsOK'
  <2>1. RowsTyped'
    BY <1>17 DEF Crash, RowsTyped, WorkersTyped, LocalsOK
  <2>2. WorkersTyped'
    BY <1>17 DEF Crash, RowsTyped, WorkersTyped, LocalsOK
  <2>3. LocalsOK'
    BY <1>17 DEF Crash, WorkersTyped, LocalsOK
  <2>4. QED
    BY <2>1, <2>2, <2>3
<1>18. ASSUME NEW o \in Orders, Lapse(o)
      PROVE  RowsTyped' /\ WorkersTyped' /\ LocalsOK'
  <2>1. RowsTyped'
    BY <1>18 DEF Lapse, RowsTyped, WorkersTyped, LocalsOK
  <2>2. WorkersTyped'
    BY <1>18 DEF Lapse, RowsTyped, WorkersTyped, LocalsOK
  <2>3. LocalsOK'
    BY <1>18 DEF Lapse, WorkersTyped, LocalsOK
  <2>4. QED
    BY <2>1, <2>2, <2>3
<1>19. ASSUME NEW i \in Withdrawn, Unpublish(i)
      PROVE  RowsTyped' /\ WorkersTyped' /\ LocalsOK'
  <2>1. RowsTyped'
    BY <1>19 DEF Unpublish, RowsTyped, WorkersTyped, LocalsOK
  <2>2. WorkersTyped'
    BY <1>19 DEF Unpublish, RowsTyped, WorkersTyped, LocalsOK
  <2>3. LocalsOK'
    BY <1>19 DEF Unpublish, WorkersTyped, LocalsOK
  <2>4. QED
    BY <2>1, <2>2, <2>3
<1>20. ASSUME NEW i \in Withdrawn, Relist(i)
      PROVE  RowsTyped' /\ WorkersTyped' /\ LocalsOK'
  <2>1. RowsTyped'
    BY <1>20 DEF Relist, RowsTyped, WorkersTyped, LocalsOK
  <2>2. WorkersTyped'
    BY <1>20 DEF Relist, RowsTyped, WorkersTyped, LocalsOK
  <2>3. LocalsOK'
    BY <1>20 DEF Relist, WorkersTyped, LocalsOK
  <2>4. QED
    BY <2>1, <2>2, <2>3
<1>21. CASE UNCHANGED vars
  BY <1>21 DEF vars, RowsTyped, WorkersTyped, LocalsOK
<1>22. ASSUME NEW b \in Buyers, ShopStep(b) \/ \E i \in Wanted : ShopBooks(b, i)
       PROVE  RowsTyped' /\ WorkersTyped' /\ LocalsOK'
  <2>1. ShopMoves /\ ShopShape
    BY <1>22, ShopActions
  <2>2. /\ lot' \in [Lots -> {"published", "sold", "draft"}]
        /\ botOf' \in [Lots -> Orders \cup Buyers \cup {Seller}]
        /\ proxyOf' \in [Lots -> Orders \cup Buyers \cup {Seller}]
    <3>1. \A i \in Lots : /\ lot'[i] \in {"published", "sold", "draft"}
                          /\ botOf'[i] \in Orders \cup Buyers \cup {Seller}
                          /\ proxyOf'[i] \in Orders \cup Buyers \cup {Seller}
      BY <2>1 DEF ShopMoves, RowsTyped, Bought
    <3>2. QED
      BY <2>1, <3>1 DEF ShopShape
  <2>3. QED
    BY <2>1, <2>2 DEF ShopMoves, RowsTyped, WorkersTyped, LocalsOK
<1>23. QED
  BY <1>1, <1>2, <1>3, <1>4, <1>5, <1>6, <1>7, <1>8, <1>9, <1>10, <1>11, <1>12, <1>13, <1>14, <1>15, <1>16, <1>17, <1>18, <1>19, <1>20, <1>21, <1>22 DEF Next, WorkerStep

\* Every row and every local variable keeps its type: in particular a lot and
\* its two assets always belong to the seller or to a buyer.
THEOREM TypeCorrect == Spec => []TypeOK
<1>1. Spec => []TypedInv
  BY TypedInit, TypedStep, PTL DEF Spec
<1>2. QED
  BY <1>1, PTL DEF TypedInv
-----------------------------------------------------------------------------
(***************************************************************************)
(* The claim protocol.  Only a claim, a lapse and the settlement write the *)
(* columns the contract speaks of; every other step is quiet.              *)
(***************************************************************************)
leaseVars == <<status, token, lapsed, settler>>

\* The step of a worker that keeps its claim, or that drops it.
Quiet(w) ==
  /\ UNCHANGED leaseVars
  /\ \A v \in Workers \ {w} :
       /\ pc'[v] = pc[v] /\ order'[v] = order[v]
       /\ seen'[v] = seen[v] /\ own'[v] = own[v]
  /\ \/ pc'[w] \in {"idle", "read"}
     \/ /\ pc[w] \in Holding /\ pc'[w] \in Holding
        /\ order'[w] = order[w] /\ own'[w] = own[w]

LEMMA QuietActions ==
  ASSUME NEW w \in Workers, TypedInv,
         \/ \E o \in Orders : Call(w, o)
         \/ LoadLots(w) \/ NextLot(w) \/ TakeLot(w) \/ RecordDeal(w)
         \/ MoveProxy(w) \/ ReadBot(w) \/ MoveBot(w) \/ MarkSold(w)
         \/ CloseDeal(w) \/ FailDeal(w) \/ Throw(w)
  PROVE  Quiet(w)
<1> USE DEF TypedInv, TypeOK, WorkersTyped, Quiet, leaseVars
<1>1. CASE \E o \in Orders : Call(w, o)
  BY <1>1 DEF Call
<1>2. CASE LoadLots(w)
  BY <1>2 DEF LoadLots
<1>3. CASE NextLot(w)
  BY <1>3 DEF NextLot
<1>4. CASE TakeLot(w)
  BY <1>4 DEF TakeLot
<1>5. CASE RecordDeal(w)
  BY <1>5 DEF RecordDeal, FirstAsset
<1>6. CASE MoveProxy(w)
  BY <1>6 DEF MoveProxy, AfterProxy
<1>7. CASE ReadBot(w)
  BY <1>7 DEF ReadBot
<1>8. CASE MoveBot(w)
  BY <1>8 DEF MoveBot, AfterBot
<1>9. CASE MarkSold(w)
  BY <1>9 DEF MarkSold
<1>10. CASE CloseDeal(w)
  BY <1>10 DEF CloseDeal
<1>11. CASE FailDeal(w)
  BY <1>11 DEF FailDeal
<1>12. CASE Throw(w)
  BY <1>12 DEF Throw
<1>13. QED
  BY <1>1, <1>2, <1>3, <1>4, <1>5, <1>6, <1>7, <1>8, <1>9, <1>10, <1>11, <1>12

LEMMA QuietKeepsLease ==
  ASSUME NEW w \in Workers, LeaseInv, Quiet(w)
  PROVE  LeaseInv'
<1> USE DEF LeaseInv, Quiet, leaseVars
<1>1. \A v \in Workers : OwnIsOld(v)'
  BY DEF OwnIsOld
<1>2. \A v \in Workers : ReadAsLapsed(v)'
  BY DEF ReadAsLapsed, UnclaimedSince
<1>3. \A v \in Workers : HeldIsLive(v)'
  BY DEF HeldIsLive
<1>4. \A v, u \in Workers : HeldApart(v, u)'
  BY DEF HeldApart
<1>5. QED
  BY <1>1, <1>2, <1>3, <1>4

\* The order is read: what the worker saw is what the row says.
LEMMA ReadKeepsLease ==
  ASSUME NEW w \in Workers, TypedInv, LeaseInv, ReadOrder(w)
  PROVE  LeaseInv' /\ UNCHANGED leaseVars
<1> USE DEF TypedInv, TypeOK, WorkersTyped, LeaseInv, ReadOrder, leaseVars
<1>0. order[w] \in Orders
  BY DEF LocalsOK
<1>1. \A v \in Workers : OwnIsOld(v)'
  BY <1>0, TokensAreTimes DEF OwnIsOld
<1>2. \A v \in Workers : ReadAsLapsed(v)'
  BY <1>0 DEF ReadAsLapsed, UnclaimedSince, Reclaimable
<1>3. \A v \in Workers : HeldIsLive(v)'
  BY DEF HeldIsLive
<1>4. \A v, u \in Workers : HeldApart(v, u)'
  BY DEF HeldApart
<1>5. QED
  BY <1>1, <1>2, <1>3, <1>4

\* A claim is made of a free order, with a timestamp no worker holds.
LEMMA ClaimKeepsLease ==
  ASSUME NEW w \in Workers, TypedInv, LeaseInv, ClaimOrder(w)
  PROVE  LeaseInv' /\ [Lease!Next]_leaseVars
<1> USE DEF TypedInv, TypeOK, WorkersTyped, LeaseInv, leaseVars
<1>0. order[w] \in Orders
  BY DEF LocalsOK, ClaimOrder
<1>1. CASE ~UnclaimedSince(w)
  <2>1. Quiet(w)
    BY <1>1 DEF ClaimOrder, Quiet
  <2>2. QED
    BY <2>1, QuietKeepsLease DEF Quiet
<1>2. CASE UnclaimedSince(w)
  <2> DEFINE o == order[w]
  <2>1. /\ pc[w] = "claim"
        /\ status'  = [status EXCEPT ![o] = "processing"]
        /\ token'   = [token EXCEPT ![o] = NewToken]
        /\ lapsed'  = [lapsed EXCEPT ![o] = FALSE]
        /\ settler' = [settler EXCEPT ![o] = NoToken]
        /\ own'     = [own EXCEPT ![w] = NewToken]
        /\ seen'    = [seen EXCEPT ![w] = "none"]
        /\ pc'      = [pc EXCEPT ![w] = "load"]
        /\ order'   = order
    BY <1>2 DEF ClaimOrder
  <2>2. NewToken \in Tokens /\ \A q \in Orders : token[q] < NewToken
    BY <1>2, NewTokenLater DEF ClaimOrder
  <2>3. /\ status \in [Orders -> {"none", "processing", "completed", "failed"}]
        /\ token \in [Orders -> Tokens \cup {NoToken}]
        /\ lapsed \in [Orders -> BOOLEAN]
    BY DEF RowsTyped
  <2>4. \A v \in Workers : pc[v] # "idle" => order[v] \in Orders
    BY DEF LocalsOK
  \* The other workers of this order now hold an older claim.
  <2>5. \A v \in Workers \ {w} : pc[v] \notin {"idle", "read"} =>
          /\ own[v] < NewToken
          /\ token'[order[v]] = IF order[v] = o THEN NewToken ELSE token[order[v]]
          /\ own[v] <= token[order[v]]
    <3>1. ASSUME NEW v \in Workers \ {w}, pc[v] \notin {"idle", "read"}
          PROVE  own[v] <= token[order[v]] /\ own[v] < NewToken
      <4>1. order[v] \in Orders /\ OwnIsOld(v)
        BY <2>4, <3>1
      <4>2. token[order[v]] \in Nat /\ own[v] \in Nat /\ NewToken \in Nat
        BY <2>2, <4>1, TokensAreTimes
      <4>3. QED
        BY <2>2, <3>1, <4>1, <4>2 DEF OwnIsOld
    <3>2. QED
      BY <1>0, <2>1, <2>3, <2>4, <3>1
  <2>6. \A v \in Workers : OwnIsOld(v)'
    <3>1. OwnIsOld(w)'
      BY <1>0, <2>1, <2>2, <2>3 DEF OwnIsOld
    <3>2. ASSUME NEW v \in Workers \ {w}, pc[v] \notin {"idle", "read"}
          PROVE  own[v] <= token'[order[v]]
      BY <2>2, <2>5, <3>2, TokensAreTimes
    <3>3. QED
      BY <2>1, <3>1, <3>2 DEF OwnIsOld
  <2>7. \A v \in Workers : ReadAsLapsed(v)'
    <3>1. ASSUME NEW v \in Workers, v # w, pc[v] = "claim"
          PROVE  ReadAsLapsed(v)'
      <4>1. CASE order[v] = o
        <5>1. token'[o] # own[v]
          BY <2>2, <2>5, <3>1, <4>1, TokensAreTimes
        <5>2. QED
          BY <1>0, <2>1, <2>3, <3>1, <4>1, <5>1 DEF ReadAsLapsed, UnclaimedSince
      <4>2. CASE order[v] # o
        BY <1>0, <2>1, <2>3, <2>4, <3>1, <4>2 DEF ReadAsLapsed, UnclaimedSince
      <4>3. QED
        BY <4>1, <4>2
    <3>2. QED
      BY <2>1, <3>1 DEF ReadAsLapsed
  <2>8. \A v \in Workers : HeldIsLive(v)'
    BY <1>0, <2>1, <2>3, <2>4, <2>5 DEF HeldIsLive
  <2>9. \A v, u \in Workers : HeldApart(v, u)'
    BY <1>0, <2>1, <2>2, <2>3, <2>5 DEF HeldApart
  <2>10. Lease!Claim(o, NewToken)
    <3>1. Lease!Free(o)
      BY <1>0, <1>2, <2>1, <2>3 DEF ReadAsLapsed, UnclaimedSince, Lease!Free
    <3>2. NewToken # token[o]
      BY <1>0, <2>2, <2>3
    <3>3. QED
      BY <2>1, <3>1, <3>2 DEF Lease!Claim
  <2>11. QED
    BY <1>0, <2>2, <2>6, <2>7, <2>8, <2>9, <2>10 DEF Lease!Next
<1>3. QED
  BY <1>1, <1>2

\* Only the worker whose claim is in the row writes the outcome.
LEMMA SettleKeepsLease ==
  ASSUME NEW w \in Workers, TypedInv, LeaseInv, pc[w] \in Holding,
         NEW outcome \in {"completed", "failed"}, Settle(w, outcome),
         UNCHANGED <<token, lapsed>>
  PROVE  LeaseInv' /\ [Lease!Next]_leaseVars
<1> USE DEF TypedInv, TypeOK, WorkersTyped, LeaseInv, leaseVars
<1>0. order[w] \in Orders
  BY DEF LocalsOK
<1>1. CASE ~StillMine(w)
  <2>1. Quiet(w)
    BY <1>1 DEF Settle, Quiet
  <2>2. QED
    BY <2>1, QuietKeepsLease DEF Quiet
<1>2. CASE StillMine(w)
  <2> DEFINE o == order[w]
  <2>1. /\ status'  = [status EXCEPT ![o] = outcome]
        /\ settler' = [settler EXCEPT ![o] = own[w]]
        /\ pc'      = [pc EXCEPT ![w] = "idle"]
        /\ \A v \in Workers \ {w} :
             order'[v] = order[v] /\ seen'[v] = seen[v] /\ own'[v] = own[v]
    BY <1>2 DEF Settle
  <2>2. status \in [Orders -> {"none", "processing", "completed", "failed"}]
    BY DEF RowsTyped
  <2>3. \A v \in Workers \ {w} : pc'[v] = pc[v]
    BY <2>1
  <2>4. token[o] = own[w] /\ status[o] = "processing"
    BY <1>2 DEF StillMine, HeldIsLive
  <2>5. \A v \in Workers : OwnIsOld(v)'
    BY <2>1, <2>3 DEF OwnIsOld
  <2>6. \A v \in Workers : ReadAsLapsed(v)'
    <3>1. ASSUME NEW v \in Workers, v # w, pc[v] = "claim"
          PROVE  ReadAsLapsed(v)'
      <4>1. order[v] \in Orders
        BY <3>1 DEF LocalsOK
      <4>2. CASE order[v] = o
        BY <1>0, <2>1, <2>2, <2>3, <3>1, <4>2 DEF ReadAsLapsed, UnclaimedSince
      <4>3. CASE order[v] # o
        BY <1>0, <2>1, <2>2, <2>3, <3>1, <4>1, <4>3 DEF ReadAsLapsed, UnclaimedSince
      <4>4. QED
        BY <4>2, <4>3
    <3>2. QED
      BY <2>1, <2>3, <3>1 DEF ReadAsLapsed
  <2>7. \A v \in Workers : HeldIsLive(v)'
    <3>1. ASSUME NEW v \in Workers, v # w, pc[v] \in Holding
          PROVE  HeldIsLive(v)'
      <4>1. HeldApart(w, v) /\ HeldIsLive(v) /\ order[v] \in Orders
        BY <3>1 DEF LocalsOK
      <4>2. order[v] = o => token[o] # own[v]
        BY <2>4, <3>1, <4>1 DEF HeldApart
      <4>3. QED
        BY <1>0, <2>1, <2>2, <2>3, <3>1, <4>1, <4>2 DEF HeldIsLive
    <3>2. QED
      BY <2>1, <2>3, <3>1 DEF HeldIsLive
  <2>8. \A v, u \in Workers : HeldApart(v, u)'
    BY <2>1, <2>3 DEF HeldApart
  <2>9. Lease!Settle(o, outcome)
    BY <2>1, <2>4 DEF Lease!Settle
  <2>10. QED
    BY <1>0, <2>5, <2>6, <2>7, <2>8, <2>9 DEF Lease!Next
<1>3. QED
  BY <1>1, <1>2

\* Ten minutes pass: what was read as lapsed still is.
LEMMA LapseKeepsLease ==
  ASSUME NEW o \in Orders, TypedInv, LeaseInv, Lapse(o)
  PROVE  LeaseInv' /\ [Lease!Next]_leaseVars
<1>1. lapsed \in [Orders -> BOOLEAN]
  BY DEF TypedInv, TypeOK, RowsTyped
<1>2. \A v \in Workers : ReadAsLapsed(v)'
  BY <1>1 DEF Lapse, LeaseInv, ReadAsLapsed, UnclaimedSince, TypedInv, LocalsOK
<1>3. LeaseInv'
  BY <1>2 DEF Lapse, LeaseInv, OwnIsOld, HeldIsLive, HeldApart
<1>4. Lease!Lapse(o)
  BY DEF Lapse, Lease!Lapse
<1>5. QED
  BY <1>3, <1>4 DEF Lease!Next

LEMMA LeaseStep ==
  TypedInv /\ LeaseInv /\ [Next]_vars => LeaseInv' /\ [Lease!Next]_leaseVars
<1> SUFFICES ASSUME TypedInv, LeaseInv, [Next]_vars
             PROVE  LeaseInv' /\ [Lease!Next]_leaseVars
  OBVIOUS
<1>1. ASSUME NEW w \in Workers, Quiet(w)
      PROVE  LeaseInv' /\ [Lease!Next]_leaseVars
  BY <1>1, QuietKeepsLease DEF Quiet
<1>2. ASSUME NEW w \in Workers,
             (\E o \in Orders : Call(w, o)) \/ WorkerStep(w) \/ Throw(w)
      PROVE  LeaseInv' /\ [Lease!Next]_leaseVars
  <2>1. CASE ReadOrder(w)
    BY <2>1, ReadKeepsLease
  <2>2. CASE ClaimOrder(w)
    BY <2>2, ClaimKeepsLease
  <2>3. CASE Complete(w)
    <3>1. CASE Settle(w, "completed")
      BY <2>3, <3>1, SettleKeepsLease DEF Complete
    <3>2. CASE ~Settle(w, "completed")
      <4>1. Quiet(w)
        BY <2>3, <3>2 DEF Complete, Quiet, leaseVars, TypedInv, TypeOK, WorkersTyped
      <4>2. QED
        BY <4>1, <1>1
    <3>3. QED
      BY <3>1, <3>2
  <2>4. CASE FailOrder(w)
    BY <2>4, SettleKeepsLease DEF FailOrder
  <2>5. CASE ~(ReadOrder(w) \/ ClaimOrder(w) \/ Complete(w) \/ FailOrder(w))
    BY <1>1, <1>2, <2>5, QuietActions DEF WorkerStep
  <2>6. QED
    BY <2>1, <2>2, <2>3, <2>4, <2>5
<1>3. CASE Crash
  BY <1>3 DEF Crash, LeaseInv, leaseVars, OwnIsOld, ReadAsLapsed, HeldIsLive,
              HeldApart
<1>4. ASSUME NEW o \in Orders, Lapse(o)
      PROVE  LeaseInv' /\ [Lease!Next]_leaseVars
  BY <1>4, LapseKeepsLease
<1>5. ASSUME UNCHANGED <<leaseVars, workerVars>>
      PROVE  LeaseInv' /\ [Lease!Next]_leaseVars
  BY <1>5 DEF leaseVars, LeaseInv, OwnIsOld, ReadAsLapsed, HeldIsLive,
              HeldApart, UnclaimedSince
<1>6. ASSUME NEW i \in Withdrawn, Unpublish(i) \/ Relist(i)
      PROVE  LeaseInv' /\ [Lease!Next]_leaseVars
  <2>1. UNCHANGED <<leaseVars, workerVars>>
    BY <1>6 DEF Unpublish, Relist, leaseVars
  <2>2. QED
    BY <2>1, <1>5
<1>7. CASE UNCHANGED vars
  <2>1. UNCHANGED <<leaseVars, workerVars>>
    BY <1>7 DEF vars, leaseVars
  <2>2. QED
    BY <2>1, <1>5
<1>8. ASSUME NEW b \in Buyers, ShopStep(b) \/ \E i \in Wanted : ShopBooks(b, i)
      PROVE  LeaseInv' /\ [Lease!Next]_leaseVars
  <2>1. UNCHANGED <<leaseVars, workerVars>>
    BY <1>8, ShopActions DEF ShopMoves, leaseVars, TypedInv, TypeOK
  <2>2. QED
    BY <2>1, <1>5
<1>9. QED
  BY <1>2, <1>3, <1>4, <1>6, <1>7, <1>8 DEF Next

\* The conditional UPDATEs of the row implement the contract of
\* FulfillmentLease: a completed order is never claimed again, and a claim is
\* settled once, by the worker that holds it.
THEOREM LeaseImplemented == Spec => LeaseKept
<1>1. Init => TypedInv /\ LeaseInv
  BY TypedInit DEF Init, LeaseInv, OwnIsOld, ReadAsLapsed, HeldIsLive, HeldApart
<1>2. Init => Lease!Init
  BY DEF Init, Lease!Init
<1>3. leaseVars = Lease!vars
  BY DEF leaseVars, Lease!vars
<1>4. TypedInv /\ LeaseInv /\ [Next]_vars
        => (TypedInv /\ LeaseInv)' /\ [Lease!Next]_(Lease!vars)
  BY <1>3, TypedStep, LeaseStep DEF leaseVars, Lease!vars
<1>5. QED
  BY <1>1, <1>2, <1>4, PTL DEF Spec, LeaseKept, Lease!Spec

\* A delivered order keeps the claim that delivered it: no late worker and no
\* retry puts it back to work or signs it over to another claim.
THEOREM DeliveredForGood == Spec => Lease!DeliveredIsKept
<1>1. TypedInv /\ [Lease!Next]_(Lease!vars) =>
        [\A o \in Orders : status[o] = "completed" =>
           /\ status'[o] = "completed"
           /\ token'[o] = token[o] /\ settler'[o] = settler[o]]_(Lease!vars)
  <2> SUFFICES ASSUME TypeOK, Lease!Next, NEW o \in Orders, status[o] = "completed"
               PROVE  /\ status'[o] = "completed"
                      /\ token'[o] = token[o] /\ settler'[o] = settler[o]
    BY DEF TypedInv, Lease!vars
  <2>1. PICK q \in Orders :
          \/ \E c \in Tokens : Lease!Claim(q, c)
          \/ Lease!Lapse(q)
          \/ \E outcome \in {"completed", "failed"} : Lease!Settle(q, outcome)
    BY DEF Lease!Next
  <2>2. QED
    BY <2>1 DEF TypeOK, RowsTyped, Lease!Claim, Lease!Free, Lease!Lapse, Lease!Settle
<1>2. QED
  BY <1>1, LeaseImplemented, TypedInit, TypedStep, PTL
  DEF Spec, LeaseKept, Lease!Spec, Lease!DeliveredIsKept

\* An outcome in the row, good or bad, was written by the worker whose claim
\* the row carries; a worker that lost its claim has no say in it.
THEOREM HolderDecides == Spec => []Lease!HolderSettled
<1>1. Lease!Init => Lease!HolderSettled
  BY DEF Lease!Init, Lease!HolderSettled
<1>2. TypedInv /\ Lease!HolderSettled /\ [Lease!Next]_(Lease!vars) => Lease!HolderSettled'
  <2> SUFFICES ASSUME TypeOK, Lease!HolderSettled, Lease!Next, NEW o \in Orders,
                      status'[o] \in {"completed", "failed"}
               PROVE  settler'[o] = token'[o]
    BY DEF TypedInv, Lease!vars, Lease!HolderSettled
  <2>1. PICK q \in Orders :
          \/ \E c \in Tokens : Lease!Claim(q, c)
          \/ Lease!Lapse(q)
          \/ \E outcome \in {"completed", "failed"} : Lease!Settle(q, outcome)
    BY DEF Lease!Next
  <2>2. QED
    BY <2>1 DEF TypeOK, RowsTyped, Lease!HolderSettled, Lease!Claim, Lease!Free, Lease!Lapse, Lease!Settle
<1>3. QED
  BY <1>1, <1>2, LeaseImplemented, TypedInit, TypedStep, PTL DEF Spec, LeaseKept, Lease!Spec
-----------------------------------------------------------------------------
(***************************************************************************)
(* The sale of a lot.  Only TakeLot begins one; every other step goes on   *)
(* with a sale or drops it, and writes purchases of a taken lot only.      *)
(***************************************************************************)
NoNewSale ==
  /\ relisted \subseteq relisted'
  /\ \A i \in Lots \ relisted' : lot'[i] = "published" => lot[i] = "published"
  /\ \A w \in Workers, i \in Lots :
       Taken(w, i)' => Taken(w, i) /\ order'[w] = order[w]
  /\ \A o \in Orders, i \in Lots : deal'[o][i] # "none" =>
       \/ deal[o][i] # "none"
       \/ \E w \in Workers : Taken(w, i) /\ o = order[w]

SaleSafe == SaleInv /\ SoldOnce

LEMMA NoNewSaleKeeps == SaleSafe /\ NoNewSale => SaleSafe'
<1> SUFFICES ASSUME SaleSafe, NoNewSale
             PROVE  SaleInv' /\ SoldOnce'
  BY DEF SaleSafe
<1> USE DEF SaleSafe, NoNewSale
<1>1. ASSUME NEW i \in Lots \ relisted', lot'[i] = "published"
      PROVE  /\ \A w \in Workers : ~Taken(w, i)'
             /\ \A o \in Orders : deal'[o][i] = "none"
  BY <1>1 DEF SaleInv
<1>2. ASSUME NEW i \in Lots \ relisted', NEW w \in Workers, NEW v \in Workers,
             Taken(w, i)', Taken(v, i)'
      PROVE  w = v
  BY <1>2 DEF SaleInv
<1>3. ASSUME NEW i \in Lots \ relisted', NEW w \in Workers, NEW o \in Orders,
             Taken(w, i)', deal'[o][i] # "none"
      PROVE  o = order'[w]
  BY <1>3 DEF SaleInv
<1>4. SaleInv'
  BY <1>1, <1>2, <1>3 DEF SaleInv
<1>5. ASSUME NEW i \in Lots \ relisted', NEW o1 \in Orders, NEW o2 \in Orders,
             deal'[o1][i] # "none", deal'[o2][i] # "none"
      PROVE  o1 = o2
  BY <1>5 DEF SaleInv, SoldOnce
<1>6. QED
  BY <1>4, <1>5 DEF SoldOnce

\* A purchase is written by the worker that took the lot.
LEMMA DealOfTaker ==
  ASSUME NEW w \in Workers, TypedInv, pc[w] \in Selling,
         NEW state, SetDeal(w, state)
  PROVE  \A o \in Orders, i \in Lots : deal'[o][i] # "none" =>
           \/ deal[o][i] # "none"
           \/ Taken(w, i) /\ o = order[w]
  BY DEF TypedInv, TypeOK, RowsTyped, SetDeal, Taken, LocalsOK

LEMMA NoNewSaleActions ==
  ASSUME TypedInv, [Next]_vars,
         ~ \E w \in Workers : TakeLot(w) /\ OnSale(item[w])
  PROVE  NoNewSale
<1> USE DEF TypedInv, TypeOK, WorkersTyped, NoNewSale, Taken
<1>0. lot \in [Lots -> {"published", "sold", "draft"}]
  BY DEF RowsTyped
<1>1. ASSUME NEW w \in Workers, NEW o \in Orders, Call(w, o)
      PROVE  NoNewSale
  BY <1>1 DEF Call
<1>2. ASSUME NEW w \in Workers, ReadOrder(w)
      PROVE  NoNewSale
  BY <1>2 DEF ReadOrder
<1>3. ASSUME NEW w \in Workers, ClaimOrder(w)
      PROVE  NoNewSale
  BY <1>3 DEF ClaimOrder
<1>4. ASSUME NEW w \in Workers, LoadLots(w)
      PROVE  NoNewSale
  BY <1>4 DEF LoadLots
<1>5. ASSUME NEW w \in Workers, NextLot(w)
      PROVE  NoNewSale
  BY <1>5 DEF NextLot
<1>6. ASSUME NEW w \in Workers, TakeLot(w)
      PROVE  NoNewSale
  BY <1>6 DEF TakeLot
<1>7. ASSUME NEW w \in Workers, RecordDeal(w)
      PROVE  NoNewSale
  <2>1. UNCHANGED deal \/ SetDeal(w, "pending")
    BY <1>7 DEF RecordDeal
  <2>2. \A o \in Orders, i \in Lots : deal'[o][i] # "none" =>
          deal[o][i] # "none" \/ (Taken(w, i) /\ o = order[w])
    BY <1>7, <2>1, DealOfTaker DEF RecordDeal
  <2>3. QED
    BY <1>7, <2>2 DEF RecordDeal, FirstAsset
<1>8. ASSUME NEW w \in Workers, MoveProxy(w)
      PROVE  NoNewSale
  BY <1>8 DEF MoveProxy, AfterProxy
<1>9. ASSUME NEW w \in Workers, ReadBot(w)
      PROVE  NoNewSale
  BY <1>9 DEF ReadBot
<1>10. ASSUME NEW w \in Workers, MoveBot(w)
      PROVE  NoNewSale
  BY <1>10 DEF MoveBot, AfterBot
<1>11. ASSUME NEW w \in Workers, MarkSold(w)
      PROVE  NoNewSale
  BY <1>0, <1>11 DEF MarkSold
<1>12. ASSUME NEW w \in Workers, CloseDeal(w)
      PROVE  NoNewSale
  <2>1. UNCHANGED deal \/ SetDeal(w, "completed")
    BY <1>12 DEF CloseDeal
  <2>2. \A o \in Orders, i \in Lots : deal'[o][i] # "none" =>
          deal[o][i] # "none" \/ (Taken(w, i) /\ o = order[w])
    BY <1>12, <2>1, DealOfTaker DEF CloseDeal
  <2>3. QED
    BY <1>12, <2>2 DEF CloseDeal
<1>13. ASSUME NEW w \in Workers, Complete(w)
      PROVE  NoNewSale
  BY <1>13 DEF Complete, Settle
<1>14. ASSUME NEW w \in Workers, FailDeal(w)
      PROVE  NoNewSale
  <2>1. UNCHANGED deal \/ SetDeal(w, "failed")
    BY <1>14 DEF FailDeal
  <2>2. \A o \in Orders, i \in Lots : deal'[o][i] # "none" =>
          deal[o][i] # "none" \/ (Taken(w, i) /\ o = order[w])
    BY <1>14, <2>1, DealOfTaker DEF FailDeal
  <2>3. QED
    BY <1>14, <2>2 DEF FailDeal
<1>15. ASSUME NEW w \in Workers, FailOrder(w)
      PROVE  NoNewSale
  BY <1>15 DEF FailOrder, Settle
<1>16. ASSUME NEW w \in Workers, Throw(w)
      PROVE  NoNewSale
  BY <1>16 DEF Throw
<1>17. CASE Crash
  BY <1>17 DEF Crash
<1>18. ASSUME NEW o \in Orders, Lapse(o)
      PROVE  NoNewSale
  BY <1>18 DEF Lapse
<1>19. ASSUME NEW i \in Withdrawn, Unpublish(i)
      PROVE  NoNewSale
  BY <1>0, <1>19 DEF Unpublish
<1>20. ASSUME NEW i \in Withdrawn, Relist(i)
      PROVE  NoNewSale
  BY <1>0, <1>20 DEF Relist
<1>21. CASE UNCHANGED vars
  BY <1>21 DEF vars
<1>22. ASSUME NEW b \in Buyers, ShopStep(b) \/ \E i \in Wanted : ShopBooks(b, i)
       PROVE  NoNewSale
  BY <1>22, ShopActions DEF ShopMoves
<1>23. QED
  BY <1>1, <1>2, <1>3, <1>4, <1>5, <1>6, <1>7, <1>8, <1>9, <1>10, <1>11, <1>12, <1>13, <1>14, <1>15, <1>16, <1>17, <1>18, <1>19, <1>20, <1>21, <1>22 DEF Next, WorkerStep

\* A lot that is taken while on sale for the first time was nobody's.
LEMMA TakeLotKeeps ==
  ASSUME NEW w \in Workers, TypedInv, SaleSafe, TakeLot(w), OnSale(item[w])
  PROVE  SaleSafe'
<1> USE DEF TypedInv, TypeOK, WorkersTyped
<1>1. /\ item[w] \in Lots
      /\ lot[item[w]] = "published"
      /\ lot' = [lot EXCEPT ![item[w]] = "sold"]
      /\ pc'  = [pc EXCEPT ![w] = "record"]
      /\ UNCHANGED <<item, order, deal, relisted>>
  BY DEF TakeLot, OnSale, LocalsOK
<1>2. \A i \in Lots : lot'[i] = "published" => lot[i] = "published" /\ i # item[w]
  BY <1>1 DEF RowsTyped
<1>3. \A v \in Workers, i \in Lots :
        Taken(v, i)' => Taken(v, i) \/ (v = w /\ i = item[w])
  BY <1>1 DEF Taken
<1>4. SaleInv'
  BY <1>1, <1>2, <1>3 DEF SaleSafe, SaleInv
<1>5. SoldOnce'
  BY <1>1 DEF SaleSafe, SoldOnce
<1>6. QED
  BY <1>4, <1>5 DEF SaleSafe

\* A lot that never went back to the showcase is sold to one order at most.
THEOREM LotSoldOnce == Spec => []SoldOnce
<1>1. Init => SaleSafe
  BY DEF Init, SaleSafe, SaleInv, SoldOnce, Taken
<1>2. TypedInv /\ SaleSafe /\ [Next]_vars => SaleSafe'
  BY NoNewSaleActions, NoNewSaleKeeps, TakeLotKeeps
<1>3. Spec => [](TypedInv /\ SaleSafe)
  BY <1>1, <1>2, TypedInit, TypedStep, PTL DEF Spec
<1>4. QED
  BY <1>3, PTL DEF SaleSafe

-----------------------------------------------------------------------------
(***************************************************************************)
(* One bundle for an order that was claimed once.                          *)
(***************************************************************************)
Holds(w, o) == pc[w] \in Holding /\ order[w] = o

\* Stages of a worker that may still move a userbot.
BotDue(w) == \/ pc[w] \in {"load", "next", "take", "record", "readBot", "moveBot"}
             \/ pc[w] = "proxy" /\ item[w] \notin BotFirst

\* Before its claim an order has nothing and nobody works for it; then it has
\* one worker, and no userbot until that worker has moved one.
OneClaim(o) ==
  /\ status[o] = "none" => Received(o) = {} /\ \A w \in Workers : ~Holds(w, o)
  /\ \A w, v \in Workers : Holds(w, o) /\ Holds(v, o) => w = v
  /\ \A w \in Workers : Holds(w, o) /\ BotDue(w) => Received(o) = {}
  /\ \A i, j \in Received(o) : i = j

OneInv == \A o \in Orders \ again : OneClaim(o)

\* A step that neither claims the order nor moves a userbot to its buyer.
GoesOn(o) ==
  /\ status'[o] = "none" => status[o] = "none"
  /\ Received(o)' \subseteq Received(o)
  /\ \A w \in Workers : Holds(w, o)' => Holds(w, o) /\ (BotDue(w)' => BotDue(w))

LEMMA GoesOnKeeps ==
  ASSUME NEW o \in Orders, OneClaim(o), GoesOn(o)
  PROVE  OneClaim(o)'
  BY DEF OneClaim, GoesOn

LEMMA OneStep == TypedInv /\ OneInv /\ [Next]_vars => OneInv'
<1> SUFFICES ASSUME TypedInv, OneInv, [Next]_vars, NEW o \in Orders, o \notin again'
             PROVE  OneClaim(o)'
  BY DEF OneInv
<1> USE DEF TypedInv, TypeOK, WorkersTyped
<1>0. status \in [Orders -> {"none", "processing", "completed", "failed"}]
  BY DEF RowsTyped
<1>1. OneClaim(o)
  <2>1. again \subseteq again'
    <3>1. ASSUME NEW w \in Workers, WorkerStep(w) PROVE again \subseteq again'
      BY <3>1 DEF WorkerStep, ReadOrder, ClaimOrder, LoadLots, NextLot, TakeLot,
         RecordDeal, MoveProxy, ReadBot, MoveBot, MarkSold, CloseDeal, Complete,
         FailDeal, FailOrder
    <3>2. ASSUME NEW w \in Workers, Throw(w) \/ \E q \in Orders : Call(w, q)
          PROVE  again \subseteq again'
      BY <3>2 DEF Throw, Call
    <3>3. CASE Crash \/ (\E q \in Orders : Lapse(q)) \/ UNCHANGED vars
               \/ \E i \in Withdrawn : Unpublish(i) \/ Relist(i)
      BY <3>3 DEF Crash, Lapse, Unpublish, Relist, vars
    <3>4. CASE \E b \in Buyers : ShopStep(b) \/ \E i \in Wanted : ShopBooks(b, i)
      BY <3>4, ShopActions DEF ShopMoves
    <3>5. QED
      BY <3>1, <3>2, <3>3, <3>4 DEF Next
  <2>2. QED
    BY <2>1 DEF OneInv
<1>2. ASSUME GoesOn(o) PROVE OneClaim(o)'
  BY <1>1, <1>2, GoesOnKeeps
<1>3. ASSUME UNCHANGED botOf PROVE Received(o)' = Received(o)
  BY <1>3 DEF Received
<1>4. ASSUME NEW w \in Workers, NEW q \in Orders, Call(w, q)
      PROVE  OneClaim(o)'
  BY <1>2, <1>3, <1>4 DEF Call, GoesOn, Holds, BotDue
<1>5. ASSUME NEW w \in Workers, ReadOrder(w)
      PROVE  OneClaim(o)'
  BY <1>2, <1>3, <1>5 DEF ReadOrder, GoesOn, Holds, BotDue
<1>6. ASSUME NEW w \in Workers, ClaimOrder(w)
      PROVE  OneClaim(o)'
  <2>1. pc[w] = "claim" /\ UNCHANGED botOf
    BY <1>6 DEF ClaimOrder
  <2>2. CASE Leave(w) /\ UNCHANGED status
    BY <1>2, <1>3, <2>1, <2>2 DEF GoesOn, Holds, BotDue
  <2>3. CASE /\ UnclaimedSince(w)
             /\ status' = [status EXCEPT ![order[w]] = "processing"]
             /\ again' = IF seen[w] = "none" THEN again ELSE again \cup {order[w]}
             /\ pc' = [pc EXCEPT ![w] = "load"]
             /\ UNCHANGED <<order, item>>
    <3>1. CASE order[w] = o
      <4>1. status[o] = "none"
        BY <2>3, <3>1 DEF UnclaimedSince
      <4>2. Received(o) = {} /\ \A v \in Workers : ~Holds(v, o)
        BY <1>1, <4>1 DEF OneClaim
      <4>3. \A v \in Workers : Holds(v, o)' => v = w
        BY <2>3, <4>2 DEF Holds
      <4>4. status'[o] = "processing" /\ Received(o)' = {}
        BY <1>0, <1>3, <2>1, <2>3, <3>1, <4>2
      <4>5. QED
        BY <4>3, <4>4 DEF OneClaim
    <3>2. CASE order[w] # o
      <4>1. status'[o] = status[o] /\ Received(o)' = Received(o)
        BY <1>0, <1>3, <2>1, <2>3, <3>2
      <4>2. \A v \in Workers : Holds(v, o)' => Holds(v, o) /\ (BotDue(v)' => BotDue(v))
        BY <2>3, <3>2 DEF Holds, BotDue
      <4>3. QED
        BY <1>2, <4>1, <4>2 DEF GoesOn
    <3>3. QED
      BY <3>1, <3>2
  <2>4. QED
    BY <1>6, <2>2, <2>3 DEF ClaimOrder
<1>7. ASSUME NEW w \in Workers, LoadLots(w)
      PROVE  OneClaim(o)'
  BY <1>2, <1>3, <1>7 DEF LoadLots, GoesOn, Holds, BotDue
<1>8. ASSUME NEW w \in Workers, NextLot(w)
      PROVE  OneClaim(o)'
  BY <1>2, <1>3, <1>8 DEF NextLot, GoesOn, Holds, BotDue
<1>9. ASSUME NEW w \in Workers, TakeLot(w)
      PROVE  OneClaim(o)'
  BY <1>2, <1>3, <1>9 DEF TakeLot, GoesOn, Holds, BotDue
<1>10. ASSUME NEW w \in Workers, RecordDeal(w)
       PROVE  OneClaim(o)'
  BY <1>2, <1>3, <1>10 DEF RecordDeal, FirstAsset, GoesOn, Holds, BotDue
<1>11. ASSUME NEW w \in Workers, MoveProxy(w)
       PROVE  OneClaim(o)'
  BY <1>2, <1>3, <1>11 DEF MoveProxy, AfterProxy, GoesOn, Holds, BotDue
<1>12. ASSUME NEW w \in Workers, ReadBot(w)
       PROVE  OneClaim(o)'
  BY <1>2, <1>3, <1>12 DEF ReadBot, GoesOn, Holds, BotDue
<1>13. ASSUME NEW w \in Workers, MoveBot(w)
       PROVE  OneClaim(o)'
  <2>1. /\ pc[w] = "moveBot" /\ order[w] \in Orders /\ item[w] \in Lots
        /\ UNCHANGED <<status, order, item>>
    BY <1>13 DEF MoveBot, LocalsOK
  <2>2. botOf \in [Lots -> Orders \cup Buyers \cup {Seller}]
    BY DEF RowsTyped
  <2>3. CASE UNCHANGED botOf /\ Goto(w, "failDeal")
    BY <1>2, <1>3, <2>1, <2>3 DEF GoesOn, Holds, BotDue
  <2>4. CASE /\ botOf' = [botOf EXCEPT ![item[w]] = order[w]]
             /\ pc' = [pc EXCEPT ![w] = AfterBot(item[w])]
    <3>1. \A v \in Workers : Holds(v, o)' => Holds(v, o) /\ (BotDue(v)' => BotDue(v) /\ v # w)
      BY <2>1, <2>4 DEF AfterBot, Holds, BotDue
    <3>2. CASE order[w] = o
      <4>1. Holds(w, o) /\ Received(o) = {}
        BY <1>1, <2>1, <3>2 DEF OneClaim, Holds, BotDue
      <4>2. Received(o)' \subseteq {item[w]}
        BY <2>2, <2>4, <4>1 DEF Received
      <4>3. status'[o] # "none"
        BY <1>1, <2>1, <4>1 DEF OneClaim
      <4>4. QED
        BY <1>1, <3>1, <4>1, <4>2, <4>3 DEF OneClaim
    <3>3. CASE order[w] # o
      <4>1. Received(o)' \subseteq Received(o)
        BY <2>2, <2>4, <3>3 DEF Received
      <4>2. QED
        BY <1>2, <2>1, <3>1, <4>1 DEF GoesOn
    <3>4. QED
      BY <3>2, <3>3
  <2>5. QED
    BY <1>13, <2>3, <2>4 DEF MoveBot
<1>14. ASSUME NEW w \in Workers, MarkSold(w)
       PROVE  OneClaim(o)'
  BY <1>2, <1>3, <1>14 DEF MarkSold, GoesOn, Holds, BotDue
<1>15. ASSUME NEW w \in Workers, CloseDeal(w)
       PROVE  OneClaim(o)'
  BY <1>2, <1>3, <1>15 DEF CloseDeal, GoesOn, Holds, BotDue
<1>16. ASSUME NEW w \in Workers, Complete(w)
       PROVE  OneClaim(o)'
  BY <1>0, <1>2, <1>3, <1>16 DEF Complete, Settle, GoesOn, Holds, BotDue
<1>17. ASSUME NEW w \in Workers, FailDeal(w)
       PROVE  OneClaim(o)'
  BY <1>2, <1>3, <1>17 DEF FailDeal, GoesOn, Holds, BotDue
<1>18. ASSUME NEW w \in Workers, FailOrder(w)
       PROVE  OneClaim(o)'
  BY <1>0, <1>2, <1>3, <1>18 DEF FailOrder, Settle, GoesOn, Holds, BotDue
<1>19. ASSUME NEW w \in Workers, Throw(w)
       PROVE  OneClaim(o)'
  BY <1>2, <1>3, <1>19 DEF Throw, GoesOn, Holds, BotDue
<1>20. CASE Crash
  BY <1>2, <1>3, <1>20 DEF Crash, GoesOn, Holds, BotDue
<1>21. CASE (\E q \in Orders : Lapse(q)) \/ UNCHANGED vars
            \/ \E i \in Withdrawn : Unpublish(i) \/ Relist(i)
  <2>1. UNCHANGED <<status, botOf, pc, order, item>>
    BY <1>21 DEF Lapse, Unpublish, Relist, vars
  <2>2. QED
    BY <1>2, <1>3, <2>1 DEF GoesOn, Holds, BotDue
\* A userbot that goes to a buyer of the Shop goes to no buyer of an order.
<1>22. ASSUME NEW b \in Buyers, ShopStep(b) \/ \E i \in Wanted : ShopBooks(b, i)
       PROVE  OneClaim(o)'
  <2>1. ShopMoves
    BY <1>22, ShopActions
  <2>2. \A i \in Lots : botOf'[i] = o => botOf[i] = o
    BY <2>1 DEF ShopMoves, Bought
  <2>3. GoesOn(o)
    BY <2>1, <2>2 DEF ShopMoves, GoesOn, Received, Holds, BotDue
  <2>4. QED
    BY <1>2, <2>3
<1>23. QED
  BY <1>4, <1>5, <1>6, <1>7, <1>8, <1>9, <1>10, <1>11, <1>12, <1>13, <1>14, <1>15,
     <1>16, <1>17, <1>18, <1>19, <1>20, <1>21, <1>22 DEF Next, WorkerStep

\* For any number of workers: the buyer of an order that was claimed once has
\* at most one userbot of it.
THEOREM OneBundle == Spec => []OneBundlePerClaim
<1>1. Init => OneInv
  BY DEF Init, OneInv, OneClaim, Received, Holds
<1>2. TypedInv /\ OneInv => OneBundlePerClaim
  <2> SUFFICES ASSUME OneInv, NEW o \in Orders \ again
               PROVE  Cardinality(Received(o)) <= 1
    BY DEF OneBundlePerClaim
  <2>1. \A i, j \in Received(o) : i = j
    BY DEF OneInv, OneClaim
  <2>2. CASE Received(o) = {}
    BY <2>2, FS_EmptySet
  <2>3. CASE Received(o) # {}
    <3>1. PICK i \in Received(o) : Received(o) = {i}
      BY <2>1, <2>3
    <3>2. Cardinality({i}) = 1
      BY FS_Singleton
    <3>3. QED
      BY <3>1, <3>2
  <2>4. QED
    BY <2>2, <2>3
<1>3. QED
  BY <1>1, <1>2, OneStep, TypedInit, TypedStep, PTL DEF Spec

-----------------------------------------------------------------------------
(***************************************************************************)
(* A completed order is a delivered one.                                   *)
(***************************************************************************)

\* What a worker has done of its sale, by the stage it is in.
Dealt == {"proxy", "readBot", "moveBot", "markSold", "close", "complete", "failDeal"}
ProxyDue(w)  == \/ pc[w] \in {"record", "proxy"}
                \/ item[w] \in BotFirst /\ pc[w] \in {"readBot", "moveBot"}
ProxyDone(w) == \/ pc[w] \in {"markSold", "close", "complete"}
                \/ item[w] \notin BotFirst /\ pc[w] \in {"readBot", "moveBot"}
BotDone(w)   == \/ pc[w] \in {"markSold", "close", "complete"}
                \/ item[w] \in BotFirst /\ pc[w] = "proxy"

\* The sale of the lot to the order is closed, and nobody works on it.
Delivered(o, i) ==
  /\ deal[o][i] # "none"
  /\ i \notin relisted =>
       /\ deal[o][i] = "completed"
       /\ botOf[i] \in {o} \cup Bought(i) /\ proxyOf[i] \in {o} \cup Bought(i)
       /\ \A w \in Workers : ~Taken(w, i)

\* Whoever paid for the lot in the Shop may have taken either asset before the
\* order's worker came to it, or take it afterwards.
FreshProxies == \A i \in Lots \ relisted :
  lot[i] = "published" => proxyOf[i] \in {Seller} \cup Bought(i)
SaleSoFar(w) ==
  /\ pc[w] \in Dealt => deal[order[w]][item[w]] # "none"
  /\ item[w] \notin relisted =>
       /\ ProxyDue(w) => proxyOf[item[w]] \in {Seller} \cup Bought(item[w])
       /\ ProxyDone(w) => proxyOf[item[w]] \in {order[w]} \cup Bought(item[w])
       /\ BotDone(w) => botOf[item[w]] \in {order[w]} \cup Bought(item[w])
       /\ pc[w] = "complete" => deal[order[w]][item[w]] = "completed"
DeliverInv ==
  /\ FreshProxies
  /\ \A w \in Workers : SaleSoFar(w)
  /\ \A o \in Orders : status[o] = "completed" => \E i \in Lots : Delivered(o, i)

\* What a step of one worker leaves to the others.
Elsewhere(w) ==
  /\ \A v \in Workers : v # w =>
       pc'[v] = pc[v] /\ order'[v] = order[v] /\ item'[v] = item[v]
  /\ relisted' = relisted /\ want' = want
  /\ \A i \in Lots : ~Taken(w, i) =>
       /\ botOf'[i] = botOf[i] /\ proxyOf'[i] = proxyOf[i]
       /\ \A o \in Orders : deal'[o][i] = deal[o][i]
  /\ \A o \in Orders, i \in Lots : deal[o][i] # "none" => deal'[o][i] # "none"
  /\ \A i \in Lots : lot'[i] = "published" => lot[i] = "published"
  /\ \A i \in Lots : Taken(w, i)' => Taken(w, i) \/ lot[i] = "published"

LEMMA DealElsewhere ==
  ASSUME NEW w \in Workers, TypedInv, pc[w] \in Selling, UNCHANGED <<order, item>>,
         NEW state \in {"pending", "completed", "failed"}, SetDeal(w, state)
  PROVE  /\ \A i \in Lots : ~Taken(w, i) => \A o \in Orders : deal'[o][i] = deal[o][i]
         /\ \A o \in Orders, i \in Lots : deal[o][i] # "none" => deal'[o][i] # "none"
         /\ deal'[order[w]][item[w]] = state
<1>1. order[w] \in Orders /\ item[w] \in Lots
  BY DEF TypedInv, LocalsOK
<1>2. deal \in [Orders -> [Lots -> {"none", "pending", "completed", "failed"}]]
  BY DEF TypedInv, TypeOK, RowsTyped
<1>3. \A o \in Orders, i \in Lots :
        deal'[o][i] = IF o = order[w] /\ i = item[w] THEN state ELSE deal[o][i]
  BY <1>1, <1>2 DEF SetDeal
<1>4. Taken(w, item[w])
  BY DEF Taken
<1>5. QED
  BY <1>1, <1>3, <1>4

\* The other workers' sales, the deliveries and the lots on sale stay as they are.
LEMMA OthersKeep ==
  ASSUME NEW w \in Workers, TypedInv, SaleInv, DeliverInv, Elsewhere(w)
  PROVE  /\ FreshProxies'
         /\ \A v \in Workers : v # w => SaleSoFar(v)'
         /\ \A o \in Orders, i \in Lots : Delivered(o, i) => Delivered(o, i)'
<1> USE DEF TypedInv
<1>1. FreshProxies'
  <2> SUFFICES ASSUME NEW i \in Lots \ relisted', lot'[i] = "published"
               PROVE  proxyOf'[i] \in {Seller} \cup Bought(i)'
    BY DEF FreshProxies
  <2>1. lot[i] = "published" /\ i \notin relisted
    BY DEF Elsewhere
  <2>2. ~Taken(w, i) /\ proxyOf[i] \in {Seller} \cup Bought(i)
    BY <2>1 DEF SaleInv, DeliverInv, FreshProxies
  <2>3. QED
    BY <2>2 DEF Elsewhere, Bought
<1>2. ASSUME NEW v \in Workers, v # w PROVE SaleSoFar(v)'
  <2>1. /\ pc'[v] = pc[v] /\ order'[v] = order[v] /\ item'[v] = item[v]
        /\ relisted' = relisted /\ SaleSoFar(v)
    BY <1>2 DEF Elsewhere, DeliverInv
  <2>2. CASE pc[v] \notin Selling
    BY <2>1, <2>2 DEF SaleSoFar, Dealt, ProxyDue, ProxyDone, BotDone, Bought
  <2>3. CASE pc[v] \in Selling
    <3>1. order[v] \in Orders /\ item[v] \in Lots
      BY <2>3 DEF LocalsOK
    <3>2. pc'[v] \in Dealt => deal'[order'[v]][item'[v]] # "none"
      <4>1. deal[order[v]][item[v]] # "none" => deal'[order[v]][item[v]] # "none"
        BY <3>1 DEF Elsewhere
      <4>2. pc[v] \in Dealt => deal[order[v]][item[v]] # "none"
        BY <2>1 DEF SaleSoFar
      <4>3. QED
        BY <2>1, <4>1, <4>2
    <3>3. CASE item[v] \in relisted
      BY <2>1, <3>2, <3>3 DEF SaleSoFar
    <3>4. CASE item[v] \notin relisted
      <4>1. ~Taken(w, item[v])
        BY <1>2, <2>3, <3>1, <3>4 DEF SaleInv, Taken
      <4>2. /\ botOf'[item[v]] = botOf[item[v]] /\ proxyOf'[item[v]] = proxyOf[item[v]]
            /\ deal'[order[v]][item[v]] = deal[order[v]][item[v]]
        BY <3>1, <4>1 DEF Elsewhere
      <4>3. /\ (ProxyDue(v)' <=> ProxyDue(v)) /\ (ProxyDone(v)' <=> ProxyDone(v))
            /\ (BotDone(v)' <=> BotDone(v))
        BY <2>1 DEF ProxyDue, ProxyDone, BotDone
      <4>4. QED
        BY <2>1, <3>2, <4>2, <4>3 DEF SaleSoFar, Elsewhere, Bought
    <3>5. QED
      BY <3>3, <3>4
  <2>4. QED
    BY <2>2, <2>3
<1>3. ASSUME NEW o \in Orders, NEW i \in Lots, Delivered(o, i) PROVE Delivered(o, i)'
  <2>1. deal'[o][i] # "none" /\ relisted' = relisted
    BY <1>3 DEF Delivered, Elsewhere
  <2>2. CASE i \in relisted
    BY <2>1, <2>2 DEF Delivered, Bought
  <2>3. CASE i \notin relisted
    <3>1. ~Taken(w, i) /\ lot[i] # "published"
      BY <1>3, <2>3 DEF Delivered, SaleInv
    <3>2. /\ deal'[o][i] = "completed"
          /\ botOf'[i] \in {o} \cup Bought(i)' /\ proxyOf'[i] \in {o} \cup Bought(i)'
      BY <1>3, <2>3, <3>1 DEF Delivered, Elsewhere, Bought
    <3>3. ~Taken(w, i)'
      BY <3>1 DEF Elsewhere
    <3>4. \A v \in Workers : ~Taken(v, i)'
      BY <1>3, <2>3, <3>3 DEF Delivered, Taken, Elsewhere
    <3>5. QED
      BY <2>1, <3>2, <3>4 DEF Delivered
  <2>4. QED
    BY <2>2, <2>3
<1>4. QED
  BY <1>1, <1>2, <1>3

\* It is enough that the worker's own sale is as far as its stage says.
LEMMA WorkerKeeps ==
  ASSUME NEW w \in Workers, TypedInv, SaleInv, DeliverInv, Elsewhere(w), SaleSoFar(w)',
         \A o \in Orders : status'[o] = "completed" =>
           status[o] = "completed" \/ \E i \in Lots : Delivered(o, i)'
  PROVE  DeliverInv'
  BY OthersKeep DEF DeliverInv

LEMMA DeliverStep == TypedInv /\ SaleInv /\ DeliverInv /\ [Next]_vars => DeliverInv'
<1> SUFFICES ASSUME TypedInv, SaleInv, DeliverInv, [Next]_vars PROVE DeliverInv'
  OBVIOUS
<1> USE DEF TypedInv, TypeOK, WorkersTyped
<1>0. /\ status \in [Orders -> {"none", "processing", "completed", "failed"}]
      /\ lot \in [Lots -> {"published", "sold", "draft"}]
      /\ botOf \in [Lots -> Orders \cup Buyers \cup {Seller}]
      /\ proxyOf \in [Lots -> Orders \cup Buyers \cup {Seller}]
      /\ relisted \subseteq Lots
  BY DEF RowsTyped
<1>1. ASSUME NEW w \in Workers, UNCHANGED <<want, lot, botOf, proxyOf, deal, relisted>>,
             pc'[w] \notin Selling,
             \A v \in Workers : v # w =>
               pc'[v] = pc[v] /\ order'[v] = order[v] /\ item'[v] = item[v]
      PROVE  Elsewhere(w) /\ SaleSoFar(w)'
  <2>1. Elsewhere(w)
    BY <1>1 DEF Elsewhere, Taken
  <2>2. SaleSoFar(w)'
    BY <1>1 DEF SaleSoFar, Dealt, ProxyDue, ProxyDone, BotDone, Bought
  <2>3. QED
    BY <2>1, <2>2
<1>2. ASSUME NEW w \in Workers, NEW q \in Orders, Call(w, q) PROVE DeliverInv'
  <2>1. Elsewhere(w) /\ SaleSoFar(w)' /\ status' = status
    BY <1>1, <1>2 DEF Call
  <2>2. QED
    BY <2>1, WorkerKeeps
<1>3. ASSUME NEW w \in Workers, ReadOrder(w) \/ LoadLots(w) \/ NextLot(w) \/ Throw(w)
      PROVE  DeliverInv'
  <2>1. Elsewhere(w) /\ SaleSoFar(w)' /\ status' = status
    BY <1>1, <1>3 DEF ReadOrder, LoadLots, NextLot, Throw
  <2>2. QED
    BY <2>1, WorkerKeeps
<1>4. ASSUME NEW w \in Workers, ClaimOrder(w) PROVE DeliverInv'
  <2>1. Elsewhere(w) /\ SaleSoFar(w)'
    BY <1>1, <1>4 DEF ClaimOrder
  <2>2. \A o \in Orders : status'[o] = "completed" => status[o] = "completed"
    BY <1>0, <1>4 DEF ClaimOrder
  <2>3. QED
    BY <2>1, <2>2, WorkerKeeps
<1>5. ASSUME NEW w \in Workers, TakeLot(w) PROVE DeliverInv'
  <2>1. CASE ~OnSale(item[w])
    <3>1. Elsewhere(w) /\ SaleSoFar(w)' /\ status' = status
      BY <1>1, <1>5, <2>1 DEF TakeLot
    <3>2. QED
      BY <3>1, WorkerKeeps
  <2>2. CASE OnSale(item[w])
    <3>1. /\ pc[w] = "take" /\ item[w] \in Lots /\ lot[item[w]] = "published"
          /\ lot' = [lot EXCEPT ![item[w]] = "sold"]
          /\ pc' = [pc EXCEPT ![w] = "record"]
          /\ UNCHANGED <<want, status, botOf, proxyOf, deal, relisted, order, item>>
      BY <1>5, <2>2 DEF TakeLot, OnSale, LocalsOK
    <3>2. Elsewhere(w)
      BY <1>0, <3>1 DEF Elsewhere, Taken
    <3>3. item[w] \notin relisted => proxyOf[item[w]] \in {Seller} \cup Bought(item[w])
      BY <3>1 DEF DeliverInv, FreshProxies
    <3>4. Bought(item[w])' = Bought(item[w]) /\ pc'[w] = "record"
      BY <3>1 DEF Bought
    <3>5. SaleSoFar(w)'
      BY <3>1, <3>3, <3>4 DEF SaleSoFar, Dealt, ProxyDue, ProxyDone, BotDone
    <3>6. QED
      BY <3>1, <3>2, <3>5, WorkerKeeps
  <2>3. QED
    BY <2>1, <2>2
<1>6. ASSUME NEW w \in Workers, RecordDeal(w) PROVE DeliverInv'
  <2>1. /\ pc[w] = "record" /\ item[w] \in Lots /\ SaleSoFar(w)
        /\ UNCHANGED <<want, status, lot, botOf, proxyOf, relisted, order, item>>
    BY <1>6 DEF RecordDeal, LocalsOK, DeliverInv
  <2>2. CASE SetDeal(w, "pending") /\ pc' = [pc EXCEPT ![w] = FirstAsset(item[w])]
    <3>1. deal'[order[w]][item[w]] = "pending"
      BY <2>1, <2>2, DealElsewhere
    <3>2. Elsewhere(w)
      BY <2>1, <2>2, DealElsewhere DEF Elsewhere, Taken
    <3>3. SaleSoFar(w)'
      BY <2>1, <2>2, <3>1 DEF FirstAsset, SaleSoFar, ProxyDue, ProxyDone, BotDone, Bought
    <3>4. QED
      BY <2>1, <3>2, <3>3, WorkerKeeps
  <2>3. CASE Goto(w, "fail") /\ UNCHANGED deal
    BY <1>1, <2>1, <2>3, WorkerKeeps
  <2>4. QED
    BY <1>6, <2>2, <2>3 DEF RecordDeal
<1>7. ASSUME NEW w \in Workers, MoveProxy(w) PROVE DeliverInv'
  <2>1. /\ pc[w] = "proxy" /\ item[w] \in Lots /\ SaleSoFar(w)
        /\ UNCHANGED <<want, status, lot, botOf, deal, relisted, order, item>>
    BY <1>7 DEF MoveProxy, LocalsOK, DeliverInv
  <2>2. Elsewhere(w)
    BY <1>0, <1>7, <2>1 DEF MoveProxy, AfterProxy, Elsewhere, Taken
  <2>3. CASE /\ proxyOf' = IF proxyOf[item[w]] = Seller
                           THEN [proxyOf EXCEPT ![item[w]] = order[w]] ELSE proxyOf
             /\ pc' = [pc EXCEPT ![w] = AfterProxy(item[w])]
    <3>1. item[w] \notin relisted => proxyOf'[item[w]] \in {order[w]} \cup Bought(item[w])
      BY <1>0, <2>1, <2>3 DEF SaleSoFar, ProxyDue
    <3>2. SaleSoFar(w)'
      BY <2>1, <2>3, <3>1
      DEF AfterProxy, SaleSoFar, Dealt, ProxyDue, ProxyDone, BotDone, Bought
    <3>3. QED
      BY <2>1, <2>2, <3>2, WorkerKeeps
  <2>4. CASE Goto(w, "failDeal") /\ UNCHANGED proxyOf
    <3>1. SaleSoFar(w)'
      BY <2>1, <2>4 DEF SaleSoFar, Dealt, ProxyDue, ProxyDone, BotDone, Bought
    <3>2. QED
      BY <2>1, <2>2, <3>1, WorkerKeeps
  <2>5. QED
    BY <1>7, <2>3, <2>4 DEF MoveProxy
<1>8. ASSUME NEW w \in Workers, ReadBot(w) PROVE DeliverInv'
  <2>1. /\ pc[w] = "readBot" /\ SaleSoFar(w)
        /\ UNCHANGED <<want, status, lot, botOf, proxyOf, deal, relisted, order, item>>
    BY <1>8 DEF ReadBot, DeliverInv
  <2>2. Elsewhere(w)
    BY <1>8, <2>1 DEF ReadBot, Elsewhere, Taken
  <2>3. SaleSoFar(w)'
    BY <1>8, <2>1 DEF ReadBot, SaleSoFar, Dealt, ProxyDue, ProxyDone, BotDone, Bought
  <2>4. QED
    BY <2>1, <2>2, <2>3, WorkerKeeps
<1>9. ASSUME NEW w \in Workers, MoveBot(w) PROVE DeliverInv'
  <2>1. /\ pc[w] = "moveBot" /\ item[w] \in Lots /\ SaleSoFar(w)
        /\ UNCHANGED <<want, status, lot, proxyOf, deal, relisted, order, item>>
    BY <1>9 DEF MoveBot, LocalsOK, DeliverInv
  <2>2. Elsewhere(w)
    BY <1>0, <1>9, <2>1 DEF MoveBot, AfterBot, Elsewhere, Taken
  <2>3. SaleSoFar(w)'
    BY <1>0, <1>9, <2>1
    DEF MoveBot, AfterBot, SaleSoFar, Dealt, ProxyDue, ProxyDone, BotDone, Bought
  <2>4. QED
    BY <2>1, <2>2, <2>3, WorkerKeeps
<1>10. ASSUME NEW w \in Workers, MarkSold(w) PROVE DeliverInv'
  <2>1. /\ pc[w] = "markSold" /\ SaleSoFar(w)
        /\ UNCHANGED <<want, status, botOf, proxyOf, deal, relisted, order, item>>
    BY <1>10 DEF MarkSold, DeliverInv
  <2>2. Elsewhere(w)
    BY <1>0, <1>10, <2>1 DEF MarkSold, Elsewhere, Taken
  <2>3. SaleSoFar(w)'
    BY <1>10, <2>1 DEF MarkSold, SaleSoFar, Dealt, ProxyDue, ProxyDone, BotDone, Bought
  <2>4. QED
    BY <2>1, <2>2, <2>3, WorkerKeeps
<1>11. ASSUME NEW w \in Workers, CloseDeal(w) PROVE DeliverInv'
  <2>1. /\ pc[w] = "close" /\ item[w] \in Lots /\ SaleSoFar(w)
        /\ UNCHANGED <<want, status, lot, botOf, proxyOf, relisted, order, item>>
    BY <1>11 DEF CloseDeal, LocalsOK, DeliverInv
  <2>2. CASE SetDeal(w, "completed") /\ Goto(w, "complete")
    <3>1. deal'[order[w]][item[w]] = "completed"
      BY <2>1, <2>2, DealElsewhere
    <3>2. Elsewhere(w)
      BY <2>1, <2>2, DealElsewhere DEF Elsewhere, Taken
    <3>3. SaleSoFar(w)'
      BY <2>1, <2>2, <3>1 DEF SaleSoFar, ProxyDue, ProxyDone, BotDone, Bought
    <3>4. QED
      BY <2>1, <3>2, <3>3, WorkerKeeps
  <2>3. CASE Goto(w, "failDeal") /\ UNCHANGED deal
    <3>1. Elsewhere(w)
      BY <2>1, <2>3 DEF Elsewhere, Taken
    <3>2. SaleSoFar(w)'
      BY <2>1, <2>3 DEF SaleSoFar, Dealt, ProxyDue, ProxyDone, BotDone, Bought
    <3>3. QED
      BY <2>1, <3>1, <3>2, WorkerKeeps
  <2>4. QED
    BY <1>11, <2>2, <2>3 DEF CloseDeal
<1>12. ASSUME NEW w \in Workers, Complete(w) PROVE DeliverInv'
  <2>1. /\ pc[w] = "complete" /\ item[w] \in Lots /\ order[w] \in Orders /\ SaleSoFar(w)
        /\ UNCHANGED <<want, lot, botOf, proxyOf, deal, relisted>>
    BY <1>12 DEF Complete, LocalsOK, DeliverInv
  <2>2. CASE Settle(w, "completed")
    <3>1. Elsewhere(w) /\ SaleSoFar(w)'
      BY <1>1, <2>1, <2>2 DEF Settle
    <3>2. PICK q \in Orders, j \in Lots : q = order[w] /\ j = item[w]
      BY <2>1
    <3>3. Delivered(q, j)'
      <4>1. deal'[q][j] # "none"
        BY <2>1, <3>2 DEF SaleSoFar, Dealt
      <4>2. CASE j \in relisted'
        BY <4>1, <4>2 DEF Delivered
      <4>3. CASE j \notin relisted'
        <5>1. /\ deal'[q][j] = "completed"
              /\ botOf'[j] \in {q} \cup Bought(j)' /\ proxyOf'[j] \in {q} \cup Bought(j)'
          BY <2>1, <3>2, <4>3 DEF SaleSoFar, ProxyDone, BotDone, Bought
        <5>2. \A v \in Workers : v # w => ~Taken(v, j)
          BY <2>1, <3>2, <4>3 DEF SaleInv, Taken
        <5>3. \A v \in Workers : ~Taken(v, j)'
          BY <2>2, <5>2 DEF Settle, Taken
        <5>4. QED
          BY <4>1, <5>1, <5>3 DEF Delivered
      <4>4. QED
        BY <4>2, <4>3
    <3>4. \A o \in Orders : status'[o] = "completed" => status[o] = "completed" \/ o = q
      BY <1>0, <2>2, <3>2 DEF Settle
    <3>5. \A o \in Orders : status'[o] = "completed" =>
            status[o] = "completed" \/ \E i \in Lots : Delivered(o, i)'
      BY <3>3, <3>4
    <3>6. QED
      BY <3>1, <3>5, WorkerKeeps
  <2>3. CASE Goto(w, "failDeal") /\ UNCHANGED <<want, status, order, item>>
    <3>1. Elsewhere(w)
      BY <2>1, <2>3 DEF Elsewhere, Taken
    <3>2. SaleSoFar(w)'
      BY <2>1, <2>3 DEF SaleSoFar, Dealt, ProxyDue, ProxyDone, BotDone, Bought
    <3>3. QED
      BY <2>3, <3>1, <3>2, WorkerKeeps
  <2>4. QED
    BY <1>12, <2>2, <2>3 DEF Complete
<1>13. ASSUME NEW w \in Workers, FailDeal(w) PROVE DeliverInv'
  <2>1. /\ pc[w] = "failDeal" /\ pc' = [pc EXCEPT ![w] = "fail"]
        /\ UNCHANGED <<want, status, lot, botOf, proxyOf, relisted, order, item>>
        /\ SetDeal(w, "failed") \/ UNCHANGED deal
    BY <1>13 DEF FailDeal
  <2>2. Elsewhere(w)
    <3>1. CASE SetDeal(w, "failed")
      BY <2>1, <3>1, DealElsewhere DEF Elsewhere, Taken
    <3>2. CASE UNCHANGED deal
      BY <2>1, <3>2 DEF Elsewhere, Taken
    <3>3. QED
      BY <2>1, <3>1, <3>2
  <2>3. SaleSoFar(w)'
    BY <2>1 DEF SaleSoFar, Dealt, ProxyDue, ProxyDone, BotDone, Bought
  <2>4. QED
    BY <2>1, <2>2, <2>3, WorkerKeeps
<1>14. ASSUME NEW w \in Workers, FailOrder(w) PROVE DeliverInv'
  <2>1. Elsewhere(w) /\ SaleSoFar(w)'
    BY <1>1, <1>14 DEF FailOrder, Settle
  <2>2. \A o \in Orders : status'[o] = "completed" => status[o] = "completed"
    BY <1>0, <1>14 DEF FailOrder, Settle
  <2>3. QED
    BY <2>1, <2>2, WorkerKeeps
<1>15. CASE Crash
  <2>1. /\ UNCHANGED <<want, status, lot, botOf, proxyOf, deal, relisted>>
        /\ \A w \in Workers : pc'[w] = "idle"
    BY <1>15 DEF Crash
  <2>2. \A w \in Workers : SaleSoFar(w)' /\ \A i \in Lots : ~Taken(w, i)'
    BY <2>1 DEF SaleSoFar, Dealt, ProxyDue, ProxyDone, BotDone, Taken
  <2>3. \A o \in Orders, i \in Lots : Delivered(o, i) => Delivered(o, i)'
    BY <2>1, <2>2 DEF Delivered, Bought
  <2>4. FreshProxies'
    BY <2>1 DEF DeliverInv, FreshProxies, Bought
  <2>5. QED
    BY <2>1, <2>2, <2>3, <2>4 DEF DeliverInv
<1>16. ASSUME UNCHANGED <<want, status, botOf, proxyOf, deal, pc, order, item>>,
              relisted \subseteq relisted',
              \A i \in Lots \ relisted' : lot'[i] = "published" => lot[i] = "published"
       PROVE  DeliverInv'
  <2>1. \A w \in Workers : SaleSoFar(w)'
    BY <1>16 DEF DeliverInv, SaleSoFar, ProxyDue, ProxyDone, BotDone, Bought
  <2>2. \A o \in Orders, i \in Lots : Delivered(o, i) => Delivered(o, i)'
    BY <1>16 DEF Delivered, Taken, Bought
  <2>3. FreshProxies'
    BY <1>16 DEF DeliverInv, FreshProxies, Bought
  <2>4. QED
    BY <1>16, <2>1, <2>2, <2>3 DEF DeliverInv
<1>17. CASE (\E q \in Orders : Lapse(q)) \/ UNCHANGED vars
  BY <1>16, <1>17 DEF Lapse, vars
<1>18. ASSUME NEW i \in Withdrawn, Unpublish(i) PROVE DeliverInv'
  BY <1>0, <1>16, <1>18 DEF Unpublish
<1>19. ASSUME NEW i \in Withdrawn, Relist(i) PROVE DeliverInv'
  BY <1>0, <1>16, <1>19 DEF Relist
<1>20. ASSUME NEW b \in Buyers, ShopStep(b) \/ \E i \in Wanted : ShopBooks(b, i)
       PROVE  DeliverInv'
  <2>1. ShopMoves
    BY <1>20, ShopActions
  <2>2. \A i \in Lots : /\ Bought(i) \subseteq Bought(i)'
                        /\ botOf'[i] \in {botOf[i]} \cup Bought(i)'
                        /\ proxyOf'[i] \in {proxyOf[i]} \cup Bought(i)'
                        /\ lot'[i] = "published" => lot[i] = "published"
    BY <2>1 DEF ShopMoves, Bought
  <2>3. FreshProxies'
    BY <2>1, <2>2 DEF ShopMoves, DeliverInv, FreshProxies
  <2>4. ASSUME NEW w \in Workers PROVE SaleSoFar(w)'
    <3>1. /\ SaleSoFar(w)
          /\ pc[w] \in Selling => item[w] \in Lots
          /\ UNCHANGED <<pc, order, item, deal, relisted>>
      BY <2>1 DEF ShopMoves, DeliverInv, LocalsOK
    <3>2. /\ (ProxyDue(w)' <=> ProxyDue(w)) /\ (ProxyDone(w)' <=> ProxyDone(w))
          /\ (BotDone(w)' <=> BotDone(w))
      BY <3>1 DEF ProxyDue, ProxyDone, BotDone
    <3>3. CASE pc[w] \in Selling
      <4>1. PICK i \in Lots : i = item[w] /\ i = item'[w]
        BY <3>1, <3>3
      <4>2. /\ Bought(i) \subseteq Bought(i)'
            /\ botOf'[i] \in {botOf[i]} \cup Bought(i)'
            /\ proxyOf'[i] \in {proxyOf[i]} \cup Bought(i)'
        BY <2>2
      <4>3. /\ pc'[w] \in Dealt => deal'[order'[w]][i] # "none"
            /\ pc'[w] = "complete" => i \in relisted' \/ deal'[order'[w]][i] = "completed"
        BY <3>1, <4>1 DEF SaleSoFar
      <4>4. i \notin relisted =>
              /\ ProxyDue(w) => proxyOf[i] \in {Seller} \cup Bought(i)
              /\ ProxyDone(w) => proxyOf[i] \in {order[w]} \cup Bought(i)
              /\ BotDone(w) => botOf[i] \in {order[w]} \cup Bought(i)
        BY <3>1, <4>1 DEF SaleSoFar
      <4>5. i \notin relisted =>
              /\ ProxyDue(w) => proxyOf'[i] \in {Seller} \cup Bought(i)'
              /\ ProxyDone(w) => proxyOf'[i] \in {order[w]} \cup Bought(i)'
              /\ BotDone(w) => botOf'[i] \in {order[w]} \cup Bought(i)'
        BY <4>2, <4>4
      <4>6. QED
        BY <3>1, <3>2, <4>1, <4>3, <4>5 DEF SaleSoFar
    <3>4. CASE pc[w] \notin Selling
      BY <3>1, <3>2, <3>4 DEF SaleSoFar, Dealt, ProxyDue, ProxyDone, BotDone
    <3>5. QED
      BY <3>3, <3>4
  <2>5. \A o \in Orders, i \in Lots : Delivered(o, i) => Delivered(o, i)'
    BY <2>1, <2>2 DEF ShopMoves, Delivered, Taken
  <2>6. QED
    BY <2>1, <2>3, <2>4, <2>5 DEF ShopMoves, DeliverInv
<1>21. QED
  BY <1>2, <1>3, <1>4, <1>5, <1>6, <1>7, <1>8, <1>9, <1>10, <1>11, <1>12, <1>13, <1>14,
     <1>15, <1>17, <1>18, <1>19, <1>20 DEF Next, WorkerStep

\* For any number of workers, lots and Shop buyers: an order that says
\* 'completed' has a sale to its buyer, and the userbot and the proxy of the lot
\* belong to that buyer or to one who paid for the same lot in the Shop, unless
\* the lot was put back on the showcase.
THEOREM CompletedDelivered == Spec => []CompletedIsDelivered
<1>1. Init => SaleSafe /\ DeliverInv
  <2>1. Init => SaleSafe
    BY DEF Init, SaleSafe, SaleInv, SoldOnce, Taken
  <2>2. Init => DeliverInv
    BY DEF Init, DeliverInv, FreshProxies, SaleSoFar, Dealt, ProxyDue, ProxyDone, BotDone, Bought
  <2>3. QED
    BY <2>1, <2>2
<1>2. TypedInv /\ SaleSafe /\ [Next]_vars => SaleSafe'
  BY NoNewSaleActions, NoNewSaleKeeps, TakeLotKeeps
<1>3. SaleSafe => SaleInv
  BY DEF SaleSafe
<1>4. DeliverInv => CompletedIsDelivered
  BY DEF DeliverInv, Delivered, CompletedIsDelivered, Bought
<1>5. QED
  BY <1>1, <1>2, <1>3, <1>4, DeliverStep, TypedInit, TypedStep, PTL DEF Spec
=============================================================================
