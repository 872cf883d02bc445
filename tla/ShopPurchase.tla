----------------------------- MODULE ShopPurchase -----------------------------
(***************************************************************************)
(* The shop: a buyer reserves a lot (routes/shop/purchase-core.js), pays   *)
(* it on chain with the purchase's memo, and a check of the payment        *)
(* (routes/shop/purchase-check.js) books it and hands the lot over.        *)
(* Reservations end after their TTL, a late payment revives them; buyers   *)
(* cancel, sellers take lots down or delete them, all at the same time.    *)
(*                                                                         *)
(* A request is an HTTP request; each of its database calls is a step,     *)
(* and reading a row and searching the chain for its transfer is one.  A   *)
(* lot has one asset.  Purchases are numbered in the order of their        *)
(* inserts per lot and buyer.                                              *)
(***************************************************************************)
EXTENDS Integers, FiniteSets

CONSTANTS
  Lots,        \* shop_items
  Purchases,   \* shop_purchases, a set of naturals
  LotOf,       \* LotOf[p]: shop_item_id
  BuyerOf,     \* BuyerOf[p]: buyer_owner_id
  Anon,        \* the buyer_owner_id NULL
  Kinds,       \* what is sold
  Requests,    \* concurrent requests
  MaxBuys,     \* bound: purchases made
  MaxFaults    \* bound: failed writes and restarts

ASSUME ShopConstants ==
  /\ Purchases \subseteq Nat /\ IsFiniteSet(Purchases)
  /\ LotOf \in [Purchases -> Lots]
  /\ \A l \in Lots : \E p \in Purchases : LotOf[p] = l
  /\ DOMAIN BuyerOf = Purchases
  /\ Kinds \subseteq {"userbot", "proxy", "files", "hybrid", "text"}
  /\ IsFiniteSet(Requests)
  /\ MaxBuys \in Nat /\ MaxFaults \in Nat

VARIABLES
  kind,        \* kind[l]: item_type and delivery_mode, fixed
  item,        \* item[l]: shop_items.status
  good,        \* good[l]: the lot's account passes the sale rules
  holder,      \* holder[l]: who owns the asset, the seller or the buyer of p
  given,       \* given[l]: history, the purchases that took the asset
  contested,   \* history, the lots whose account one check found to be the
               \* seller's while another was about to give it away
  status,      \* shop_purchases.status, "none" before the insert
  old,         \* old[p]: the TTL of the reservation has passed
  payment,     \* the transfer: with the row's memo, with an earlier one, none
  transfer,    \* ownership_transfer_status
  delivered,   \* delivered[p]: payload.delivery of an archive is written
  pc, buy, saw, doomed, kept,  \* a request: its place, purchase, the status
               \* it read, the ids it deletes, and whether the lot stays
  faults,
  cut          \* history, the purchases whose hand-over was cut short: its
               \* last write failed, the process restarted in the middle of
               \* it, or a refresh wrote an older payload over it

lotVars      == <<kind, item, good, holder, given, contested>>
purchaseVars == <<status, old, payment, transfer, delivered>>
locals       == <<pc, buy, saw, doomed, kept>>
mishaps      == <<faults, cut>>
vars == <<lotVars, purchaseVars, locals, mishaps>>

None   == 0 - 1
Seller == 0 - 2   \* seller_owner_id, among the holders
ExistsMutant(p) == status[p] # "none"   \* a deleted row is checked too

Exists(p) == status[p] \notin {"none", "deleted"}
On(l)  == {p \in Purchases : LotOf[p] = l}
Places == {"idle", "own", "refresh", "insert", "delete", "purge", "unlist",
           "expire", "item", "refund", "revive", "claim", "route", "sold",
           "deliver", "pick", "give", "shelf", "done", "fail"}

HandOver == {"route", "sold", "deliver", "pick", "give", "shelf", "done", "fail"}

RowsTyped ==
  /\ kind \in [Lots -> Kinds]
  /\ item \in [Lots -> {"published", "draft", "sold", "deleted"}]
  /\ good \in [Lots -> BOOLEAN]
  /\ holder \in [Lots -> Purchases \cup {Seller}]
  /\ given \in [Lots -> SUBSET Purchases]
  /\ status \in [Purchases -> {"none", "pending", "expired", "paid", "deleted"}]
  /\ old \in [Purchases -> BOOLEAN]
  /\ payment \in [Purchases -> {"no", "found", "orphaned"}]
  /\ transfer \in [Purchases -> {"pending", "completed", "failed"}]
  /\ delivered \in [Purchases -> BOOLEAN]
  /\ pc \in [Requests -> Places]
  /\ buy \in [Requests -> Purchases \cup {None}]
  /\ saw \in [Requests -> {"none", "pending", "expired", "paid"}]
  /\ doomed \in [Requests -> SUBSET Purchases]
  /\ kept \in [Requests -> BOOLEAN]
  /\ faults \in 0 .. MaxFaults

TypeOK == RowsTyped /\ contested \subseteq Lots /\ cut \subseteq Purchases

LocalsIdle ==
  /\ pc' = [r \in Requests |-> "idle"]
  /\ buy' = [r \in Requests |-> None]
  /\ saw' = [r \in Requests |-> "none"]
  /\ doomed' = [r \in Requests |-> {}]
  /\ kept' = [r \in Requests |-> TRUE]

Init ==
  /\ kind \in [Lots -> Kinds]
  /\ item = [l \in Lots |-> "published"]
  /\ good = [l \in Lots |-> TRUE]
  /\ holder = [l \in Lots |-> Seller]
  /\ given = [l \in Lots |-> {}]
  /\ contested = {}
  /\ status = [p \in Purchases |-> "none"]
  /\ old = [p \in Purchases |-> FALSE]
  /\ payment = [p \in Purchases |-> "no"]
  /\ transfer = [p \in Purchases |-> "pending"]
  /\ delivered = [p \in Purchases |-> FALSE]
  /\ pc = [r \in Requests |-> "idle"]
  /\ buy = [r \in Requests |-> None]
  /\ saw = [r \in Requests |-> "none"]
  /\ doomed = [r \in Requests |-> {}]
  /\ kept = [r \in Requests |-> TRUE]
  /\ faults = 0 /\ cut = {}

Fault == faults < MaxFaults /\ faults' = faults + 1

Goto(r, place) ==
  /\ pc' = [pc EXCEPT ![r] = place]
  /\ UNCHANGED <<buy, saw, doomed, kept>>

\* The request is answered.
Return(r) ==
  /\ pc' = [pc EXCEPT ![r] = "idle"]
  /\ buy' = [buy EXCEPT ![r] = None]
  /\ saw' = [saw EXCEPT ![r] = "none"]
  /\ doomed' = [doomed EXCEPT ![r] = {}]
  /\ kept' = [kept EXCEPT ![r] = TRUE]
-----------------------------------------------------------------------------
(***************************************************************************)
(* Reservations.                                                           *)
(***************************************************************************)
Live(p) == status[p] = "pending" /\ ~old[p]

Overdue(p) == old[p]

ExpirableMutant(p) == Overdue(p)   \* whatever the status: the CAS is dropped

\* CAS on 'pending', in the job, in expireStalePendingPurchases and in
\* markExpired.
Expirable(p) == Overdue(p) /\ status[p] = "pending"

Expire(S) == [p \in Purchases |-> IF p \in S /\ Expirable(p) THEN "expired"
                                  ELSE status[p]]

\* Purchases of the lot by others (NULL equals NULL here).
Foreign(p) == {q \in On(LotOf[p]) : BuyerOf[q] # BuyerOf[p]}

\* createOrRefreshBuyerPurchase: overdue reservations expire, the lot must be
\* on sale and in order, and nobody else may hold a reservation or have paid.
\* p is the first number of its lot and buyer.
CreateRead(r, p) ==
  LET l == LotOf[p] IN
  /\ pc[r] = "idle"
  /\ item[l] = "published"
  /\ kind[l] \in {"userbot", "files", "hybrid"} => good[l]
  /\ BuyerOf[p] = Anon => kind[l] \in {"userbot", "files", "hybrid"}
  /\ kind[l] # "text" =>
       /\ \A q \in Foreign(p) : ~Live(q) /\ status[q] # "paid"
       /\ BuyerOf[p] = Anon => \A q \in On(l) : BuyerOf[q] = Anon => ~Live(q)
  /\ \A q \in On(l) : BuyerOf[q] = BuyerOf[p] => p <= q
  /\ status' = Expire(On(l))
  /\ pc' = [pc EXCEPT ![r] = "own"]
  /\ buy' = [buy EXCEPT ![r] = p]
  /\ UNCHANGED <<lotVars, old, payment, transfer, delivered, saw, doomed, kept,
                 mishaps>>

\* The buyer's own purchases of the lot; a guest has none.
Own(p) == {q \in On(LotOf[p]) : BuyerOf[q] = BuyerOf[p] /\ BuyerOf[p] # Anon
                                /\ Exists(q)}

Newest(p, q) == q \in Own(p) /\ \A s \in Own(p) : s <= q

\* The newest is paid: refused; still live: it is refreshed; else a new one.
CreateOwn(r) ==
  LET p == buy[r] IN
  /\ pc[r] = "own"
  /\ \/ \E q \in Own(p) :
          /\ Newest(p, q)
          /\ \/ status[q] = "paid" /\ Return(r)
             \/ /\ Live(q)
                /\ pc' = [pc EXCEPT ![r] = "refresh"]
                /\ buy' = [buy EXCEPT ![r] = q]
                /\ UNCHANGED <<saw, doomed, kept>>
     \/ /\ \A q \in Own(p) : Newest(p, q) => status[q] # "paid" /\ ~Live(q)
        /\ Goto(r, "insert")
  /\ UNCHANGED <<lotVars, purchaseVars, mishaps>>

\* The payload of the reservation that was read is written by the id, with a
\* new memo, whatever the purchase has become: the record of an archive that
\* was delivered meanwhile goes.
CreateRefresh(r) ==
  LET p == buy[r] IN
  /\ pc[r] = "refresh"
  /\ IF Exists(p)
     THEN /\ payment' = [payment EXCEPT ![p] = IF @ = "found" THEN "orphaned" ELSE @]
          /\ delivered' = [delivered EXCEPT ![p] = FALSE]
          /\ cut' = IF delivered[p] THEN cut \cup {p} ELSE cut
     ELSE UNCHANGED <<payment, delivered, cut>>
  /\ Return(r)
  /\ UNCHANGED <<lotVars, status, old, transfer, faults>>

\* The insert makes the id, the buyer's next number; or it fails.
CreateInsert(r) ==
  LET p == buy[r]
      unused == {q \in On(LotOf[p]) : BuyerOf[q] = BuyerOf[p] /\ status[q] = "none"} IN
  /\ pc[r] = "insert"
  /\ \/ UNCHANGED status
     \/ \E q \in unused :
          /\ \A s \in unused : q <= s
          /\ Cardinality({s \in Purchases : status[s] # "none"}) < MaxBuys
          /\ status' = [status EXCEPT ![q] = "pending"]
  /\ Return(r)
  /\ UNCHANGED <<lotVars, old, payment, transfer, delivered, mishaps>>

\* POST /public/purchase/cancel: the delete is guarded by the status.
Cancel(p) ==
  /\ status[p] = "pending"
  /\ status' = [status EXCEPT ![p] = "deleted"]
  /\ UNCHANGED <<lotVars, old, payment, transfer, delivered, locals, mishaps>>

\* POST /public/purchase/cancel-batch: read, then deleted by the ids.
CancelBatchRead(r, p) ==
  /\ pc[r] = "idle"
  /\ status[p] = "pending"
  /\ buy' = [buy EXCEPT ![r] = p]
  /\ doomed' = [doomed EXCEPT ![r] = {p}]
  /\ pc' = [pc EXCEPT ![r] = "delete"]
  /\ UNCHANGED <<lotVars, purchaseVars, saw, kept, mishaps>>

\* DELETE /seller/items/:id: the overdue reservations expire and go, and the
\* lot goes too unless somebody has paid or holds a reservation.
DeleteLotRead(r, l) ==
  LET stale == {p \in On(l) : status[p] = "pending" /\ Overdue(p)} IN
  /\ pc[r] = "idle"
  /\ item[l] # "deleted"
  /\ buy' = [buy EXCEPT ![r] = CHOOSE p \in On(l) : TRUE]
  /\ status' = Expire(On(l))
  /\ doomed' = [doomed EXCEPT ![r] = stale]
  /\ kept' = [kept EXCEPT ![r] = \E p \in On(l) : status[p] = "paid" \/ Live(p)]
  /\ kept'[r] => stale # {}
  /\ pc' = [pc EXCEPT ![r] = IF stale = {} THEN "unlist" ELSE "purge"]
  /\ UNCHANGED <<lotVars, old, payment, transfer, delivered, saw, mishaps>>

\* Both deletes go by the ids alone.
DeleteRows(r) ==
  /\ pc[r] \in {"delete", "purge"}
  /\ status' = [p \in Purchases |-> IF p \in doomed[r] THEN "deleted" ELSE status[p]]
  /\ IF kept[r]
     THEN Return(r)
     ELSE /\ pc' = [pc EXCEPT ![r] = "unlist"]
          /\ doomed' = [doomed EXCEPT ![r] = {}]
          /\ UNCHANGED <<buy, saw, kept>>
  /\ UNCHANGED <<lotVars, old, payment, transfer, delivered, mishaps>>

DeleteLot(r) ==
  /\ pc[r] = "unlist"
  /\ item' = [item EXCEPT ![LotOf[buy[r]]] = "deleted"]
  /\ Return(r)
  /\ UNCHANGED <<kind, good, holder, given, contested, purchaseVars, mishaps>>
-----------------------------------------------------------------------------
(***************************************************************************)
(* The check of a payment: runShopPurchaseCheck.                           *)
(***************************************************************************)
Settled(p) == status[p] = "paid" /\ (transfer[p] = "completed" \/ delivered[p])

\* The row is read and its transfer searched.  A transfer may be missed; an
\* overdue purchase without one expires.
CheckRead(r, p) ==
  /\ pc[r] = "idle"
  /\ Exists(p) /\ ~Settled(p)
  /\ \/ payment[p] = "found" /\ pc' = [pc EXCEPT ![r] = "item"]
     \/ /\ status[p] = "expired" \/ old[p]
        /\ pc' = [pc EXCEPT ![r] = "expire"]
  /\ buy' = [buy EXCEPT ![r] = p]
  /\ saw' = [saw EXCEPT ![r] = status[p]]
  /\ UNCHANGED <<lotVars, purchaseVars, doomed, kept, mishaps>>

CheckExpires(r) ==
  /\ pc[r] = "expire"
  /\ status' = Expire({buy[r]})
  /\ Return(r)
  /\ UNCHANGED <<lotVars, old, payment, transfer, delivered, mishaps>>

\* What was read of the row is not needed any more.
Decide(r, place) ==
  /\ pc' = [pc EXCEPT ![r] = place]
  /\ saw' = [saw EXCEPT ![r] = "none"]
  /\ UNCHANGED <<buy, doomed, kept>>

\* The lot is read: gone, sold to somebody else, or there.
CheckItem(r) ==
  LET l == LotOf[buy[r]] IN
  /\ pc[r] = "item"
  /\ \/ item[l] = "deleted" /\ Return(r)
     \/ /\ item[l] = "sold" /\ kind[l] # "text"
        /\ IF saw[r] = "pending" THEN Decide(r, "refund") ELSE Return(r)
     \/ /\ item[l] # "deleted"
        /\ item[l] = "sold" => kind[l] = "text"
        /\ Decide(r, IF saw[r] = "expired" THEN "revive" ELSE "claim")
  /\ UNCHANGED <<lotVars, purchaseVars, mishaps>>

\* Sold to somebody else: 'paid' and 'failed' are the record for a refund.
CheckRefund(r) ==
  LET p == buy[r] IN
  /\ pc[r] = "refund"
  /\ IF status[p] = "pending"
     THEN /\ status' = [status EXCEPT ![p] = "paid"]
          /\ transfer' = [transfer EXCEPT ![p] = "failed"]
     ELSE UNCHANGED <<status, transfer>>
  /\ Return(r)
  /\ UNCHANGED <<lotVars, old, payment, delivered, mishaps>>

\* A late payment: CAS on 'expired'.
CheckRevive(r) ==
  /\ pc[r] = "revive"
  /\ status' = [status EXCEPT ![buy[r]] = IF @ = "expired" THEN "pending" ELSE @]
  /\ Goto(r, "claim")
  /\ UNCHANGED <<lotVars, old, payment, transfer, delivered, mishaps>>

ClaimWonMutant(p) == TRUE   \* the result of the UPDATE is not looked at

NoRowMutant(p) == FALSE     \* the UPDATE does not return its row

\* claimPaid: CAS on 'pending'.
ClaimWon(p) == status[p] = "pending"

CheckClaim(r) ==
  LET p == buy[r]
      text == kind[LotOf[p]] = "text" IN
  /\ pc[r] = "claim"
  /\ status' = [status EXCEPT ![p] = IF @ = "pending" THEN "paid" ELSE @]
  /\ transfer' = [transfer EXCEPT ![p] =
       IF status[p] = "pending" /\ text THEN "completed" ELSE @]
  /\ IF ClaimWon(p) /\ ~text THEN Goto(r, "route") ELSE Return(r)
  /\ UNCHANGED <<lotVars, old, payment, delivered, mishaps>>

HasAccount(l) == kind[l] \in {"userbot", "files", "hybrid"}

ByFiles(p) ==
  \/ kind[LotOf[p]] = "files"
  \/ kind[LotOf[p]] = "hybrid" /\ BuyerOf[p] = Anon

\* Quarantined, or paid by a guest to whom nothing can be transferred.
Undeliverable(p) ==
  \/ HasAccount(LotOf[p]) /\ ~good[LotOf[p]]
  \/ ~ByFiles(p) /\ BuyerOf[p] = Anon

\* Which way the lot is handed over.
CheckRoute(r) ==
  LET p == buy[r] IN
  /\ pc[r] = "route"
  /\ Goto(r, IF Undeliverable(p) THEN "fail"
             ELSE IF ByFiles(p) THEN "sold"
             ELSE IF HasAccount(LotOf[p]) THEN "pick" ELSE "give")
  /\ UNCHANGED <<lotVars, purchaseVars, mishaps>>

\* The lot leaves the shop, in a write whose failure is not looked at.
LotSold(r) ==
  LET l == LotOf[buy[r]] IN
  /\ pc[r] \in {"sold", "shelf"}
  /\ \/ /\ item' = [item EXCEPT ![l] = IF @ = "deleted" THEN @ ELSE "sold"]
        /\ UNCHANGED faults
     \/ Fault /\ UNCHANGED item
  /\ Goto(r, IF pc[r] = "sold" THEN "deliver" ELSE "done")
  /\ UNCHANGED <<kind, good, holder, given, contested, purchaseVars, cut>>

\* The check writes the payload it read too, with the memo that was paid.
PayloadBack(p) ==
  payment' = [payment EXCEPT ![p] = IF Exists(p) THEN "found" ELSE @]

DeliverFiles(r) ==
  LET p == buy[r] IN
  /\ pc[r] = "deliver"
  /\ \/ /\ delivered' = [delivered EXCEPT ![p] = Exists(p)]
        /\ PayloadBack(p)
        /\ UNCHANGED mishaps
     \/ Fault /\ cut' = cut \cup {p} /\ UNCHANGED <<delivered, payment>>
  /\ Return(r)
  /\ UNCHANGED <<lotVars, status, old, transfer>>

GoodMutant(l) == good[l]   \* whoever owns it

\* transferShopAssets reads the account, which must be the seller's and in
\* order, and writes the new owner by its id.
Transferable(l) == holder[l] = Seller /\ good[l]

About(l) == {r \in Requests : pc[r] = "give" /\ LotOf[buy[r]] = l}

PickAccount(r) ==
  LET l == LotOf[buy[r]] IN
  /\ pc[r] = "pick"
  /\ Goto(r, IF Transferable(l) THEN "give" ELSE "fail")
  /\ contested' = IF Transferable(l) /\ About(l) # {} THEN contested \cup {l}
                  ELSE contested
  /\ UNCHANGED <<kind, item, good, holder, given, purchaseVars, mishaps>>

\* The UPDATE of a proxy names the seller as its owner, and matches no row
\* once it is gone.
Takes(l) == HasAccount(l) \/ holder[l] = Seller

GiveAsset(r) ==
  LET p == buy[r]
      l == LotOf[p] IN
  /\ pc[r] = "give"
  /\ IF Takes(l)
     THEN /\ holder' = [holder EXCEPT ![l] = p]
          /\ given' = [given EXCEPT ![l] = @ \cup {p}]
     ELSE UNCHANGED <<holder, given>>
  /\ Goto(r, "shelf")
  /\ UNCHANGED <<kind, item, good, contested, purchaseVars, mishaps>>

GiveFails(r) ==
  /\ pc[r] \in {"pick", "give"} /\ Fault
  /\ Goto(r, "fail")
  /\ UNCHANGED <<lotVars, purchaseVars, cut>>

\* The last writes go by the id, and their failure is not looked at; that of a
\* hybrid lot writes the payload.
Finish(r) ==
  LET p == buy[r] IN
  /\ pc[r] \in {"done", "fail"}
  /\ \/ /\ transfer' = [transfer EXCEPT ![p] =
             IF Exists(p) THEN (IF pc[r] = "done" THEN "completed" ELSE "failed") ELSE @]
        /\ IF pc[r] = "done" /\ kind[LotOf[p]] = "hybrid" THEN PayloadBack(p)
           ELSE UNCHANGED payment
        /\ UNCHANGED mishaps
     \/ Fault /\ cut' = cut \cup {p} /\ UNCHANGED <<transfer, payment>>
  /\ Return(r)
  /\ UNCHANGED <<lotVars, status, old, delivered>>
-----------------------------------------------------------------------------
(***************************************************************************)
(* The rest of the system.                                                 *)
(***************************************************************************)
\* The buyer pays, in time or late, with the memo the page shows.
Pay(p) ==
  /\ status[p] \in {"pending", "expired"}
  /\ payment[p] # "found"
  /\ payment' = [payment EXCEPT ![p] = "found"]
  /\ UNCHANGED <<lotVars, status, old, transfer, delivered, locals, mishaps>>

Ages(p) ==
  /\ status[p] = "pending" /\ ~old[p]
  /\ old' = [old EXCEPT ![p] = TRUE]
  /\ UNCHANGED <<lotVars, status, payment, transfer, delivered, locals, mishaps>>

\* shop-purchase-expiry.job.js, and the same UPDATE of the invoices' job.
ExpiryJob ==
  /\ \E p \in Purchases : Expirable(p)
  /\ status' = Expire(Purchases)
  /\ UNCHANGED <<lotVars, old, payment, transfer, delivered, locals, mishaps>>

\* The seller takes the lot down; the status before is not looked at.
Unpublish(l) ==
  /\ item[l] \in {"published", "sold"}
  /\ item' = [item EXCEPT ![l] = "draft"]
  /\ UNCHANGED <<kind, good, holder, given, contested, purchaseVars, locals, mishaps>>

\* A check of the account finds it unfit and takes a published lot down.
Quarantine(l) ==
  /\ HasAccount(l) /\ good[l]
  /\ good' = [good EXCEPT ![l] = FALSE]
  /\ item' = [item EXCEPT ![l] = IF @ = "published" THEN "draft" ELSE @]
  /\ UNCHANGED <<kind, holder, given, contested, purchaseVars, locals, mishaps>>

\* listed-userbot-health.job.js: the account is well again and any draft lot
\* of it with the same owner goes back on sale.
Restore(l) ==
  /\ HasAccount(l) /\ item[l] = "draft" /\ holder[l] = Seller
  /\ good' = [good EXCEPT ![l] = TRUE]
  /\ item' = [item EXCEPT ![l] = "published"]
  /\ UNCHANGED <<kind, holder, given, contested, purchaseVars, locals, mishaps>>

Restart ==
  /\ Fault
  /\ \E r \in Requests : pc[r] # "idle"
  /\ cut' = cut \cup {buy[r] : r \in {q \in Requests : pc[q] \in HandOver}}
  /\ LocalsIdle
  /\ UNCHANGED <<lotVars, purchaseVars>>

RequestStep(r) ==
  \/ CreateOwn(r) \/ CreateRefresh(r) \/ CreateInsert(r)
  \/ DeleteRows(r) \/ DeleteLot(r)
  \/ CheckExpires(r) \/ CheckItem(r) \/ CheckRefund(r) \/ CheckRevive(r)
  \/ CheckClaim(r) \/ CheckRoute(r) \/ LotSold(r) \/ DeliverFiles(r)
  \/ PickAccount(r) \/ GiveAsset(r) \/ GiveFails(r) \/ Finish(r)

Next ==
  \/ \E r \in Requests :
       \/ \E p \in Purchases : \/ CreateRead(r, p) \/ CancelBatchRead(r, p)
                               \/ CheckRead(r, p)
       \/ \E l \in Lots : DeleteLotRead(r, l)
       \/ RequestStep(r)
  \/ \E p \in Purchases : Cancel(p) \/ Pay(p) \/ Ages(p)
  \/ \E l \in Lots : Unpublish(l) \/ Quarantine(l) \/ Restore(l)
  \/ ExpiryJob
  \/ Restart

Spec == Init /\ [][Next]_vars
-----------------------------------------------------------------------------
(***************************************************************************)
(* Properties.                                                             *)
(***************************************************************************)
\* Nothing is handed over without a payment that was made and booked: whoever
\* has the asset, an archive or a completed transfer has paid, and the check
\* that lost the claim, or claimed a reservation that expired meanwhile, has
\* handed over nothing.
HandedIsPaid ==
  \A p \in Purchases :
    (transfer[p] = "completed" \/ delivered[p] \/ p \in given[LotOf[p]]) =>
      payment[p] # "no" /\ status[p] \in {"paid", "deleted"}

\* However often a lot is paid for, taken down and put up again, it is given
\* to one buyer: a proxy always, for its UPDATE names the seller; an account
\* unless a check found it to be the seller's after another had found the same
\* and before that one wrote its new owner.
SoldToFew ==
  \A l \in Lots :
    \/ Cardinality(given[l]) <= 1
    \/ HasAccount(l) /\ l \in contested

Row == INSTANCE OrderLifecycle
         WITH Orders <- Purchases, late <- old,
              received <- [p \in Purchases |-> payment[p] # "no"],
              doomed <- UNION {doomed[r] : r \in Requests}

\* The purchase's row keeps the contract of OrderLifecycle, which ProBilling
\* keeps too: checks that overlap, the expiry, the record for a refund and the
\* three kinds of deletion book, revive and delete only what they saw.
OrderKept == Row!Spec

\* "A purchase that is paid can no longer be cancelled" (purchase-api.js:49):
\* it neither expires nor reopens; only a batch cancellation or a deletion of
\* the lot that saw it unpaid can still remove it.
PaidStays ==
  [][\A p \in Purchases : status[p] = "paid" /\ status'[p] # "paid" =>
       \E r \in Requests : pc[r] \in {"delete", "purge"} /\ p \in doomed[r]]_vars

\* A booked payment is handed over, or kept as the record for a refund, by
\* the check that booked it: a paid purchase with neither has its check still
\* on the way, or its hand-over was cut short by a failed write, a restart or
\* a refresh that had read it as a reservation.
PaidIsSettled ==
  \A p \in Purchases :
    status[p] = "paid" /\ transfer[p] = "pending" /\ ~delivered[p] =>
      \/ p \in cut
      \/ \E r \in Requests : buy[r] = p /\ pc[r] \in HandOver
=============================================================================
