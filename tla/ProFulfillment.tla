--------------------------- MODULE ProFulfillment ---------------------------
(***************************************************************************)
(* Delivery of the userbot and the proxy that come with a paid Pro order   *)
(* (backend/services/pro-fulfillment.service.js), the transfer it shares   *)
(* with the Shop (shop-transfer.service.js), and what may happen to the    *)
(* lots meanwhile: the seller withdraws one, the health job puts one back  *)
(* on the showcase, a buyer of the Shop has paid for the same lot and its  *)
(* check (ShopPurchase) hands it over.  Who calls the delivery, and when,  *)
(* is in ProBilling.                                                       *)
(*                                                                         *)
(* A call of fulfillProOrderBundle is a worker; each of its database calls *)
(* is a step.  The claim's timestamp is the token it is recognised by.     *)
(* A lot holds one userbot and one proxy (the code skips any other), and   *)
(* an order stands for its buyer.  A database call that reports an error   *)
(* is taken as not applied.                                                *)
(***************************************************************************)
EXTENDS Integers, FiniteSets

CONSTANTS
  Orders,    \* paid billing_orders, one per buyer
  Lots,      \* shop_items of type 'bundle': numbers, the older the smaller
  BotFirst,  \* lots whose userbot precedes the proxy in sort_order
  Workers,   \* concurrent calls: verification requests, the recovery job
  Tokens,    \* values of fulfillment_claimed_at
  Buyers,    \* buyers of the Shop: each pays for one lot, once
  Seller,    \* the platform account that owns the lots
  Withdrawn, \* bound: the lots that may leave the showcase unsold
  Wanted,    \* bound: the lots that buyers of the Shop pay for
  MaxCalls   \* bound: workers and Shop checks under way at once

ASSUME FulfillmentConstants ==
  /\ Lots \subseteq Nat
  /\ BotFirst \subseteq Lots
  /\ Withdrawn \subseteq Lots
  /\ Wanted \subseteq Lots
  /\ MaxCalls \in Nat
  /\ Tokens \subseteq Nat \ {0}
  /\ Seller \notin Orders \cup Buyers
  /\ Orders \cap Buyers = {}

VARIABLES
  status,    \* billing_orders.payload.fulfillment_status
  token,     \* billing_orders.payload.fulfillment_claimed_at
  lapsed,    \* the 10 minutes of a 'processing' claim have passed
  lot,       \* shop_items.status
  botOf,     \* tg_accounts.owner_id
  proxyOf,   \* proxies.owner_id
  deal,      \* shop_purchases.ownership_transfer_status of the buyer's latest
             \* purchase of the lot, "none" before the first
  shop, want,  \* a check of the Shop: its place, and the lot it has booked
  pc, order, seen, own, todo, item,  \* the workers' local state
  settler,   \* history: the worker's claim under which the order was settled
  again,     \* history: orders claimed again after a failure or a lapse
  relisted   \* history: lots put back on the showcase

orderVars  == <<status, token, lapsed>>
assetVars  == <<botOf, proxyOf>>
shopVars   == <<shop, want>>
workerVars == <<pc, order, seen, own, todo, item>>
vars == <<orderVars, lot, assetVars, deal, shopVars, workerVars,
          settler, again, relisted>>

NoToken == 0         \* the field is not set
Nobody == "nobody"   \* no order in a worker's hands
NoLot  == -1         \* no lot in a worker's hands

InRun == {"read", "claim", "load", "next", "take", "record", "proxy",
          "readBot", "moveBot", "markSold", "close", "complete", "failDeal",
          "fail"}

RowsTyped ==
  /\ status  \in [Orders -> {"none", "processing", "completed", "failed"}]
  /\ token   \in [Orders -> Tokens \cup {NoToken}]
  /\ lapsed  \in [Orders -> BOOLEAN]
  /\ lot     \in [Lots -> {"published", "sold", "draft"}]
  /\ botOf   \in [Lots -> Orders \cup Buyers \cup {Seller}]
  /\ proxyOf \in [Lots -> Orders \cup Buyers \cup {Seller}]
  /\ deal    \in [Orders -> [Lots -> {"none", "pending", "completed", "failed"}]]
  /\ settler \in [Orders -> Tokens \cup {NoToken}]
  /\ again   \subseteq Orders
  /\ relisted \subseteq Lots

WorkersTyped ==
  /\ pc      \in [Workers -> InRun \cup {"idle"}]
  /\ order   \in [Workers -> Orders \cup {Nobody}]
  /\ seen    \in [Workers -> {"none", "processing", "completed", "failed"}]
  /\ own     \in [Workers -> Tokens \cup {NoToken}]
  /\ todo    \in [Workers -> SUBSET Lots]
  /\ item    \in [Workers -> Lots \cup {NoLot}]

Transfer == {"proxy", "readBot", "moveBot", "markSold"}

ShopTyped ==
  /\ shop \in [Buyers -> Transfer \cup {"idle", "over"}]
  /\ want \in [Buyers -> Lots \cup {NoLot}]
  /\ \A b \in Buyers : shop[b] = "idle" <=> want[b] = NoLot

TypeOK == RowsTyped /\ WorkersTyped /\ ShopTyped

Init ==
  /\ status  = [o \in Orders |-> "none"]
  /\ token   = [o \in Orders |-> NoToken]
  /\ lapsed  = [o \in Orders |-> FALSE]
  /\ lot     = [i \in Lots |-> "published"]
  /\ botOf   = [i \in Lots |-> Seller]
  /\ proxyOf = [i \in Lots |-> Seller]
  /\ deal    = [o \in Orders |-> [i \in Lots |-> "none"]]
  /\ shop    = [b \in Buyers |-> "idle"]
  /\ want    = [b \in Buyers |-> NoLot]
  /\ pc      = [w \in Workers |-> "idle"]
  /\ order   = [w \in Workers |-> Nobody]
  /\ seen    = [w \in Workers |-> "none"]
  /\ own     = [w \in Workers |-> NoToken]
  /\ todo    = [w \in Workers |-> {}]
  /\ item    = [w \in Workers |-> NoLot]
  /\ settler = [o \in Orders |-> NoToken]
  /\ again   = {}
  /\ relisted = {}
-----------------------------------------------------------------------------
Goto(w, place) == pc' = [pc EXCEPT ![w] = place]

\* The call returns, or its process dies: the worker is free for another one.
Leave(w) ==
  /\ Goto(w, "idle")
  /\ order' = [order EXCEPT ![w] = Nobody]
  /\ seen'  = [seen EXCEPT ![w] = "none"]
  /\ own'   = [own EXCEPT ![w] = NoToken]
  /\ todo'  = [todo EXCEPT ![w] = {}]
  /\ item'  = [item EXCEPT ![w] = NoLot]

history == <<settler, again, relisted>>

(***************************************************************************)
(* fulfillProOrderBundle: the claim.                                       *)
(***************************************************************************)
MayStart == Cardinality({w \in Workers : pc[w] # "idle"})
            + Cardinality({b \in Buyers : shop[b] \in Transfer}) < MaxCalls

\* fulfillProOrderBundle(order) is called for a paid order.
Call(w, o) ==
  /\ pc[w] = "idle" /\ MayStart
  /\ Goto(w, "read")
  /\ order' = [order EXCEPT ![w] = o]
  /\ UNCHANGED <<shopVars, orderVars, lot, assetVars, deal, seen, own, todo, item, history>>

\* Not delivered yet, and not in the hands of a worker that may be alive.
Reclaimable(o) == \/ status[o] \in {"none", "failed"}
                  \/ status[o] = "processing" /\ lapsed[o]

ReadOrder(w) ==
  /\ pc[w] = "read"
  /\ \/ /\ Reclaimable(order[w])
        /\ seen' = [seen EXCEPT ![w] = status[order[w]]]
        /\ own'  = [own EXCEPT ![w] = token[order[w]]]
        /\ Goto(w, "claim")
        /\ UNCHANGED <<order, todo, item>>
     \/ ~Reclaimable(order[w]) /\ Leave(w)
  /\ UNCHANGED <<shopVars, orderVars, lot, assetVars, deal, history>>

UnclaimedSinceMutant(w) ==   \* the status is not compared
  seen[w] = "none" \/ token[order[w]] = own[w]

\* The row still holds the pair (status, claimed_at) that was read.
UnclaimedSince(w) ==
  /\ status[order[w]] = seen[w]
  /\ seen[w] = "none" \/ token[order[w]] = own[w]

\* Claims carry the time they were made at: later than every claim so far.
\* Bound: a behaviour has as many claims as there are Tokens.
Later == {t \in Tokens : \A o \in Orders : token[o] < t}
NewToken == CHOOSE t \in Later : TRUE

ClaimOrder(w) ==
  /\ pc[w] = "claim"
  /\ \/ /\ UnclaimedSince(w)
        /\ Later # {}
        /\ status' = [status EXCEPT ![order[w]] = "processing"]
        /\ token'  = [token EXCEPT ![order[w]] = NewToken]
        /\ lapsed' = [lapsed EXCEPT ![order[w]] = FALSE]
        /\ own'    = [own EXCEPT ![w] = NewToken]
        /\ seen'   = [seen EXCEPT ![w] = "none"]
        /\ settler' = [settler EXCEPT ![order[w]] = NoToken]
        /\ again'  = IF seen[w] = "none" THEN again ELSE again \cup {order[w]}
        /\ Goto(w, "load")
        /\ UNCHANGED <<order, todo, item>>
     \/ ~UnclaimedSince(w) /\ Leave(w) /\ UNCHANGED <<orderVars, settler, again>>
  /\ UNCHANGED <<shopVars, lot, assetVars, deal, relisted>>

(***************************************************************************)
(* The choice of a bundle.                                                 *)
(***************************************************************************)
LoadLots(w) ==
  /\ pc[w] = "load"
  /\ todo' = [todo EXCEPT ![w] = {i \in Lots : lot[i] = "published"}]
  /\ Goto(w, "next")
  /\ UNCHANGED <<shopVars, orderVars, lot, assetVars, deal, order, seen, own,
                 item, history>>

\* Before each lot the worker looks whether the claim is still its own, and
\* then whether the account may be handed over: its status, 'restricted' or
\* 'frozen' or not, is whatever the last check of the account made it.
NextLot(w) ==
  /\ pc[w] = "next"
  /\ \/ /\ todo[w] = {}
        /\ Goto(w, "fail")
        /\ UNCHANGED <<order, seen, own, todo, item>>
     \/ /\ token[order[w]] = own[w]
        /\ \E i \in todo[w] :
             /\ \A j \in todo[w] : i <= j   \* the oldest first
             /\ todo' = [todo EXCEPT ![w] = @ \ {i}]
             /\ \/ item' = [item EXCEPT ![w] = i] /\ Goto(w, "take")
                \/ UNCHANGED <<item, pc>>
        /\ UNCHANGED <<order, seen, own>>
     \/ todo[w] # {} /\ token[order[w]] # own[w] /\ Leave(w)
  /\ UNCHANGED <<shopVars, orderVars, lot, assetVars, deal, history>>

OnSaleMutant(i) == TRUE      \* the UPDATE names the lot only

OnSale(i) == lot[i] = "published"

TakeLot(w) ==
  /\ pc[w] = "take"
  /\ \/ /\ OnSale(item[w])
        /\ lot' = [lot EXCEPT ![item[w]] = "sold"]
        /\ todo' = [todo EXCEPT ![w] = {}]   \* the loop ends with this lot
        /\ Goto(w, "record")
        /\ UNCHANGED item
     \/ /\ ~OnSale(item[w])
        /\ item' = [item EXCEPT ![w] = NoLot]
        /\ Goto(w, "next")
        /\ UNCHANGED <<lot, todo>>
  /\ UNCHANGED <<shopVars, orderVars, assetVars, deal, order, seen, own, history>>

(***************************************************************************)
(* The sale of the lot to the order, and transferShopAssets.  A database   *)
(* error in one of these steps ends in the catch block.                    *)
(***************************************************************************)
NoBotMutant(i) == "markSold"   \* the loop stops after the proxy

FirstAsset(i)  == IF i \in BotFirst THEN "readBot" ELSE "proxy"
AfterProxy(i)  == IF i \in BotFirst THEN "markSold" ELSE "readBot"
AfterBot(i)    == IF i \in BotFirst THEN "proxy" ELSE "markSold"

SetDeal(w, state) == deal' = [deal EXCEPT ![order[w]][item[w]] = state]

RecordDeal(w) ==
  /\ pc[w] = "record"
  /\ \/ SetDeal(w, "pending") /\ Goto(w, FirstAsset(item[w]))
     \/ Goto(w, "fail") /\ UNCHANGED deal
  /\ UNCHANGED <<shopVars, orderVars, lot, assetVars, order, seen, own, todo,
                 item, history>>

\* A proxy that is no longer the seller's is left where it is, silently.
ProxyTo(i, buyer) ==
  proxyOf' = IF proxyOf[i] = Seller THEN [proxyOf EXCEPT ![i] = buyer] ELSE proxyOf

\* The UPDATE of the account names its id only, not its owner.
BotTo(i, buyer) == botOf' = [botOf EXCEPT ![i] = buyer]

MoveProxy(w) ==
  /\ pc[w] = "proxy"
  /\ \/ /\ ProxyTo(item[w], order[w])
        /\ Goto(w, AfterProxy(item[w]))
     \/ Goto(w, "failDeal") /\ UNCHANGED proxyOf
  /\ UNCHANGED <<shopVars, orderVars, lot, botOf, deal, order, seen, own,
                 todo, item, history>>

\* The account must still be the seller's, and its status a working one.
ReadBot(w) ==
  /\ pc[w] = "readBot"
  /\ \/ botOf[item[w]] = Seller /\ Goto(w, "moveBot")
     \/ Goto(w, "failDeal")
  /\ UNCHANGED <<shopVars, orderVars, lot, assetVars, deal, order, seen, own,
                 todo, item, history>>

MoveBot(w) ==
  /\ pc[w] = "moveBot"
  /\ \/ /\ BotTo(item[w], order[w])
        /\ Goto(w, AfterBot(item[w]))
     \/ Goto(w, "failDeal") /\ UNCHANGED botOf
  /\ UNCHANGED <<shopVars, orderVars, lot, proxyOf, deal, order, seen, own,
                 todo, item, history>>

\* transferShopAssets does not look at the error of its last UPDATE.
MarkSold(w) ==
  /\ pc[w] = "markSold"
  /\ \/ lot' = [lot EXCEPT ![item[w]] = "sold"]
     \/ UNCHANGED lot
  /\ Goto(w, "close")
  /\ UNCHANGED <<shopVars, orderVars, assetVars, deal, order, seen, own, todo,
                 item, history>>

CloseDeal(w) ==
  /\ pc[w] = "close"
  /\ \/ SetDeal(w, "completed") /\ Goto(w, "complete")
     \/ Goto(w, "failDeal") /\ UNCHANGED deal
  /\ UNCHANGED <<shopVars, orderVars, lot, assetVars, order, seen, own, todo,
                 item, history>>

(***************************************************************************)
(* finalizeFulfillment, and the catch block before it.                     *)
(***************************************************************************)
StillMineMutant(w) == TRUE   \* the UPDATE names the order only

\* The row still carries the worker's own claim.
StillMine(w) == token[order[w]] = own[w]

Settle(w, outcome) ==
  /\ IF StillMine(w)
       THEN /\ status'  = [status EXCEPT ![order[w]] = outcome]
            /\ settler' = [settler EXCEPT ![order[w]] = own[w]]
       ELSE UNCHANGED <<status, settler>>
  /\ Leave(w)

Complete(w) ==
  /\ pc[w] = "complete"
  /\ \/ Settle(w, "completed")
     \/ /\ Goto(w, "failDeal")
        /\ UNCHANGED <<status, settler, order, seen, own, todo, item>>
  /\ UNCHANGED <<shopVars, token, lapsed, lot, assetVars, deal, again,
                 relisted>>

\* An error here is only logged.
FailDeal(w) ==
  /\ pc[w] = "failDeal"
  /\ \/ SetDeal(w, "failed")
     \/ UNCHANGED deal
  /\ Goto(w, "fail")
  /\ UNCHANGED <<shopVars, orderVars, lot, assetVars, order, seen, own, todo,
                 item, history>>

\* After a failed transfer, and when no lot was left.
FailOrder(w) ==
  /\ pc[w] = "fail"
  /\ Settle(w, "failed")
  /\ UNCHANGED <<shopVars, token, lapsed, lot, assetVars, deal, again,
                 relisted>>

\* An error that reaches the outer catch returns without touching the row.
MayThrow == {"read", "claim", "load", "next", "take", "fail"}

Throw(w) ==
  /\ pc[w] \in MayThrow
  /\ Leave(w)
  /\ UNCHANGED <<shopVars, orderVars, lot, assetVars, deal, history>>

(***************************************************************************)
(* What happens around the workers.                                        *)
(***************************************************************************)
\* The one process of the backend dies, and every call in it.
Crash ==
  /\ \/ \E w \in Workers : pc[w] # "idle"
     \/ \E b \in Buyers : shop[b] \in Transfer
  /\ shop'  = [b \in Buyers |-> IF shop[b] \in Transfer THEN "over" ELSE shop[b]]
  /\ pc'    = [w \in Workers |-> "idle"]
  /\ order' = [w \in Workers |-> Nobody]
  /\ seen'  = [w \in Workers |-> "none"]
  /\ own'   = [w \in Workers |-> NoToken]
  /\ todo'  = [w \in Workers |-> {}]
  /\ item'  = [w \in Workers |-> NoLot]
  /\ UNCHANGED <<want, orderVars, lot, assetVars, deal, history>>

\* Ten minutes have passed since the claim.
Lapse(o) ==
  /\ status[o] = "processing"
  /\ lapsed' = [lapsed EXCEPT ![o] = TRUE]
  /\ UNCHANGED <<shopVars, status, token, lot, assetVars, deal, workerVars, history>>

\* The lot leaves the showcase: unpublishShopItemsByUserbotId after a bad check
\* takes a published lot, the seller's own route one of any status.
Unpublish(i) ==
  /\ lot' = [lot EXCEPT ![i] = "draft"]
  /\ UNCHANGED <<shopVars, orderVars, assetVars, deal, workerVars,
                 history>>

\* restoreQuarantinedListing: any withdrawn lot whose account is still its
\* owner's and has been healthy for two checks.
Relist(i) ==
  /\ lot[i] = "draft" /\ botOf[i] = Seller
  /\ i \notin relisted   \* bound: once per lot
  /\ lot' = [lot EXCEPT ![i] = "published"]
  /\ relisted' = relisted \cup {i}
  /\ UNCHANGED <<shopVars, orderVars, assetVars, deal, workerVars,
                 settler, again>>

(***************************************************************************)
(* The check of a Shop purchase of the same lot: it has read the lot, not  *)
(* sold, and booked the payment; the Pro delivery does not look at         *)
(* reservations.  The claim of the lot is not repeated.                    *)
(***************************************************************************)
ShopBooks(b, i) ==
  /\ shop[b] = "idle" /\ MayStart
  /\ lot[i] # "sold"
  /\ want' = [want EXCEPT ![b] = i]
  /\ shop' = [shop EXCEPT ![b] = FirstAsset(i)]
  /\ UNCHANGED <<orderVars, lot, assetVars, deal, workerVars, history>>

ShopAt(b, place, next) == shop[b] = place /\ shop' = [shop EXCEPT ![b] = next]

\* transferShopAssets, as above; an error ends it where it is.
ShopProxy(b) ==
  /\ ShopAt(b, "proxy", AfterProxy(want[b]))
  /\ ProxyTo(want[b], b)
  /\ UNCHANGED <<want, orderVars, lot, botOf, deal, workerVars, history>>

ShopReadBot(b) ==
  /\ ShopAt(b, "readBot", "moveBot")
  /\ botOf[want[b]] = Seller
  /\ UNCHANGED <<want, orderVars, lot, assetVars, deal, workerVars, history>>

ShopMoveBot(b) ==
  /\ ShopAt(b, "moveBot", AfterBot(want[b]))
  /\ BotTo(want[b], b)
  /\ UNCHANGED <<want, orderVars, lot, proxyOf, deal, workerVars, history>>

ShopMarkSold(b) ==
  /\ ShopAt(b, "markSold", "over")
  /\ lot' = [lot EXCEPT ![want[b]] = "sold"]
  /\ UNCHANGED <<want, orderVars, assetVars, deal, workerVars, history>>

ShopFails(b) ==
  /\ shop[b] \in Transfer
  /\ shop' = [shop EXCEPT ![b] = "over"]
  /\ UNCHANGED <<want, orderVars, lot, assetVars, deal, workerVars, history>>

ShopStep(b) ==
  \/ ShopProxy(b) \/ ShopReadBot(b) \/ ShopMoveBot(b) \/ ShopMarkSold(b)
  \/ ShopFails(b)
-----------------------------------------------------------------------------
WorkerStep(w) ==
  \/ ReadOrder(w) \/ ClaimOrder(w) \/ LoadLots(w) \/ NextLot(w)
  \/ TakeLot(w) \/ RecordDeal(w) \/ MoveProxy(w) \/ ReadBot(w)
  \/ MoveBot(w) \/ MarkSold(w) \/ CloseDeal(w)
  \/ Complete(w) \/ FailDeal(w) \/ FailOrder(w)

Next ==
  \/ \E w \in Workers, o \in Orders : Call(w, o)
  \/ \E o \in Orders : Lapse(o)
  \/ \E w \in Workers : WorkerStep(w) \/ Throw(w)
  \/ Crash
  \/ \E i \in Withdrawn : Unpublish(i) \/ Relist(i)
  \/ \E b \in Buyers : ShopStep(b) \/ \E i \in Wanted : ShopBooks(b, i)

Spec == Init /\ [][Next]_vars
-----------------------------------------------------------------------------
(***************************************************************************)
(* Properties.                                                             *)
(***************************************************************************)
Lease == INSTANCE FulfillmentLease
           WITH Claims <- Tokens, NoClaim <- NoToken, phase <- status,
                holder <- token

\* The claim protocol of the row keeps the contract of FulfillmentLease: a
\* completed order is never claimed again, a claim is settled once and by the
\* worker that holds it, however late the others are ("the CAS on the claim
\* token", pro-fulfillment.service.js:51-52).
LeaseKept == Lease!Spec

\* A lot that never went back to the showcase is sold to one order at most,
\* whichever workers looked at it together (the CAS published -> sold).  A
\* Shop buyer makes no such claim and may have paid for the lot as well.
SoldOnce == \A i \in Lots \ relisted, o1, o2 \in Orders :
  deal[o1][i] # "none" /\ deal[o2][i] # "none" => o1 = o2

\* An order is told 'completed' only when a sale to its buyer is closed, and
\* the userbot and the proxy of that lot are then the buyer's, or those of a
\* buyer of the Shop who paid for the same lot: never the seller's, another
\* order's or split with anybody else (unless the lot was put back on the
\* showcase, where this may fail).
CompletedIsDelivered == \A o \in Orders : status[o] = "completed" =>
  \E i \in Lots :
    /\ deal[o][i] # "none"
    /\ i \notin relisted =>
         /\ deal[o][i] = "completed"
         /\ {botOf[i], proxyOf[i]} \subseteq {o} \cup {b \in Buyers : want[b] = i}

Received(o) == {i \in Lots : botOf[i] = o}

\* As long as the order's claim was never taken over or retried, its buyer
\* gets one userbot at most, whatever else runs at the same time.
OneBundlePerClaim == \A o \in Orders \ again :
  Cardinality(Received(o)) <= 1

\* What the design notes promise of the two conditional UPDATEs: a slow worker
\* does not hand out a second bundle (2026-09-10-pro-bundle-fulfillment.md:22).
NoSecondBundle == \A o \in Orders : Cardinality(Received(o)) <= 1

-----------------------------------------------------------------------------
(***************************************************************************)
(* What the proofs strengthen LeaseKept and SoldOnce with.                 *)
(***************************************************************************)
\* The stages in which a worker holds a claim it made, and those of them in
\* which it has taken a lot and may write its purchase.
Holding == {"load", "next", "take", "record", "proxy", "readBot", "moveBot",
            "markSold", "close", "complete", "failDeal", "fail"}
Selling == {"record", "proxy", "readBot", "moveBot", "markSold", "close",
            "complete", "failDeal"}

LocalsOK == \A w \in Workers :
  /\ pc[w] # "idle" => order[w] \in Orders
  /\ pc[w] \in Selling \cup {"take"} => item[w] \in Lots

\* A worker's token is one its order has carried; a claim that was read as
\* lapsed stays so; a worker whose token is in the row holds a live claim; and
\* no two workers hold the same claim.
OwnIsOld(w) == pc[w] \notin {"idle", "read"} => own[w] <= token[order[w]]

ReadAsLapsed(w) == pc[w] = "claim" =>
  /\ seen[w] # "completed"
  /\ seen[w] = "processing" /\ UnclaimedSince(w) => lapsed[order[w]]

HeldIsLive(w) == pc[w] \in Holding /\ token[order[w]] = own[w]
  => status[order[w]] = "processing"

HeldApart(w, v) == pc[w] \in Holding /\ pc[v] \in Holding /\ order[w] = order[v]
  => w = v \/ own[w] # own[v]

LeaseInv == \A w \in Workers :
  /\ OwnIsOld(w) /\ ReadAsLapsed(w) /\ HeldIsLive(w)
  /\ \A v \in Workers : HeldApart(w, v)

Taken(w, i) == pc[w] \in Selling /\ item[w] = i

\* A lot on sale for the first time is nobody's, and a taken one is taken by
\* one worker, for the order its purchases name.
SaleInv == \A i \in Lots \ relisted :
  /\ lot[i] = "published" =>
       /\ \A w \in Workers : ~Taken(w, i)
       /\ \A o \in Orders : deal[o][i] = "none"
  /\ \A w, v \in Workers : Taken(w, i) /\ Taken(v, i) => w = v
  /\ \A w \in Workers, o \in Orders :
       Taken(w, i) /\ deal[o][i] # "none" => o = order[w]
=============================================================================
