----------------------------- MODULE ProBilling -----------------------------
(***************************************************************************)
(* The sale of Bullgram Pro for TON: a billing_order is created, paid on   *)
(* chain, verified by the buyer's page (billing-ton-connect.service.js) or *)
(* by the public pay page (billing-public.routes.js), expired by the       *)
(* clean-up jobs, and leads to a Pro term of the owner's profile           *)
(* (bullgram-billing.service.js) and to the delivery of a bundle.  The     *)
(* recovery job (billing-activation-recovery.job.js) repeats the last two. *)
(*                                                                         *)
(* The delivery is the contract FulfillmentLease, which ProFulfillment     *)
(* implements.  A process is a request or the job; each of its database    *)
(* calls is a step.  Time is the passing of an order's 24 hours, of a Pro  *)
(* term and of a claim's 10 minutes.                                       *)
(***************************************************************************)
EXTENDS Integers, FiniteSets

CONSTANTS
  Orders,    \* ids of billing_orders
  Owners,    \* profiles
  OwnerOf,   \* billing_orders.owner_id
  Requests,  \* concurrent HTTP requests
  Job,       \* the recovery job
  MaxTerms,  \* bound: Pro terms are counted up to it
  MaxFaults  \* bound: failed database calls and restarts of the process

ASSUME BillingConstants ==
  /\ OwnerOf \in [Orders -> Owners]
  /\ Job \notin Requests
  /\ MaxTerms \in Nat /\ MaxFaults \in Nat

Procs == Requests \cup {Job}

VARIABLES
  status,    \* billing_orders.status, "none" before the insert
  overdue,   \* billing_orders.expires_at has passed
  onChain,   \* the platform wallet has received a transfer with the memo
  events,    \* billing_events 'ton_connect_payment_verified' of the order
  tier,      \* profiles.product_tier
  proEnds,   \* profiles.pro_ends_at, counted in terms since the first one began
  now,       \* the terms that have passed
  delivery, holder, lapsed, settler,  \* the delivery: FulfillmentLease
  pc, order, route, saw, base, todo, phase,  \* the processes' locals
  faults     \* the faults so far

orderVars    == <<status, overdue, onChain, events>>
profileVars  == <<tier, proEnds, now>>
deliveryVars == <<delivery, holder, lapsed, settler>>
locals       == <<pc, order, route, saw, base, todo, phase>>
vars == <<orderVars, profileVars, deliveryVars, locals, faults>>

NoOrder == "none"

\* A claim carries a time no other claim of the order has: here, the process
\* and a bit that tells two claims in a row by the same process apart.
Claims  == Procs \X {0, 1}
NoClaim == <<NoOrder, 0>>

Delivery == INSTANCE FulfillmentLease WITH phase <- delivery

RowsTyped ==
  /\ status   \in [Orders -> {"none", "pending", "expired", "paid"}]
  /\ overdue  \in [Orders -> BOOLEAN]
  /\ onChain  \in [Orders -> BOOLEAN]
  /\ events   \in [Orders -> Nat]
  /\ tier     \in [Owners -> {"trial", "pro"}]
  /\ proEnds  \in [Owners -> 0 .. MaxTerms]
  /\ now      \in [Owners -> 0 .. MaxTerms]
  /\ delivery \in [Orders -> {"none", "processing", "completed", "failed"}]
  /\ holder   \in [Orders -> Claims \cup {NoClaim}]
  /\ lapsed   \in [Orders -> BOOLEAN]
  /\ settler  \in [Orders -> Claims \cup {NoClaim}]

ProcsTyped ==
  /\ pc \in [Procs -> {"idle", "insert", "search", "revive", "claim", "lost",
                       "event", "profile", "extend", "deliver", "settle",
                       "downgrade", "pick", "sweep"}]
  /\ order \in [Procs -> Orders \cup {NoOrder}]
  /\ route \in [Procs -> {"none", "private", "public"}]
  /\ saw   \in [Procs -> {"none", "pending", "expired"}]
  /\ base \in [Procs -> 0 .. MaxTerms]
  /\ todo  \subseteq Orders
  /\ phase \in {"activate", "sweep"}
  /\ faults \in 0 .. MaxFaults

TypeOK == RowsTyped /\ ProcsTyped

Init ==
  /\ status   = [o \in Orders |-> "none"]
  /\ overdue  = [o \in Orders |-> FALSE]
  /\ onChain  = [o \in Orders |-> FALSE]
  /\ events   = [o \in Orders |-> 0]
  /\ tier     = [u \in Owners |-> "trial"]
  /\ proEnds  = [u \in Owners |-> 0]
  /\ now      = [u \in Owners |-> 0]
  /\ Delivery!Init
  /\ pc    = [p \in Procs |-> "idle"]
  /\ order = [p \in Procs |-> NoOrder]
  /\ route = [p \in Procs |-> "none"]
  /\ saw   = [p \in Procs |-> "none"]
  /\ base = [p \in Procs |-> 0]
  /\ todo  = {} /\ phase = "activate"
  /\ faults = 0
-----------------------------------------------------------------------------
Goto(p, place) ==
  /\ pc' = [pc EXCEPT ![p] = place]
  /\ UNCHANGED <<order, route, saw, base, todo, phase>>

\* The request is answered; the job goes to its next order.
Return(p) ==
  /\ pc'    = [pc EXCEPT ![p] = IF p = Job THEN "pick" ELSE "idle"]
  /\ order' = [order EXCEPT ![p] = NoOrder]
  /\ route' = [route EXCEPT ![p] = "none"]
  /\ saw'   = [saw EXCEPT ![p] = "none"]
  /\ base' = [base EXCEPT ![p] = 0]
  /\ UNCHANGED <<todo, phase>>

IsPro(u) == tier[u] = "pro"

HasEndedMutant(u) == proEnds[u] < now[u]   \* the end itself is not an end yet

HasEnded(u) == proEnds[u] <= now[u]

(***************************************************************************)
(* Checkout: createTonConnectOrder.                                        *)
(***************************************************************************)
\* An owner on trial without a live unpaid order gets a new one (a live one is
\* shown again).  Two calls at once may both find none.
CheckoutRead(p, o) ==
  /\ p \in Requests /\ pc[p] = "idle"
  /\ ~IsPro(OwnerOf[o])
  /\ \A q \in Orders : OwnerOf[q] = OwnerOf[o] =>
       ~(status[q] = "pending" /\ ~overdue[q])
  /\ status[o] = "none"
  /\ \A r \in Procs : order[r] # o   \* the insert makes the id
  /\ order' = [order EXCEPT ![p] = o]
  /\ pc' = [pc EXCEPT ![p] = "insert"]
  /\ UNCHANGED <<orderVars, profileVars, deliveryVars, route, saw, base,
                 todo, phase, faults>>

CheckoutInsert(p) ==
  /\ pc[p] = "insert"
  /\ status' = [status EXCEPT ![order[p]] = "pending"]
  /\ Return(p)
  /\ UNCHANGED <<overdue, onChain, events, profileVars, deliveryVars, faults>>

(***************************************************************************)
(* Verification.                                                           *)
(***************************************************************************)
\* verifyAndActivateTonConnectOrder: an expired order is refused at once.
VerifyPrivate(p, o) ==
  /\ p \in Requests /\ pc[p] = "idle"
  /\ status[o] = "pending" /\ ~overdue[o]
  /\ pc'    = [pc EXCEPT ![p] = "search"]
  /\ order' = [order EXCEPT ![p] = o]
  /\ route' = [route EXCEPT ![p] = "private"]
  /\ saw'   = [saw EXCEPT ![p] = "pending"]
  /\ UNCHANGED <<orderVars, profileVars, deliveryVars, base, todo, phase,
                 faults>>

\* POST /public/:id/verify-public: looks for the payment first.
VerifyPublic(p, o) ==
  /\ p \in Requests /\ pc[p] = "idle"
  /\ status[o] \in {"pending", "expired"}
  /\ pc'    = [pc EXCEPT ![p] = "search"]
  /\ order' = [order EXCEPT ![p] = o]
  /\ route' = [route EXCEPT ![p] = "public"]
  /\ saw'   = [saw EXCEPT ![p] = status[o]]
  /\ UNCHANGED <<orderVars, profileVars, deliveryVars, base, todo, phase,
                 faults>>

\* matchInvoice: the memo is the order's own.
Found(o) == onChain[o]

ExpirableMutant(o) == overdue[o]   \* whatever the status

\* markExpired and the clean-ups: CAS on 'pending'.
Expirable(o) == overdue[o] /\ status[o] = "pending"

\* A payment may be on chain and not be found: another sender wallet, more
\* than 30 transactions since, tonapi down.
SearchPayment(p) ==
  LET o == order[p] IN
  /\ pc[p] = "search"
  /\ \/ /\ Found(o)
        /\ Goto(p, IF saw[p] = "expired" THEN "revive" ELSE "claim")
        /\ UNCHANGED status
     \/ /\ status' = IF route[p] = "public" /\ saw[p] = "pending" /\ Expirable(o)
                     THEN [status EXCEPT ![o] = "expired"] ELSE status
        /\ Return(p)
  /\ UNCHANGED <<overdue, onChain, events, profileVars, deliveryVars, faults>>

RevivableMutant(o) == TRUE   \* the UPDATE names the order only

\* CAS on 'expired'.
Revivable(o) == status[o] = "expired"

\* A late payment: the order goes back to 'pending'.
ReviveOrder(p) ==
  /\ pc[p] = "revive"
  /\ status' = IF Revivable(order[p]) THEN [status EXCEPT ![order[p]] = "pending"]
               ELSE status
  /\ Goto(p, "claim")
  /\ UNCHANGED <<overdue, onChain, events, profileVars, deliveryVars, faults>>

ClaimableMutant(o) == status[o] # "expired"   \* paid twice

\* claimPaid: CAS on 'pending'.
Claimable(o) == status[o] = "pending"

ClaimPaid(p) ==
  LET o == order[p] IN
  /\ pc[p] = "claim"
  /\ \/ /\ Claimable(o)
        /\ status' = [status EXCEPT ![o] = "paid"]
        /\ Goto(p, "event")
     \/ /\ ~Claimable(o)
        /\ IF route[p] = "public" THEN Goto(p, "lost") ELSE Return(p)
        /\ UNCHANGED status
  /\ UNCHANGED <<overdue, onChain, events, profileVars, deliveryVars, faults>>

\* Another request was first: repeat what it may have left undone.
LostRace(p) ==
  /\ pc[p] = "lost"
  /\ IF status[order[p]] = "paid" /\ ~IsPro(OwnerOf[order[p]])
       THEN Goto(p, "profile") ELSE Return(p)
  /\ UNCHANGED <<orderVars, profileVars, deliveryVars, faults>>

RecordEvent(p) ==
  /\ pc[p] = "event"
  /\ events' = [events EXCEPT ![order[p]] = @ + 1]
  /\ Goto(p, "profile")
  /\ UNCHANGED <<status, overdue, onChain, profileVars, deliveryVars, faults>>

(***************************************************************************)
(* Activation: activateProForOrder reads the profile, then writes it.      *)
(***************************************************************************)
AfterActivation(p) == IF p = Job THEN Return(p) ELSE Goto(p, "deliver")

ReadProfile(p) ==
  LET u == OwnerOf[order[p]] IN
  /\ pc[p] = "profile"
  /\ \/ IsPro(u) /\ AfterActivation(p)
     \/ /\ ~IsPro(u)
        /\ base' = [base EXCEPT ![p] = proEnds[u]]   \* never behind now
        /\ pc' = [pc EXCEPT ![p] = "extend"]
        /\ UNCHANGED <<order, route, saw, todo, phase>>
  /\ UNCHANGED <<orderVars, profileVars, deliveryVars, faults>>

\* Bound: terms are counted up to MaxTerms.
OneMore(n) == IF n < MaxTerms THEN n + 1 ELSE MaxTerms

\* The new end is counted from the end that was read when it was still ahead,
\* and from now when it had passed.
ExtendPro(p) ==
  LET u == OwnerOf[order[p]] IN
  /\ pc[p] = "extend"
  /\ tier' = [tier EXCEPT ![u] = "pro"]
  /\ proEnds' = [proEnds EXCEPT ![u] = OneMore(base[p])]
  /\ AfterActivation(p)
  /\ UNCHANGED <<orderVars, now, deliveryVars, faults>>

(***************************************************************************)
(* Delivery: fulfillProOrderBundle, as FulfillmentLease has it.            *)
(***************************************************************************)
DeliverClaim(p) ==
  LET o == order[p] IN
  /\ pc[p] = "deliver"
  /\ \/ /\ \E c \in {p} \X {0, 1} : Delivery!Claim(o, c)
        /\ Goto(p, "settle")
     \/ /\ ~Delivery!Free(o)
        /\ Return(p)
        /\ UNCHANGED deliveryVars
  /\ UNCHANGED <<orderVars, profileVars, faults>>

\* The claim of p in the row is its last one: p does one thing at a time.
DeliverSettle(p) ==
  LET o == order[p] IN
  /\ pc[p] = "settle"
  /\ \/ /\ holder[o][1] = p
        /\ \E outcome \in {"completed", "failed"} : Delivery!Settle(o, outcome)
     \/ holder[o][1] # p /\ UNCHANGED deliveryVars
  /\ Return(p)
  /\ UNCHANGED <<orderVars, profileVars, faults>>

(***************************************************************************)
(* The recovery job: runOnce.                                              *)
(***************************************************************************)
NeedsActivationMutant(o) ==  \* only orders whose verification was recorded
  status[o] = "paid" /\ ~IsPro(OwnerOf[o]) /\ events[o] = 1

NeedsActivation(o) == status[o] = "paid" /\ ~IsPro(OwnerOf[o])

NeedsDelivery(o) ==
  /\ status[o] = "paid"
  /\ \/ delivery[o] \in {"none", "failed"}
     \/ delivery[o] = "processing" /\ lapsed[o]

\* Orders paid less than two minutes ago are left out: of those a request is
\* working on, any may be that young.
InGrace == SUBSET {o \in Orders :
  \E p \in Requests : order[p] = o /\ route[p] # "none"}

\* Nobody to activate: the run ends here, before the delivery sweep.
JobLoad ==
  /\ pc[Job] = "idle"
  /\ \E young \in InGrace :
       /\ todo' = {o \in Orders : NeedsActivation(o)} \ young
       /\ todo' # {}
  /\ phase' = "activate"
  /\ pc' = [pc EXCEPT ![Job] = "pick"]
  /\ UNCHANGED <<orderVars, profileVars, deliveryVars, order, route, saw,
                 base, faults>>

JobPick ==
  /\ pc[Job] = "pick"
  /\ \/ \E o \in todo :
          /\ todo'  = todo \ {o}
          /\ order' = [order EXCEPT ![Job] = o]
          /\ pc' = [pc EXCEPT ![Job] =
                      IF phase = "activate" THEN "profile" ELSE "deliver"]
     \/ /\ todo = {}
        /\ pc' = [pc EXCEPT ![Job] = IF phase = "activate" THEN "sweep" ELSE "idle"]
        /\ UNCHANGED <<todo, order>>
  /\ UNCHANGED <<orderVars, profileVars, deliveryVars, route, saw, base,
                 phase, faults>>

JobSweep ==
  /\ pc[Job] = "sweep"
  /\ \E young \in InGrace : todo' = {o \in Orders : NeedsDelivery(o)} \ young
  /\ phase' = "sweep"
  /\ pc' = [pc EXCEPT ![Job] = "pick"]
  /\ UNCHANGED <<orderVars, profileVars, deliveryVars, order, route, saw,
                 base, faults>>

(***************************************************************************)
(* The end of a term.                                                      *)
(***************************************************************************)
\* A term is a year: what was at work when it began is not any more.
TermEnds(u) ==
  /\ ~HasEnded(u)
  /\ \A p \in Procs : pc[p] = "idle"
  /\ now' = [now EXCEPT ![u] = @ + 1]
  /\ UNCHANGED <<orderVars, tier, proEnds, deliveryVars, locals, faults>>

\* downgradeExpiredPro: one UPDATE that compares the end.
Downgrade(u) ==
  /\ IsPro(u) /\ HasEnded(u)
  /\ tier' = [tier EXCEPT ![u] = "trial"]
  /\ UNCHANGED <<orderVars, proEnds, now, deliveryVars, locals, faults>>

\* downgradeExpiredProProfile: the end is compared in the process; the UPDATE
\* that follows compares the tier only.  (order[p] stands for its owner.)
AuthRead(p, o) ==
  /\ p \in Requests /\ pc[p] = "idle"
  /\ IsPro(OwnerOf[o]) /\ HasEnded(OwnerOf[o])
  /\ pc'    = [pc EXCEPT ![p] = "downgrade"]
  /\ order' = [order EXCEPT ![p] = o]
  /\ UNCHANGED <<orderVars, profileVars, deliveryVars, route, saw, base,
                 todo, phase, faults>>

AuthWrite(p) ==
  /\ pc[p] = "downgrade"
  /\ tier' = [tier EXCEPT ![OwnerOf[order[p]]] = "trial"]
  /\ Return(p)
  /\ UNCHANGED <<orderVars, proEnds, now, deliveryVars, faults>>

(***************************************************************************)
(* The buyer, the clock, the clean-ups, and failures.                      *)
(***************************************************************************)
\* The buyer pays, in time or not.
PayOrder(o) ==
  /\ status[o] # "none" /\ ~onChain[o]
  /\ onChain' = [onChain EXCEPT ![o] = TRUE]
  /\ UNCHANGED <<status, overdue, events, profileVars, deliveryVars, locals,
                 faults>>

DayPasses(o) ==
  /\ status[o] # "none" /\ ~overdue[o]
  /\ overdue' = [overdue EXCEPT ![o] = TRUE]
  /\ UNCHANGED <<status, onChain, events, profileVars, deliveryVars, locals,
                 faults>>

\* expireStaleOrders for the owners in U, markExpiredInvoices for all.
ExpireOrders(U) ==
  /\ status' = [o \in Orders |->
                  IF OwnerOf[o] \in U /\ Expirable(o) THEN "expired" ELSE status[o]]
  /\ status' # status
  /\ UNCHANGED <<overdue, onChain, events, profileVars, deliveryVars, locals,
                 faults>>

LapseClaim(o) ==
  /\ Delivery!Lapse(o)
  /\ UNCHANGED <<orderVars, profileVars, locals, faults>>

\* A database call fails.  The public route does not look at the error of the
\* revival, and goes on to the delivery when the activation failed; the job
\* goes to its next order, and ends its run when it cannot load one.
Fault(p) ==
  /\ faults < MaxFaults
  /\ faults' = faults + 1
  /\ pc[p] \notin {"idle", "pick"}
  /\ \/ pc[p] = "revive" /\ Goto(p, "claim")
     \/ pc[p] = "sweep" /\ Goto(p, "idle")
     \/ /\ pc[p] \in {"profile", "extend"} /\ route[p] = "public"
        /\ Goto(p, "deliver")
     \/ /\ pc[p] \notin {"revive", "sweep"}
        /\ ~(pc[p] \in {"profile", "extend"} /\ route[p] = "public")
        /\ Return(p)
  /\ UNCHANGED <<orderVars, profileVars, deliveryVars>>

\* The one process of the backend restarts.
Restart ==
  /\ faults < MaxFaults
  /\ faults' = faults + 1
  /\ pc'   = [p \in Procs |-> "idle"]
  /\ order' = [p \in Procs |-> NoOrder]
  /\ route' = [p \in Procs |-> "none"]
  /\ saw'   = [p \in Procs |-> "none"]
  /\ base' = [p \in Procs |-> 0]
  /\ todo' = {} /\ phase' = "activate"
  /\ UNCHANGED <<orderVars, profileVars, deliveryVars>>
-----------------------------------------------------------------------------
ProcStep(p) ==
  \/ CheckoutInsert(p) \/ SearchPayment(p) \/ ReviveOrder(p) \/ ClaimPaid(p)
  \/ LostRace(p) \/ RecordEvent(p) \/ ReadProfile(p) \/ ExtendPro(p)
  \/ DeliverClaim(p) \/ DeliverSettle(p) \/ AuthWrite(p)

JobStep == JobLoad \/ JobPick \/ JobSweep \/ ProcStep(Job)

Next ==
  \/ \E p \in Requests, o \in Orders :
       CheckoutRead(p, o) \/ VerifyPrivate(p, o) \/ VerifyPublic(p, o)
       \/ AuthRead(p, o)
  \/ \E p \in Requests : ProcStep(p)
  \/ JobStep
  \/ \E u \in Owners : TermEnds(u) \/ Downgrade(u)
  \/ \E o \in Orders : PayOrder(o) \/ DayPasses(o) \/ LapseClaim(o)
  \/ \E U \in {{u} : u \in Owners} \cup {Owners} : ExpireOrders(U)
  \/ \E p \in Procs : Fault(p)
  \/ Restart

\* The job runs every five minutes (setInterval), and each of its calls and of
\* a request's calls is answered.
Spec == Init /\ [][Next]_vars
        /\ WF_vars(JobStep) /\ \A p \in Requests : WF_vars(ProcStep(p))
-----------------------------------------------------------------------------
(***************************************************************************)
(* Properties.                                                             *)
(***************************************************************************)
\* A paid order was paid for with its own memo, its verification is recorded
\* once, and only a paid order is recorded or delivered, although two
\* verifications, a late payment and the clean-ups write the row (claimPaid).
PaidOnce == \A o \in Orders :
  /\ status[o] = "paid" => onChain[o]
  /\ events[o] <= 1
  /\ events[o] = 1 \/ delivery[o] # "none" => status[o] = "paid"

Row == INSTANCE OrderLifecycle WITH late <- overdue, received <- onChain, doomed <- {}

\* The order's row keeps the contract of OrderLifecycle, whichever of the two
\* routes, the revival and the clean-ups write it: it is booked, expired and
\* revived only from the status and the payment that were seen.
OrderKept == Row!Spec

\* An order that is paid stays paid: no clean-up and no revival reopens it.
PaidStays == [][\A o \in Orders : status[o] = "paid" => status'[o] = "paid"]_status

\* Whatever fails after the payment was recorded, its owner is Pro at last.
PaidGetsPro == \A o \in Orders :
  status[o] = "paid" ~> tier[OwnerOf[o]] = "pro"

\* "10 TON / 365 days of Pro" (2026-09-20-product-development-plan.md:32): an
\* owner is never granted more terms than paid for.
TermsArePaidFor == \A u \in Owners :
  proEnds[u] <= Cardinality({o \in Orders : OwnerOf[o] = u /\ status[o] = "paid"})

\* A delivery that failed is tried again by the recovery job, with another
\* bundle (backend/README.md:271).
FailedIsRetried == \A o \in Orders :
  delivery[o] = "failed" ~> delivery[o] # "failed"
-----------------------------------------------------------------------------
(***************************************************************************)
(* What the proofs strengthen PaidOnce with.                               *)
(***************************************************************************)
\* The places where a process works on an order, and those of them that it
\* reaches only once the order is paid.
AfterPayment == {"event", "profile", "extend", "deliver", "settle"}
AtWork == AfterPayment
          \cup {"insert", "search", "revive", "claim", "lost", "downgrade"}

LocalsOK == \A p \in Procs : pc[p] \in AtWork => order[p] \in Orders

\* What a process has seen of its order still holds when it acts on it: an id
\* it inserts is new, a payment it found is on chain, an order it serves is
\* paid, and the winner of the claim has yet to record it.
SeenHolds(p) ==
  /\ pc[p] = "insert" => status[order[p]] = "none"
  /\ pc[p] \in {"revive", "claim"} => onChain[order[p]]
  /\ pc[p] \in AfterPayment => status[order[p]] = "paid"
  /\ pc[p] = "event" => events[order[p]] = 0

\* No two processes insert one id, and no two win one claim.
Alone(p, q) ==
  (order[p] = order[q] /\ pc[p] \in {"insert", "event"} /\ pc[q] = pc[p]) => p = q

VerifyInv ==
  /\ \A p \in Procs : SeenHolds(p)
  /\ \A p, q \in Procs : Alone(p, q)
  /\ \A o \in todo : status[o] = "paid"
=============================================================================
