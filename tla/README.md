# Bullgram: models, checks and proofs

Bullgram sells access to Telegram channels, userbots, proxies and its own Pro plan for TON.
Its backend (`backend/`, Node.js over Supabase) is one process that runs HTTP routes and about
thirty interval jobs.  It has **no database transactions**: every handler is a sequence of
separate PostgREST calls, and all exclusion rests on conditional UPDATEs
(`.update(...).eq('status', 'queued')`), on unique indexes, and on fields of a row that work as
a lease.  Money moves through a TON wallet whose RPC may time out after it accepted a transfer.
What can go wrong is therefore almost always *between* two calls of one handler, and this
project models exactly that: **one action per database or network call**, any interleaving of
the callers, a failure or a restart at each of them.

The source paths below are relative to the repository.

## 1. Inventory

| Component | State | Operations | Hard part | Module |
|---|---|---|---|---|
| Referral payouts | `referral_profiles.balance_ton`, `referral_partner_payouts`, `referral_events`, reserve wallet seqno | reward, request, automatic send, manual mark with rollback, status route, confirmation from chain | claim against double send; read-modify-write of the balance; transfer sent but not recorded; rollback racing others | `BalanceLedger`, `ReferralPayout` |
| Pro bundle fulfilment | `billing_orders.payload.fulfillment_*`, `shop_items.status`, `shop_purchases`, owners of userbot and proxy | claim, choose a lot, sell it, transfer, finalise; unpublish, relist and sell in the Shop by others | lease of 10 minutes against a slow worker; partial transfers | `FulfillmentLease`, `ProFulfillment` |
| Pro billing | `billing_orders.status`, `billing_events`, `profiles.product_tier/pro_ends_at` | checkout, private and public verification, late payment, expiry, activation, downgrade, recovery job | two verifications at once; crash after 'paid'; a job that repeats activation | `OrderLifecycle`, `ProBilling` |
| Shop | `shop_items`, `shop_purchases`, `accounts`, `proxies` | reserve, refresh, cancel, check payment, transfer, expire, take down, delete | two buyers of one lot; a claim of a row that expires or is deleted; crash after payment | `OrderLifecycle`, `ShopPurchase`, `ProFulfillment` |
| Messaging router | `userbot_send_log`, `tg_accounts.dm_paused_until` | choose a userbot, count its quota, send, book, pause | the quota is counted and booked in two steps of several callers | `MessagingRouter` |
| Broadcasts | `broadcast_campaigns`, `broadcast_deliveries` | queue, insert in batches, claim, send, mark, reap, cancel, close | campaign claimed before all its rows exist; send before mark; a dead job's campaign resumed | `Mailing`, `Broadcast` |
| Subscriptions, auto-kick | `subscriptions.status/expires_at/kick_attempts`, membership of the channel | extend, join, kick, expire; the owner grants access, adds days to one or many, imports, kicks | extensions that race; renewal against a job working from an old list; an owner's writes with three different guards | `Subscriptions` |
| Invoices, tariffs, gift codes | `invoices.status`, `gift_access_codes.status` | verify, webhook, approve, reject, redeem, expire | one payment seen by four callers | partly, in `Subscriptions` |
| Referral programme | attribution, rewards, discount eligibility | apply reward, settle, retry | rewards against payouts | partly, in `ReferralPayout` |
| Reserve refunds | `referral_reserve_accounts.status`, `referral_reserve_ledger` | request, cancel, claim, send, close | the claim keeps the status it tests; two sums to agree | not modelled |
| Webhook queue | `official_bot_update_queue` | lock, handle, retry | overlapping ticks, unchecked lock | not modelled |
| Autoposting | `autopost_items.status/scheduled_at/updated_at`, `adminStates` (in memory) | insert, give slots, claim, publish, publish by hand, edit, move, approve, delete, take back | a lease shorter than a slow send; writes of administrators by id alone; an edit whose memory is gone | `Autopost` |
| Managed proxies | `proxies` | allocate, release, reconcile | claim of a slot | not modelled |
| Intake, sale scan, userbot runtime, reminder jobs, MCP and API adapters, front ends | — | — | sequential I/O with Telegram, formatting, or adapters | not modelled |

How they meet: a reward and a payout write one balance; a verification (or the recovery job)
activates Pro and calls the fulfilment; the fulfilment takes lots the Shop and the health job
also write, and shares `transferShopAssets` with the Shop; the broadcast job and the manual
messages send through the same userbots, whose quotas are the router's; four callers close one
invoice and extend one subscription, which the auto-kick job reads; payouts and refunds share the reserve
wallet and its seqno.  Everything is shared through rows; the only in-memory exclusion is the
`running` flag some jobs keep against their own next tick.

What makes each component correct, in one line each:

- *Referral payouts*: one request, at most one transfer; no reward lost; 'sent' means debited; the journal counts each payout once; a confirmation belongs to the right request; a payable request does not wait for ever.
- *Pro fulfilment*: a lot has one buyer; 'completed' means delivered; one claim delivers one bundle; the claim protocol keeps its contract.
- *Pro billing*: an order is paid once, for its own transfer, for good; a payer becomes Pro; a term is granted once per payment; a failed delivery is retried.
- *Shop*: nothing is handed over unpaid; a lot goes to one buyer; a paid purchase stays paid, and is handed over or kept for a refund.
- *Messaging router*: a userbot's window goes over its cap by less than the number of callers.
- *Broadcasts*: a recipient gets one message per campaign, one more per failure; a cancelled campaign stops; a campaign closes once, when its rows have an outcome, and does close.
- *Subscriptions*: an activation adds its period once; none disappears; one activation per payment; who is shut out has run out of time or was shut out by the owner; who has run out is removed, or the job gives up.
- *Reserve refunds*: one refund per reserve row.
- *Autoposting*: a post is published once; what the queue says of a post is true of the channel; no post stays in 'sending', or in an edit nobody has open.
- *Webhook queue*: an update is handled once.

The hazards, each at its line, are the list `hazards` of `PROJECT.json`; those without a
property are in "Not modelled" below.

## 2. Plan

The order was: money first, then what a customer gets for it, then what reaches people.

1. `ReferralPayout`, with its proofs.
2. `FulfillmentLease` (abstract) and `ProFulfillment` (detailed, refines it), with proofs.
3. `ProBilling`, composed with `FulfillmentLease` instead of the details of the delivery, with proofs.
4. `MessagingRouter`, and `Broadcast` which composes it with the campaigns, with proofs.
5. `ShopPurchase`, with proofs.
6. `Subscriptions`, with proofs.
7. `Autopost`, with proofs.
8. The contracts that the components keep, each an abstract specification with a refinement that is
   checked and proved: `OrderLifecycle` (kept by `ProBilling` and by `ShopPurchase`),
   `BalanceLedger` (by `ReferralPayout`), `Mailing` (by `Broadcast`).

What could follow:

- `ReserveRefund`: `referral-refund-sender.service.js:92-104` claims a row without changing the
  status it tests; it shares the wallet's seqno with `ReferralPayout`.
- `WebhookQueue`: one more lease; the contract `FulfillmentLease` restated for a row with a
  timeout, to see whether the queue, the autoposting and the fulfilment keep it.
- `LotSale`, an abstract sale of a lot that `ShopPurchase` and `ProFulfillment` are both seen
  through.  It would have to admit what `SoldToFew` and `SoldOnce` except, so it is stated as
  those two invariants for now.

## 3. The modules

Constants are the parameters of an instance; what a constant bounds is said where it is declared.
Definitions named `...Mutant` are faulty variants kept beside the code's own, to show that a
property can fail; no specification uses them.

### The contracts

Four small specifications say what a component promises to the rest of the system.  They describe no
handler; the code is mapped in the modules that implement them, and each is a property of a run
(section 4) and a theorem (section 6).

| Contract | Promises | Kept by | Under the mapping |
|---|---|---|---|
| `FulfillmentLease` | a delivery is claimed when free, settled once and by its claim | `ProFulfillment`; used by `ProBilling` | `phase <- status, holder <- token` |
| `OrderLifecycle` | a row paid for in TON is booked only for money that came, expires only when late and unpaid, is deleted only if seen unpaid | `ProBilling` | `late <- overdue, received <- onChain, doomed <- {}`: billing orders are not deleted |
| | | `ShopPurchase` | `late <- old`; `received` when the purchase has a payment, even one with an old memo; `doomed <- UNION` of the ids the requests have read for deletion |
| `BalanceLedger` | a reward adds, a payout takes what is covered, no more is given back than was taken, each in one indivisible step | `ReferralPayout` | same names; `paidOut` is a history |
| `Mailing` | rows come in batches, are decided once and only while the campaign is at work; a closed campaign stays | `Broadcast` | `status`, `row`, same names |

What a contract buys is that a property of all its implementations is argued once, on a page: that
a booked order was paid for is proved of `OrderLifecycle`, and follows for billing and for the Shop.
In `OrderLifecycle`, `Expire` and `Delete` close a *set* of rows because one UPDATE or DELETE does;
`doomed` is there because the code deletes by ids it read earlier.  In `BalanceLedger` the point is
atomicity: the handlers write values computed from an earlier read.

### ReferralPayout

*Actors.* `Partners` earn (`ApplyReward`, the SQL function adds in place) and ask for a payout
(`AskForPayout` reads the balance, `InsertRequest` inserts under the unique index on active
requests).  `Senders` are concurrent calls of `sendReferralPayoutRequest`, from the batch job and
from the administrator's button; `Markers` are calls of `markReferralPayout`.  `SetStatus` is
`updateReferralPayoutRequestStatus`.  `ChainExecute` is the wallet contract: it executes a message
whose seqno is its own and no other.  `ConfirmPayout` is the confirmation job.

*Correspondence.* `sPc` is the next call of a sender: `profile` → `claim` → `seqno` → `broadcast`
→ `debit` → `close` → `journal`.  `sBal` is the balance it read and computes the debit from;
`sSeq` the seqno it signed with.  `mPc` is the same for the marker, including the three undo
steps.  `SendBroadcast` always puts the message in the mempool and then either continues or
throws: that is the timeout after acceptance.  `SendAbort`/`MarkAbort` are a thrown error or the
death of the process at any step: what was written stays.

*History variables* `paidOut`, `debits`, `claimed`, `reopened`, `undone` are read by properties
only.

*Assumed or left out.* The wallet's balance and its limits; the fee row of the reserve ledger;
the `chain_tx_hash` an administrator may type in; the text of memos (a transfer carries the
request it is for); `ConfirmPayout` is one step although it reads the chain first, because the
chain only grows and the row it writes is final; a call that reports an error is not applied,
except the broadcast.

### FulfillmentLease and ProFulfillment

`FulfillmentLease` is the contract of a delivery: a paid order is claimed when it is free (never delivered,
failed, or claimed and lapsed), the claim in the row settles it once, a completed order is never
claimed again.  `ProFulfillment` is `fulfillProOrderBundle` and `transferShopAssets` call by call;
its workers are the requests and the recovery job that call it.  The claim's timestamp
(`fulfillment_claimed_at`) is `token`, and a worker knows its own claim by it (`own`).  The stages
`read`, `claim`, `load`, `next`, `take`, `record`, `proxy`/`readBot`/`moveBot` in the order of the
lot's assets, `markSold`, `close`, `complete`, and the catch `failDeal`, `fail`, are the calls of
the code in order.  Around them: `Lapse` (ten minutes), `Crash` (the one process dies with all its
workers), `Unpublish` and `Relist` (seller, health check).

A published bundle lot is on sale in the Shop too.  `ShopBooks` → `ShopProxy` → `ShopReadBot` →
`ShopMoveBot` → `ShopMarkSold` is the check of a Shop purchase past its claim, for a buyer who paid for one of
the `Wanted` lots: it runs the same `transferShopAssets`, does not claim the lot, and moves the
userbot by its id, also when the delivery has moved it already (`BotTo`), while the UPDATE of the proxy
names the seller (`ProxyTo`).  What `ShopPurchase` models in detail before that point is one step here.

The refinement is `LeaseKept == Lease!Spec` with `phase <- status, holder <- token`.

*Assumed or left out.* Timestamps of claims grow and are distinct (the code uses the clock in
milliseconds); the published lots fit in the 25 candidates the code reads; an account is fit or not by a
free choice; an order stands for its buyer; a Shop buyer pays for one lot, once; a reply that is lost after its write was applied.

### ProBilling

Requests and the recovery job are processes with a place `pc`.  `CheckoutRead`/`CheckoutInsert`,
`VerifyPrivate` and `VerifyPublic` → `SearchPayment` → (`ReviveOrder`) → `ClaimPaid` →
(`LostRace`) → `RecordEvent` → `ReadProfile` → `ExtendPro` → `DeliverClaim` → `DeliverSettle` are
the calls of both verification routes; the last two are steps of `FulfillmentLease`, conjoined, so
billing is checked against the *contract* of the delivery and `ProFulfillment` shows that the code
keeps it.  `JobLoad`, `JobPick`, `JobSweep` are `runOnce` of the recovery job, including its
early return.  `Downgrade`, `AuthRead`/`AuthWrite` are the two downgrades, `ExpireOrders` the
clean-ups, `DayPasses` and `TermEnds` the clock, `PayOrder` the buyer.  `SearchPayment` may fail
to find a payment that is there (another sender wallet, more than thirty transactions since,
tonapi down).  `Fault` is a failed call with what each caller does about it; `Restart` resets all
processes.

A term is counted, not dated: `proEnds` and `now` are numbers of terms.  `TermEnds` waits until no
process is at work (a term is a year, a request seconds).  The job's two-minute grace is a free
choice of the orders requests are working on.

*Left out.* Screens and texts; the limit of 50 orders per run of the job (section 7); the
job's `activation_recovered` event.

### MessagingRouter and Broadcast

`MessagingRouter` is `deliver()` for any number of concurrent callers: a call holds its pool
(`left`), its own copy of the accounts (`seen`) and the userbot of its current attempt (`actor`).
`Choose` reads the count of the ledger, `SendSucceeds`/`SendFails`/`SendReplyLost` are Telegram,
`RecordSent`/`RecordRefused` the journal, `PauseActor` the pause in the row and in the copy,
`Throws` a failed write that leaves `deliver()`.  `WindowMoves` and `PauseEnds` are time: a flood
pause has a deadline.  `health` is what `isActorEligible` finds besides (runtime status, proxy, sale): it has
no deadline, and `HealthChanges` may bring an account back, or never does.

`Broadcast` EXTENDS it: the job is one caller, the route of manual messages the others.  It adds
the campaign's and the deliveries' status (`status`, `row`), where each `/send` stands (`post`) and
the job's place (`jobAt`): `JobPick` → `JobClaim` → `JobLoad` → per row `JobCheck` → `JobBot` →
`JobFallback` → `JobRouter` (steps of the router) → `JobRouterReturns` → `JobMark`, then `JobDecide`
→ `JobClose`.  The job falls back to other accounts, waits or gives up by
`hasDeliverableActor` and `isPoolQuotaPaused`, which see a blocked account differently
(`Deliverable`, `PoolQuotaPaused`).  `PostGuard`, `PostInsert`, `PostBatch`, `PostBatchFails` are the route, which runs
beside the job; `Cancel` the owner; `HeartbeatAges` ten minutes without a heartbeat, after which
`JobPick` takes the campaign again (the reaper).  `fresh` is that bit of `delivery_heartbeat_at`.

*History variables* `got` and `late`: messages a recipient received, and messages of a campaign
that went out while it was cancelled.

*Assumed or left out.* The hourly and the daily cap are one window with one `Cap`; a pool is walked
in any order (the code's order is a preference); texts, attachments, segments and how recipients
are chosen; all campaigns are one owner's (the guard of `/send` is per owner).

### ShopPurchase

A request has one place per database call.  `CreateRead` → `CreateOwn` → `CreateRefresh` or
`CreateInsert` is `createOrRefreshBuyerPurchase`; `Cancel`, `CancelBatchRead`/`DeleteRows`,
`DeleteLotRead`/`DeleteRows`/`DeleteLot` are the three ways a row disappears; `CheckRead` →
`CheckItem` → (`CheckRevive`) → `CheckClaim` → `CheckRoute` is `runShopPurchaseCheck` up to the
claim, and then either `LotSold` → `DeliverFiles` (an archive) or `PickAccount` → `GiveAsset` →
`LotSold` → `Finish` (a transfer).  `CheckRefund` is the record kept for a lot that is gone.
Around them: `Pay` and `Ages`, `ExpiryJob`, the seller's `Unpublish`, the sale check's
`Quarantine`, the health job's `Restore`, `Restart`.

Purchases are numbered by lot and buyer in the order of their inserts, so that a new row of the
same buyer is another number.  `payment` says whether the transfer on chain carries the row's
memo, or one the refresh has replaced ('orphaned').  `given` is a history: all who ever took the lot.

`CreateRefresh` writes back, by the id alone, the payload that was read with the reservation: over a purchase
paid and delivered meanwhile it wipes the record of the delivery.  `PayloadBack` is the same on the
check's side, which writes the payload *it* read.  Two more histories: `cut`, the purchases whose
hand-over was interrupted (a failed last write, a restart, such a refresh), and `contested`, the lots whose account
one check found to be the seller's while another was about to give it away.

*Assumed or left out.* A lot has one asset (several assets of one lot are in `ProFulfillment`); search,
search ranking, prices and pages; the Pro bundle's own use of `transferShopAssets`, which is in
`ProFulfillment`; reading a row and searching its transfer are one step.

### Subscriptions

One subscriber, one channel, one row (`row`, `expires`, `attempts`), and time in periods: a timed
tariff adds one, the others are for ever (`expires_at` NULL).  Workers are the handlers that
activate: `Claim` (verify endpoint, poller, bot: CAS on 'pending'), `Webhook` (CAS on "not paid"),
`ApproveRead`/`Approve` and `Reject` (an admin), `Redeem`/`CloseCode`/`UndoCode` (a gift code).  They
run `upsertSubscriptionForChannel`: `ReadRow` → `InsertRow`, or `WriteRow` under the guard that
`expires_at` still is what was read → `RereadRow` → up to two more attempts → `ForceRow` without a
guard.

The owner of the channel writes the same row in five ways, with three kinds of guard: `Grant` (access by hand)
goes through the upsert above; `AddDays` reads and then writes by the id, and `Import` sets the row from today,
whatever it is (both `ForceRow`); `BatchDays` → `BatchWrite` → `Recheck` is the bulk version, under
the guard, which gives up after three conflicts; `OwnerKicks` → `MarkKicked` bans and unbans the member and,
from the list of customers, closes the row by its id.  What the owner gives is a period on top
(`ByHand`), a period from today (`Afresh`), or access without an end (`Lifelong`).

`TickRead` → `Kick` → `TickExpires` or `TickCounts` is the auto-kick job; `JoinRequest`/`JoinApproved` the
bot at the channel's door.

*History variables*: `started`/`again` (activations, and openings, of a voucher), `granted` (of
all), `manual` (the owner's decisions), `extended` (periods added to the row), `slipped` (an extension was lost),
`raced` (an extension was written while the job was at it), `cut` (the owner, or such a run of the
job, closed the row).

*Assumed or left out.* Bundles of several channels and invitation links; notifications before the
end; the choice between the official bot and a userbot for the kick, and how it can fail; the upload of
a receipt (`message.handler.js:117-187`), which writes 'wait_admin' by id over 'awaiting_receipt', a
status that no code sets.  `Forever` counts as no date in `Extended`, as NULL does in the code.

### Autopost

The rows are `status`, `slot` (`scheduled_at` as "none", "later" or "due"), `channel`, `old`
(`updated_at` before ten minutes ago).  The scheduler's tick is `TickReads` → per post `Claim` →
`Send`/`SendFloods` → `Mark`, `Fail`, `Flood` or `MarkFails`; the sweep's is `SweepReads` →
`SweepBatch` → `ResetEditing` → collapse, then `SweepSending` → `ResetSending` → collapse.  The
collapse (`CollapseReset` → `SlotWrites` per post) is `collapseQueue`, and administrators' calls end
in it too (`AnswerThenCollapse`: a
handler answers the click first, and an answer that throws ends it).  Their calls are inserts (`InsertQueued`, `Suggest`, `InsertTimed` → `SlotTime`,
`InsertNow`), `PostNow` → `PublishNext` → `HandSend` → `HandMark`/`HandFail`, `Approve`, `Move`,
`DeleteQueued`, `Remove`, and the edit of a caption: `EditClick` → `Restore` of the edit before →
`EditRead` → `EditMark`, then `EditText` → `Restore`, or `DialogReplaces`.  `post_now` answers and collapses *inside* the
try of the publication (`AfterMark`, `CollapseThrows`): what throws there goes to `HandFail`, which writes
'failed' by the id over 'posted'.

`edit[s]` is the `adminStates` of one `AutopostService`, which a restart empties (`Crash`).  There are two:
`Server`, which `server.js:291` gives to the sweep, and `Panel`, that of `autopost.routes.js` or of a tool.
A bot stopped and started by another one answers with another memory (`EditClick(a, i, s)`), and the sweep
sees only the edits of the first (`Held(Server, i)`).

`SetRows` is an UPDATE; `Overwrite` one that names the row only, without the status it was read
with.  The history `sent` counts publications of a post, and becomes `Unsure` where the code
itself gives up knowing: an unguarded write (the catch of `post_now` among them) took the row back
from 'sending' or 'posted', two callers had the post in hand, a reply was lost, or the record of a publication could not be written.

*Assumed or left out.* Checklists, best-of posts, reactions and the bots' own lifecycle; the
order and arithmetic of slots; the limit of five posts per tick; the errors of other writes, which are
ignored or logged; the two passes of a collapse are one.

## 4. The runs

| Run | Shows | Bounds and why they suffice |
|---|---|---|
| `payout_one` | `AtMostOneTransfer`, `SentIsDebited`, `JournaledOnce`, `SettledStays`, and that the payouts keep the ledger (`LedgerKept`) | one partner, one request, two senders, one marker: every race of the code is of two callers on one row; two rewards, so that a balance moves under a debit; two transfers, so that a second one can happen |
| `payout_two` | `ConfirmedIsPaid`; `RequestIsTaken`, under `FairSpec` | two partners with a request each, one sender, one execution: two requests can be signed with the one seqno, and one can hold up the other |
| `payout_second` | *violated*: `NoSecondTransfer` | as `payout_one` |
| `fulfil_safe` | `SoldOnce`, `CompletedIsDelivered`, `OneBundlePerClaim`, `LeaseKept` | two orders, two lots, two workers, two claims in all: a takeover needs two claims, a contested lot two orders; one lot may leave the showcase and return, and one Shop buyer may pay for it; two calls (workers or checks) under way at once |
| `fulfil_second` | *violated*: `NoSecondBundle` | one order, two lots, two workers |
| `billing_pay` | `PaidOnce`, `PaidGetsPro`, and that the order keeps its contract (`OrderKept`) | one order, two requests and the job, one fault or restart: the claim is contested by two requests, recovery needs one failure |
| `billing_terms` | *violated*: `TermsArePaidFor` | one order, two terms |
| `billing_retry` | *violated*: `FailedIsRetried`, under the fairness of the job | one order, no fault at all |
| `broadcast` | `QuotaOvershootBounded`, `OneMessageEach`, `CancelStops`, `ClosedIsDecided`, `QueuedEnds`, and that the mailing keeps its contract (`MailingKept`) | one campaign of two rows in two batches, so that the job can claim it between them; one userbot with a cap of 1, wanted by the job and one manual message: the cap is contested; two faults, so that a lost reply can meet a restart; an account that falls ill is a fault, that it recovers is not promised |
| `shop` | `HandedIsPaid`, `SoldToFew`, `PaidIsSettled`, and that a purchase keeps the contract of billing's orders (`OrderKept`) | one lot, a proxy, an archive or an account with files (both kinds of transfer); three rows, so that one buyer may reserve and pay again after a first reservation ended, beside a guest; two of the rows are paid for (a lot can then be handed over twice); two requests, as every race is of two; one fault |
| `subscriptions` | `NeverDoubled`, `NothingLost`, `ActivatedOnce`, `ShutOutIsOver`, `OverdueEnds` | a timed invoice, one for ever and a timed gift code, two workers that extend at once, one run of the job, two periods; one attempt of a kick (five in the code: only "the last one" matters); one decision of the owner, of any kind, and one fault |
| `autopost` | `PublishedOnce`, `QueueAgrees`, `SendingEnds`, `AbandonedEditEnds` | one post, two channels to move it between, two administrators with one call each besides inserts and edits, the scheduler and the sweep, the two services of which only one is the sweep's; one fault; two publications, so that a second can happen |

`payout_one`, `billing_pay`, `shop`, `subscriptions` and `autopost` also check `TypeOK`, and none of their
other properties is implied by it; of `ProFulfillment` and `Broadcast` type correctness is proved
(section 6), and a run would add nothing.  Symmetry is used for senders,
workers, orders and requests in runs without liveness.  The largest instances are `shop` and
`fulfil_safe` (3.4 million distinct states each), `subscriptions` (@SUBS@ million), `autopost` and `broadcast` (0.7 million each).

`CHECK_DEADLOCK FALSE` in all of them: the systems really stop when every request is settled, and
the bounds (`MaxEarned`, `MaxTransfers`, `Tokens`, `MaxTerms`, `MaxFaults`, `MaxTime`, `MaxActs`, the
number of rows) end the rest.

With one post, `autopost` does not exercise a batch of several rows, nor the restore of *another*
post's edit; the proofs of section 6 cover both for the safety properties.

*Fairness.* `payout_two`: a running call always ends: the TON client has a timeout
(`ton-reserve-sender.service.js:105`) and Node's `fetch`, which carries the database calls, gives
up on a silent server (weak fairness of a sender's continuation, whose abort is included); the batch returns
every minute and takes the five oldest requests, so `SendStart`, `SendReadProfile` and `SendClaim` are
strongly fair for each request: a call that aborts before the claim is repeated.  Nothing is assumed of
partners, administrators or the chain.  `ProBilling`: weak fairness of the job's step (`setInterval`, five
minutes, every call answered or failed) and of the steps of a request that has begun.  Nothing is
assumed of the buyer, of new requests, or of the clean-ups.  `Broadcast`: weak fairness of the
job's step, of time (`TimePasses`: windows move and pauses end) and of a heartbeat growing old;
strong fairness of `JobPick`, because the job ticks again and again while a campaign is there to
be picked, and a restart may come between.  Nothing of the routes or the owner, and nothing of the health
of an account: a blocked one may stay so.
`Subscriptions`: weak fairness of the steps of the auto-kick job.  `Autopost`: weak fairness of
the sweep's steps (`setInterval`, one minute) and of a row's age; nothing of the scheduler or the
administrators.  `ShopPurchase` has no liveness: the code leaves a paid purchase behind after a
restart (section 5).

*Conditions in the properties.*  Without these exceptions the properties are false of the code.

- `AtMostOneTransfer` excepts requests in `reopened`: an administrator, or an undone booking, made a
  claimed request sendable again, and the code does send again (that is the finding below).
  `SentIsDebited` excepts requests a marker closed and then began to undo.
- `SoldOnce` speaks of the Pro orders and excepts lots that were put back on the showcase.
  `CompletedIsDelivered` excepts them too, and says that the two assets are the order's or a Shop
  buyer's who paid for the *same* lot; that such a buyer takes the userbot from the order is what the code does
  (section 5).  `OneBundlePerClaim` excepts orders that were claimed a second time.
- `CancelStops` and `OneMessageEach` allow one message more per fault (a reply lost after the message went
  out, a restart between send and mark); `ClosedIsDecided` speaks of the first batch of rows;
  `QueuedEnds` of campaigns whose rows are all there, but for one by the bot with userbots to fall back on
  whose userbots stay blocked for ever (`WaitsForUserbots`), which waits with them.
- `SoldToFew` says that a lot is given to one buyer, a proxy always, an account unless two checks were at it at
  once: one found it to be the seller's after the other had found the same and before that one wrote the new
  owner (`contested`).  `OrderLifecycle` lets a paid row be deleted if it was `doomed`, picked by a batch
  deletion when it was unpaid; `PaidIsSettled` excepts the purchases whose hand-over was `cut` short by a failed
  write, a restart, or a refresh that had read them as a reservation.
- `Mailing` closes a campaign when its *first* batch is decided and lets later rows come in then;
  and it lets a message under way be decided after the owner's cancellation.
- `NothingLost` excepts an extension whose write gave up its guard or whose insert was refused
  (`slipped`); `ActivatedOnce` counts the times a gift code was reopened; `ShutOutIsOver` excepts
  what the owner closes or kicks, and the run of the job that a renewal overtook (`raced`); a renewal must then
  have opened the row again.
- The properties of `Autopost` say nothing of posts that are `Unsure`, those included that the catch of `post_now`
  wrote off after they were published; `AbandonedEditEnds` nothing of an edit that an administrator
  still has open in the server's service, which has no time limit.

## 5. What was found

- **A second transfer of one payout** (`payout_second`).  The comment at
  `referral-payout-sender.service.js:184` promises that a second `sendTonFromReserve` does not
  start; moving 'sending' back to 'queued' while the first sender is between claim and transfer,
  or undoing a manual booking, lets it start.
- **A second bundle** (`fulfil_second`).  The design notes promise that a slow worker does not
  hand out a second bundle; the check of the claim precedes the sale, the transfer and their
  writes, none of which name the claim.
- **A Pro term renews itself** (`billing_terms`).  `loadOrdersNeedingActivation` takes an order
  whose term has *ended* for one whose activation was lost.
- **A failed delivery is not retried** (`billing_retry`).  `runOnce` returns before the delivery
  sweep when no order waits for activation.

Read in the code while modelling, and left as the models have it (the properties' conditions name
them; no run is devoted to them):

- *Broadcasts.*  A campaign of several batches that the job claims after the first is closed once
  those rows are done, and the later rows stay 'pending' for ever, although
  `broadcast-delivery.service.js:98-101` waits for rows still to be inserted: it only waits for the
  first.  If `/send` dies, or its first insert fails, after the job's claim, the campaign stays
  'sending' with no rows and blocks the owner's next one.  An exception of the send journal after
  the message went out marks the row 'failed'.  A campaign `official_then_userbot` whose chosen userbots stay
  restricted (`broadcast-delivery.service.js:183-196`, `289`) is neither sent nor given up: it stays
  'sending', and the owner's next `/send` is refused until it is cancelled.  Two `/send` at once both pass the guard.
- *Pro delivery.*  A buyer who paid in the Shop for the bundle lot of an order takes the userbot although the
  order has it already (`purchase-check.js:103-156`, `shop-transfer.service.js:59-62`: the account is moved by
  its id), and the order stays 'completed'.
- *Shop.*  The batch cancellation and the deletion of a lot delete rows by their ids, paid
  meanwhile or not.  'Unpublish' writes 'draft' over 'sold', and the health job may then put the lot
  back on sale.  A restart between claim and transfer leaves a paid purchase that no check picks up again.  A proxy whose
  UPDATE matches no row still ends as 'completed'.  A refresh that overlaps the check of an archive
  (`purchase-core.js:195-214`) writes the payload it read over the record of the delivery: the purchase stays
  paid with neither an archive nor a refund.  Two checks that read one account as the seller's both
  hand it over.  A late payment for a lot sold meanwhile leaves no record for a
  refund, unlike one in time.  A refresh writes a new memo although the old one may be in flight.
- *Subscriptions.*  `activateSubscription` swallows its errors, so the webhook's own catch
  (`payment.routes.js:217-237`) never runs.  The failure of the insert is not looked at.  A
  subscription for ever that a timed tariff extends gets an end.  A code reopened after a partial
  failure extends twice.  `kick_attempts` is not reset by a renewal, so that a member who has been
  given up once is never removed again.  The job writes 'expired' over a renewal made while it was kicking.
  The owner's batch kick (`crm.js:230-330`) closes the row by its id from the list of customers and leaves it open
  from the access screen, where the member may join again; the import sets a row from today, also a longer one;
  the bulk days are dropped after three conflicts, unlike those of one subscriber.
- *Autoposting.*  A post whose edit is forgotten is not returned after ten minutes, as
  `autopost-stuck-editing.job.js:2-5` and the "short TTL" of `autopost.service.js:48-51` say:
  the sweep passes over batches in `adminStates`, and the caption's entry there has no limit, so it
  is held until a restart or another dialog.  `publish.js:133-136` says that a second send is excluded when the
  recovery took the item; the item it took is queued and published again.  The collapse's slots,
  the restore, the move, the approval and the failure of a post by hand write by id, and take rows back
  from 'sending' or 'posted'.  `post_now` does not claim, and what throws in its answer
  or its collapse after the publication writes 'failed' over 'posted' (`queue-callbacks.js:52-63`, likewise
  `suggestion-callbacks.js:56-69`), so that `post_now` publishes the post again.  "Skips if any admin is
  editing" (`autopost-stuck-editing.job.js:47-48`) is true of the bots that the server started, not of those started
  by the panel or a tool, whose edits are in another `AutopostService`.  The scheduler publishes the caption and the
  channel it read before its claim.  A crash of `create_post` between the insert and the time leaves a
  scheduled row without one, which nothing picks up until the next collapse.

## 6. Proofs

For all values of the constants, under the named assumptions `PayoutConstants`,
`NothingIsNoName`, `FulfillmentConstants`, `BillingConstants`, `RouterConstants`,
`BroadcastConstants`, `ShopConstants`, `SubscriptionConstants`, `AutopostConstants` (types, and that
the names used for "nobody" are nobody's; TLC evaluates them on every run), and `FiniteCalls`
(finitely many senders and markers; only `SentWasDebited` uses it, to count).

| Module | Theorem | States |
|---|---|---|
| `ReferralPayout_proofs` | `TypeCorrect` | `Spec => []TypeOK` |
| | `TransferOnce` | `Spec => []AtMostOneTransfer` |
| | `LedgerImplemented` | `Spec => LedgerKept`, a refinement |
| | `RewardsKept` | `Spec => []NoLostReward`, balance + paid out = earned |
| | `PaidFromEarnings` | `Spec => []NeverOverpaid`, 0 <= paid out <= earned |
| | `JournalOnce` | `Spec => []JournaledOnce` |
| | `ConfirmedPaid` | `Spec => []ConfirmedIsPaid` |
| | `SettledForGood` | `Spec => SettledStays` |
| | `SentWasDebited` | `Spec => []SentIsDebited` |
| `ProFulfillment_proofs` | `TypeCorrect` | `Spec => []TypeOK` |
| | `LeaseImplemented` | `Spec => LeaseKept`, a refinement |
| | `DeliveredForGood` | `Spec => Lease!DeliveredIsKept` |
| | `HolderDecides` | `Spec => []Lease!HolderSettled` |
| | `LotSoldOnce` | `Spec => []SoldOnce` |
| | `OneBundle` | `Spec => []OneBundlePerClaim` |
| | `CompletedDelivered` | `Spec => []CompletedIsDelivered` |
| `ProBilling_proofs` | `TypeCorrect` | `Spec => []TypeOK` |
| | `OrderPaidOnce` | `Spec => []PaidOnce` |
| | `OrderImplemented` | `Spec => OrderKept`, a refinement |
| | `PaidForGood` | `Spec => PaidStays` |
| | `DeliveryImplemented` | `Spec => Delivery!Spec`, a refinement |
| | `DeliveredForGood` | `Spec => Delivery!DeliveredIsKept` |
| | `ProSoldForMoney` | `Spec => []ProWasPaidFor` |
| `Broadcast_proofs` | `TypeCorrect` | `Spec => []TypeOK` |
| | `QuotaBounded` | `Spec => []QuotaOvershootBounded` |
| | `MailingImplemented` | `Spec => MailingKept`, a refinement |
| | `DecidedForGood` | `Spec => Mail!DecidedIsKept` |
| | `ClosedRowsForGood` | `Spec => Mail!ClosedRowsAreKept` |
| | `ClosedForGood` | `Spec => ClosedStays` |
| | `CancelHolds` | `Spec => []CancelStops` |
| | `OneMessage` | `Spec => []OneMessageEach` |
| | `ClosedWhenDecided` | `Spec => []ClosedIsDecided` |
| `OrderLifecycle_proofs` | `BookedWasReceived` | `Spec => []PaidWasReceived` |
| | `BookedIsKept` | `Spec => PaidIsKept` |
| | `DeletedIsGone` | `Spec => DeletedIsKept` |
| `ShopPurchase_proofs` | `TypeCorrect` | `Spec => []TypeOK` |
| | `HandedOnlyWhenPaid` | `Spec => []HandedIsPaid` |
| | `OrderImplemented` | `Spec => OrderKept`, a refinement |
| | `PurchasePaidFor` | `Spec => []BookedForMoney` |
| | `DeletedForGood` | `Spec => DeletedStays` |
| | `PaidRemains` | `Spec => PaidStays` |
| | `PaidGetsSettled` | `Spec => []PaidIsSettled` |
| | `SoldToOneOrFew` | `Spec => []SoldToFew` |
| `Subscriptions_proofs` | `TypeCorrect` | `Spec => []TypeOK` |
| | `ActivatedOncePerOpening` | `Spec => []ActivatedOnce` |
| | `NothingIsLost` | `Spec => []NothingLost` |
| | `ShutOutWhenOver` | `Spec => ShutOutIsOver` |
| | `NeverDoubles` | `Spec => []NeverDoubled` |
| | `AccessBought` | `Spec => []AccessWasBought` |
| `Autopost_proofs` | `TypeCorrect` | `Spec => []TypeOK` |
| | `OnceOnly` | `Spec => []PublishedOnce` |
| | `QueueIsTrue` | `Spec => []QueueAgrees` |

*TypedInv* (in each of them) is `TypeOK` with what the steps rely on: a busy process works on an
order, request, row or lot that exists; for payouts also that the amount is covered by the
balance the caller read, which keeps the balance a natural number; for subscriptions that a run of
the job has read fewer attempts than the limit.

*TransferOnce.*  "At most one transfer" says nothing of the senders, so it is not inductive.
`SingleClaim` follows the right to send from hand to hand: a request that was not reopened and is
sendable was never claimed; a claimed one has at most one of a holder (a sender between claim and
broadcast), a message, and an executed transfer; and one of the kind.  Only the claim creates a
holder, and the claim requires a sendable status, so there was none before.

*LedgerImplemented, RewardsKept, PaidFromEarnings.*  A debit writes `sBal - amount` where the
balance still is `sBal`: every absolute write is conditional on the value it was computed from, so it
is a move of `BalanceLedger` made in place (`MoneyMoves`).  A marker's rollback is conditional on the
balance and not on its own debit, and the balance may have come back to the remembered value by other
payouts; that it gives back no more than is out needs `LedgerInv`: the debits are never negative, and what
a marker remembers is no more than the partner had earned.  The contract alone then keeps the sum
(`ContractKeeps`).

*JournalOnce, ConfirmedPaid, SettledForGood.*  `OneCloser`: of all calls of senders and markers, a
request has at most one at a time that closed its row and has yet to journal or undo it
(`CloserInv`), and the row is as that call left it (`RowInv`).

*SentWasDebited.*  `EachDebited`: the senders that have debited for a request and not closed it
(`SenderOwes`), the markers that have and not returned (`MarkerOwes`), and the request itself once
it is settled, have a net debit each (`DebitInv`).

*LeaseImplemented.*  A step that claims, settles or lapses must be one of the contract.  The detail
needs `LeaseInv`: a worker's token is not newer than the row's (`OwnIsOld`), so a new timestamp
makes every other worker a stranger; what was read as lapsed still is, if the pair read is still in
the row (`ReadAsLapsed`); a worker whose token is in the row holds a claim in 'processing'
(`HeldIsLive`); two workers on one order hold different claims (`HeldApart`).

*LotSoldOnce.*  `SaleInv`: a lot on sale for the first time has no taker and no purchase; a taken
lot has one taker, whose order all its purchases name.

*OneBundle.*  `OneClaim`: before its claim an order has nothing and nobody works for it; then it has
one worker, and no userbot until that worker has moved one.

*CompletedDelivered.*  `DeliverInv`: the proxy of a lot on sale for the first time is the seller's,
or a Shop buyer's who paid for that lot (`FreshProxies`); the worker that is selling has moved, of its lot, what
comes before the place where it stands, or such a buyer has (`SaleSoFar`); an order that is 'completed'
has a deal with both assets at one of the two (`Delivered`).  A Shop check touches nothing else (`ShopActions`).

*DeliveredForGood, HolderDecides.*  Steps of the contract only, under the types: what a delivery
promises its reader is not argued on the detail again.

*OrderPaidOnce.*  `VerifyInv`: what a process saw still holds when it acts.  A payment
it found stays on chain, an order it serves after the claim is paid, the winner of the claim has yet to record
it, and no two processes win one claim or insert one id.

*OrderImplemented* (both).  Each write of the row's status is a step of `OrderLifecycle` (`RowStep`).  Billing
needs `VerifyInv` for it: the insert's id is new, so no row is overwritten, and the payment that a
revival or a claim relies on is still there.  The Shop needs `HandedInv` (below), for the transfer a check
found, and `DoomedInv`: what is about to be deleted exists.  Its ids were read from unpaid rows
(`PickStep`), whatever became of the rows since.

*BookedWasReceived, BookedIsKept, DeletedIsGone* are proved of the contract, from the edges a status
may take (`StepEdges`).  `PaidForGood`, `PurchasePaidFor` and `DeletedForGood` take them from there:
`OrderLifecycle_proofs` is instantiated with the refinement mapping (`RowFacts`), and the implementation
theorem discharges it.

*DeliveryImplemented, DeliveredForGood, ProSoldForMoney.*  The delivery that billing conjoins to its own steps
is the contract that `LeaseImplemented` shows of `ProFulfillment`, called by any number of requests
and by the job.  `ProStep`: of all the branches that grant Pro (claim, lost race, the repeated pages, the
recovery job) each serves an order that is paid, and stays so by `PaidStaysStep`.

*QuotaBounded.*  What the ledger holds of a userbot, with the callers that have chosen it and not
booked yet, is bounded: each step makes that sum no larger, chooses (and then saw room in the
ledger), or books what was chosen (`Quieter`, `Chosen`, `Booked`).

*CancelHolds, OneMessage.*  The history is bounded together with what the job still holds:
`CancelInv` counts the message it can no longer stop (`Armed`), `OneInv` says that a row not marked, whose
message is not between send and mark, has had no message but for a fault.

*MailingImplemented.*  A step of the job, `/send`, the owner or a restart is one of `Mailing` or a stutter
(`MailStep`).  Beyond the invariants of the next paragraph it needs `AtWorkInv`: the campaign the job
has in hand is 'sending' or was cancelled since (the reaper takes up only a campaign that stays 'sending'),
and the outcome 'errors' was read from a row that failed.  `DecidedForGood` and
`ClosedRowsForGood` are consequences of the contract.

*ClosedWhenDecided, ClosedForGood.*  `DecidedInv`: the batches come in order; a campaign closed by its
rows is not worked on; the outcome that is about to be written was read from the rows.
`PostInv`: before its insert a campaign has no status, so the insert reopens none.

*HandedOnlyWhenPaid, PaidRemains, PaidGetsSettled.*  `HandedInv`: a check past its claim works on a row
that is paid, or was deleted since.  `PaidGetsSettled` needs of the refresh that it keeps what was paid and remembers
the record it wipes (`RefreshShape`), and of the check's own write that it does not unpay another
(`PayloadShape`).

*SoldToOneOrFew.*  `SoleInv`: as long as a lot is not contested, at most one check has seen its account in the
seller's hands and not written the new owner yet, and while there is one nobody has the account; a proxy's taker
is its only owner.  A step that gives nothing away either sends no further check, or one alone, or one that is
remembered (`SoleKept`, `SoleMoves`).

*NeverDoubles, NothingIsLost.*  `RoomInv`: what is on the row, and what a worker read of it, leave
room for the extensions in flight (`Flight`).  `KeepInv` is `NothingLost` with the row that is not
there.

*ActivatedOncePerOpening.*  `CountInv`: a voucher that can still be claimed has had an activation fewer.

*ShutOutWhenOver.*  `KickInv`: a run of the job at work on the row sees it over, or is `raced`; a closed row is
over, or `cut`.  A late renewal of a closed row must open it, or the second half fails.

*AccessBought.*  `AccessInv`: a worker that is to write the row has activated a voucher or acts for the owner
(`Entitled`); a row rests on an activation or a decision of the owner, and a row without an end on one of those
that give none; a member, a request to join and a run of the job presuppose a row.

*OnceOnly, QueueIsTrue.*  `SentInv`: of a post that is not in doubt, at most one caller has it in hand
and that caller's place says whether the channel has it (`InHand`); the scheduler's post is 'sending' or
deleted, an administrator's still waits or is deleted; a post that waits in nobody's hands has not
been sent; a post Telegram refused has not either.  Most actions are calm (`Calm`, `QuietStep`): their caller has
nothing in hand, and the row goes on waiting, is deleted, or is taken back from a sender that is
gone.  The others (claim, publication, outcome, restart) have a lemma each.

*Only model-checked*: liveness (`RequestIsTaken`, `PaidGetsPro`, `QueuedEnds`, `OverdueEnds`,
`SendingEnds`, `AbandonedEditEnds`; the prover has no fairness or ENABLED).  Every invariant, action property
and refinement that a passing run checks is a theorem as well.  The four
violated properties are counterexamples of TLC.  `ProWasPaidFor`, `AccessWasBought`, `NeverOverpaid` and the
consequences of the contracts are theorems that no run of section 4 repeats.

## 7. Not modelled

- *Reserve refunds*: the next module of the plan; the claim at `referral-refund-sender.service.js:92`
  keeps the status it tests, so two callers may both send; no model yet.
- *Webhook queue* (`official-bot-webhook-queue.job.js:63`): a lease without a check of its owner; likewise.
- *Managed proxies*, *account intake and sale scan*, *userbot runtime*: long sequences of network I/O
  with Telegram or a proxy vendor, with little shared state; the part of the proxies that is
  shared (whose they are) is in `ProFulfillment` and `ShopPurchase`.
- *Reminder jobs* (retention, abandoned carts): a message more or fewer, no state that others read.
- *MCP and API adapters, front ends, sites, docs*: adapters, formatting, pages.  Most of the repository's
  lines are these, so the share of lines that is modelled is small although the code that moves money,
  lots, access and posts is in it.
- *Of the components that are partly modelled*: the referral programme's attribution and discount; the
  checkout of several-channel bundles and the tariffs' own pages; screens, texts and limits of batch sizes, named in
  section 3 under "assumed or left out".

Hazards in `PROJECT.json` without a property: the status route writes back the request's payload
as it read it, over the memo a sender wrote meanwhile (`reserve-refunds.js:369`; the models abstract
the payload); the refund's claim (`referral-refund-sender.service.js:92`) and the webhook queue's
unchecked lock, each in a component above.
Two more were seen and are not in the list: the reply to the UPDATE that
closes a payout is lost (`payout-ops.js:243`; the models assume that a failed call was not applied,
except transfers and messages), and the recovery job's window of 50 orders
(`billing-activation-recovery.job.js:55`), which is beyond any instance TLC can check.

## 8. Running

    tlc -workers 2 -config ReferralPayout_one.cfg MCReferralPayout
    tlapm ReferralPayout_proofs.tla

and likewise for each row of `runs` in `PROJECT.json` and each `*_proofs.tla`.  Each run ends in
less than five minutes on two workers.
