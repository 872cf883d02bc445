------------------------------ MODULE Broadcast ------------------------------
(***************************************************************************)
(* Mass mailings.  POST /api/broadcast/send queues a campaign and inserts  *)
(* its deliveries in batches (routes/broadcast/campaign-routes.js); the    *)
(* job of jobs/broadcast-delivery.job.js claims a campaign, delivers its   *)
(* pending rows one by one through the official bot or the userbots of     *)
(* MessagingRouter and closes it; the owner may cancel it at any time, and *)
(* manual messages go through the same userbots meanwhile.                 *)
(*                                                                         *)
(* All campaigns are one owner's (the guard of /send is per owner).  One   *)
(* step is one database call or one message.  The heartbeat is a bit that  *)
(* tells whether it is younger than ten minutes.                           *)
(***************************************************************************)
EXTENDS MessagingRouter

CONSTANTS
  Campaigns,   \* broadcast_campaigns of the owner
  Rows,        \* broadcast_deliveries
  CampaignOf,  \* CampaignOf[r]: its campaign
  BatchOf,     \* BatchOf[r]: the insert of /send that brings it
  PoolOf,      \* PoolOf[k]: the userbots chosen for the campaign
  Job,         \* the delivery job, one of the callers of the router
  MaxManual    \* bound: manual messages

ASSUME BroadcastConstants ==
  /\ CampaignOf \in [Rows -> Campaigns]
  /\ BatchOf \in [Rows -> Nat]
  /\ PoolOf \in [Campaigns -> SUBSET Actors]
  /\ Job \in Callers
  /\ MaxManual \in Nat
  /\ "none" \notin Campaigns /\ "none" \notin Rows

VARIABLES
  status,      \* broadcast_campaigns.status, "none" before the insert
  sender,      \* meta.sender_type: the bot, the userbots or first one then
               \* the other
  fresh,       \* fresh[k]: delivery_heartbeat_at is younger than ten minutes
  row,         \* row[r]: delivery_status, "absent" before the insert
  post,        \* post[k]: where the /send of k stands
  jobAt, jobC, todo, cur, out,  \* the job: its place, campaign, rows still
               \* to do, current row, and outcome of that row or the closing
  manual,      \* manual messages so far
  got,         \* history: messages the recipient of r received
  late         \* history: messages of k sent while it was cancelled

jobVars     == <<jobAt, jobC, todo, cur, out>>
historyVars == <<got, late>>
mailingVars == <<status, sender, fresh, row, post, manual>>
vars == <<routerVars, mailingVars, jobVars, historyVars>>

None    == "none"
Senders == {"bot", "userbots", "both"}
Active == {"queued", "sending"}
Closed == {"sent", "errors", "failed", "cancelled"}
RowsOf(k) == {r \in Rows : CampaignOf[r] = k}

TypeOK ==
  /\ RouterTypeOK
  /\ status \in [Campaigns -> {"none"} \cup Active \cup Closed]
  /\ sender \in [Campaigns -> Senders]
  /\ fresh \in [Campaigns -> BOOLEAN]
  /\ row \in [Rows -> {"absent", "pending", "sent", "failed"}]
  /\ post \in [Campaigns -> {"no", "checked", "rows", "done", "dropped"}]
  /\ jobAt \in {"idle", "claim", "load", "check", "bot", "fallback", "router",
                "mark", "dead", "decide", "close"}
  /\ jobC \in Campaigns \cup {None}
  /\ todo \subseteq Rows
  /\ cur \in Rows \cup {None}
  /\ out \in {"none", "sent", "failed", "errors"}
  /\ manual \in 0 .. MaxManual
  /\ got \in [Rows -> Nat]
  /\ late \in [Campaigns -> Nat]

Init ==
  /\ RouterInit
  /\ status = [k \in Campaigns |-> "none"]
  /\ sender = [k \in Campaigns |-> "bot"]
  /\ fresh = [k \in Campaigns |-> FALSE]
  /\ row = [r \in Rows |-> "absent"]
  /\ post = [k \in Campaigns |-> "no"]
  /\ jobAt = "idle" /\ jobC = None /\ todo = {} /\ cur = None /\ out = "none"
  /\ manual = 0
  /\ got = [r \in Rows |-> 0]
  /\ late = [k \in Campaigns |-> 0]
-----------------------------------------------------------------------------
(***************************************************************************)
(* POST /send.                                                             *)
(***************************************************************************)
\* The guard: no other active campaign.  Two requests at once may both pass.
PostGuard(k) ==
  /\ post[k] = "no"
  /\ \A j \in Campaigns : status[j] \notin Active
  /\ post' = [post EXCEPT ![k] = "checked"]
  /\ UNCHANGED <<routerVars, status, fresh, row, sender, manual, jobVars,
                 historyVars>>

PostInsert(k) ==
  /\ post[k] = "checked"
  /\ status' = [status EXCEPT ![k] = "queued"]
  /\ \E s \in Senders : sender' = [sender EXCEPT ![k] = s]
  /\ post'   = [post EXCEPT ![k] = "rows"]
  /\ UNCHANGED <<routerVars, fresh, row, manual, jobVars, historyVars>>

Missing(k) == {r \in RowsOf(k) : row[r] = "absent"}

NextBatch(k) ==
  {r \in Missing(k) : \A q \in Missing(k) : BatchOf[r] <= BatchOf[q]}

PostBatch(k) ==
  /\ post[k] = "rows"
  /\ row' = [r \in Rows |-> IF r \in NextBatch(k) THEN "pending" ELSE row[r]]
  /\ post' = [post EXCEPT ![k] = IF Missing(k) = NextBatch(k) THEN "done" ELSE @]
  /\ UNCHANGED <<routerVars, status, fresh, sender, manual, jobVars,
                 historyVars>>

\* A batch is refused: the campaign fails, unless the job has claimed it.
PostBatchFails(k) ==
  /\ post[k] = "rows"
  /\ Fault
  /\ status' = [status EXCEPT ![k] = IF @ = "queued" THEN "failed" ELSE @]
  /\ post'   = [post EXCEPT ![k] = "dropped"]
  /\ UNCHANGED <<accounts, seen, calls, fresh, row, sender, manual,
                 jobVars, historyVars>>

\* POST /campaigns/:id/cancel.
Cancel(k) ==
  /\ status[k] \in Active
  /\ status' = [status EXCEPT ![k] = "cancelled"]
  /\ UNCHANGED <<routerVars, fresh, row, post, sender, manual, jobVars,
                 historyVars>>
-----------------------------------------------------------------------------
(***************************************************************************)
(* The delivery job.                                                       *)
(***************************************************************************)
JobGoto(place) ==
  /\ jobAt' = place
  /\ UNCHANGED <<jobC, todo, cur, out>>

\* The tick is over.
JobEnds ==
  /\ jobAt' = "idle" /\ jobC' = None /\ todo' = {} /\ cur' = None
  /\ out' = "none"
  /\ DropPool(Job)
  /\ UNCHANGED <<accounts, calls>>

StaleMutant(k) == FALSE   \* only queued campaigns are looked for

\* The reaper's test.
Stale(k) == status[k] = "sending" /\ ~fresh[k]

\* claimNextCampaign: a queued campaign, or else one whose job has died.
JobPick(k) ==
  /\ jobAt = "idle"
  /\ \/ status[k] = "queued"
     \/ Stale(k) /\ \A j \in Campaigns : status[j] # "queued"
  /\ jobAt' = "claim" /\ jobC' = k
  /\ UNCHANGED <<routerVars, mailingVars, todo, cur, out, historyVars>>

JobClaim ==
  /\ jobAt = "claim"
  /\ IF status[jobC] \in Active
     THEN /\ status' = [status EXCEPT ![jobC] = "sending"]
          /\ fresh'  = [fresh EXCEPT ![jobC] = TRUE]
          /\ JobGoto("load") /\ UNCHANGED routerVars
     ELSE JobEnds /\ UNCHANGED <<status, fresh, faults>>
  /\ UNCHANGED <<row, post, sender, manual, historyVars>>

\* hasDeliverableActor: only an actor paused by a flood will come back.
Deliverable(k) == \E a \in PoolOf[k] : health[a] = "well" /\ paused[a] # "flagged"

PendingMutant(k) == {r \in RowsOf(k) : row[r] \in {"pending", "sent"}}   \* the filter is wrong

\* loadPendingDeliveries.
Pending(k) == {r \in RowsOf(k) : row[r] = "pending"}

\* The pending rows and the userbots are read.  A campaign of userbots only
\* with none of them left is given up.
JobLoad ==
  /\ jobAt = "load"
  /\ todo' = Pending(jobC)
  /\ LoadPool(Job)
  /\ jobAt' = IF todo' # {} /\ sender[jobC] = "userbots" /\ ~Deliverable(jobC)
              THEN "dead" ELSE "check"
  /\ UNCHANGED <<accounts, calls, faults, mailingVars, jobC, cur, out,
                 historyVars>>

\* One of the two reads fails: the campaign stays 'sending'.
JobLoadFails ==
  /\ jobAt = "load" /\ Fault /\ JobEnds
  /\ UNCHANGED <<mailingVars, historyVars>>

\* failAllPending, which may miss, and the campaign is 'failed'.
JobGivesUp ==
  /\ jobAt = "dead"
  /\ \/ /\ row' = [r \in Rows |-> IF CampaignOf[r] = jobC /\ row[r] = "pending"
                                  THEN "failed" ELSE row[r]]
        /\ UNCHANGED faults
     \/ Fault /\ UNCHANGED row
  /\ out' = "failed" /\ jobAt' = "close"
  /\ UNCHANGED <<accounts, seen, calls, status, fresh, post, sender,
                 manual, jobC, todo, cur, historyVars>>

OursMutant(k) == status[k] \in {"sending", "cancelled"}   \* a cancellation is not looked at

Ours(k) == status[k] = "sending"

\* Before each row: isCampaignStillOurs, which takes a failed read for yes.
JobCheck ==
  /\ jobAt = "check"
  /\ IF Ours(jobC) THEN UNCHANGED faults ELSE Fault
  /\ \E r \in todo : cur' = r /\ todo' = todo \ {r}
  /\ jobAt' = IF sender[jobC] = "userbots" THEN "fallback" ELSE "bot"
  /\ UNCHANGED <<accounts, seen, calls, mailingVars, jobC, out,
                 historyVars>>

JobStops ==
  /\ jobAt = "check"
  /\ todo = {} \/ ~Ours(jobC)
  /\ JobGoto("decide")
  /\ UNCHANGED <<routerVars, mailingVars, historyVars>>

\* The recipient of the current row receives a message.
Arrives ==
  /\ got'  = [got EXCEPT ![cur] = @ + 1]
  /\ late' = [late EXCEPT ![jobC] = IF status[jobC] = "cancelled" THEN @ + 1 ELSE @]

\* deliverToRecipient: the official bot first.  It sends; or the message
\* arrives and the reply is lost; or it is missing or refused.
JobBot ==
  /\ jobAt = "bot"
  /\ \/ Arrives /\ out' = "sent" /\ jobAt' = "mark" /\ UNCHANGED faults
     \/ Arrives /\ Fault /\ jobAt' = "fallback" /\ UNCHANGED out
     \/ jobAt' = "fallback" /\ UNCHANGED <<out, faults, historyVars>>
  /\ UNCHANGED <<accounts, seen, calls, mailingVars, jobC, todo, cur>>

\* loadSelectedUserbots: those that are still there to be used.
Selected(k) == {a \in PoolOf[k] : seen[Job][a] # "gone"}

\* Then the userbots, if the campaign has any.
JobFallback ==
  /\ jobAt = "fallback"
  /\ IF sender[jobC] = "bot" \/ Selected(jobC) = {}
     THEN out' = "failed" /\ jobAt' = "mark" /\ UNCHANGED routerVars
     ELSE /\ Enter(Job, Selected(jobC)) /\ UNCHANGED seen
          /\ jobAt' = "router" /\ UNCHANGED out
  /\ UNCHANGED <<mailingVars, jobC, todo, cur, historyVars>>

\* deliver() for the job's row.
JobRouter ==
  /\ jobAt = "router"
  /\ \/ RouterWalks(Job) /\ UNCHANGED historyVars
     \/ (SendSucceeds(Job) \/ SendReplyLost(Job)) /\ Arrives
  /\ UNCHANGED <<mailingVars, jobVars>>

\* isPoolQuotaPaused: an ineligible actor counts as paused, for good or not.
PoolQuotaPaused(k) == \A a \in Selected(k) : Eligible(Job, a) => ~UnderQuota(a)

\* The outcome of deliver().  Nobody in the pool may send now: the row waits
\* and the loop ends; the question may fail and then counts as no.
JobRouterReturns ==
  /\ jobAt = "router"
  /\ Leave(Job)
  /\ \/ /\ stage[Job] = "exhausted" /\ PoolQuotaPaused(jobC)
        /\ cur' = None /\ jobAt' = "decide" /\ UNCHANGED <<out, faults>>
     \/ /\ stage[Job] = "sent"
        /\ out' = "sent" /\ jobAt' = "mark" /\ UNCHANGED <<cur, faults>>
     \/ /\ stage[Job] # "sent"
        /\ IF stage[Job] = "exhausted" /\ PoolQuotaPaused(jobC)
           THEN Fault ELSE UNCHANGED faults
        /\ out' = "failed" /\ jobAt' = "mark" /\ UNCHANGED cur
  /\ UNCHANGED <<seen, mailingVars, jobC, todo, historyVars>>

\* The row is marked, by its id; a failed write leaves it pending.  The
\* heartbeat follows, guarded by the status.
JobMark ==
  /\ jobAt = "mark"
  /\ \/ row' = [row EXCEPT ![cur] = out] /\ UNCHANGED faults
     \/ Fault /\ UNCHANGED row
  /\ fresh' = [fresh EXCEPT ![jobC] = @ \/ Ours(jobC)]
  /\ jobAt' = "check" /\ cur' = None /\ out' = "none"
  /\ UNCHANGED <<accounts, seen, calls, status, post, sender, manual,
                 jobC, todo, historyVars>>

InsertAwaitedMutant(k) == FALSE   \* no rows, nothing left to do

\* planCampaignFinalization: /send has not inserted a row yet.
InsertAwaited(k) == \A r \in RowsOf(k) : row[r] = "absent"

\* finalizeCampaign reads the rows: some are pending or still to come and the
\* campaign waits for the reaper, or its last status is known.
JobDecide ==
  /\ jobAt = "decide"
  /\ IF \/ InsertAwaited(jobC)
        \/ \E r \in RowsOf(jobC) : row[r] = "pending"
     THEN /\ JobEnds /\ UNCHANGED faults
          /\ fresh' = [fresh EXCEPT ![jobC] = @ \/ (Ours(jobC) /\ ~InsertAwaited(jobC))]
     ELSE /\ out' = IF \E r \in RowsOf(jobC) : row[r] = "failed" THEN "errors" ELSE "sent"
          /\ jobAt' = "close"
          /\ UNCHANGED <<routerVars, fresh, jobC, todo, cur>>
  /\ UNCHANGED <<status, row, post, sender, manual, historyVars>>

ClosableMutant(k) == status[k] \in {"sending", "cancelled"}   \* the UPDATE lost its guard

Closable(k) == status[k] = "sending"

JobClose ==
  /\ jobAt = "close"
  /\ status' = [status EXCEPT ![jobC] = IF Closable(jobC) THEN out ELSE @]
  /\ JobEnds
  /\ UNCHANGED <<faults, fresh, row, post, sender, manual, historyVars>>

\* A read or the write of the closing fails: it is left to the reaper.
JobCloseFails ==
  /\ jobAt \in {"decide", "close"} /\ Fault /\ JobEnds
  /\ UNCHANGED <<mailingVars, historyVars>>

JobStep ==
  \/ \E k \in Campaigns : JobPick(k)
  \/ JobClaim \/ JobLoad \/ JobLoadFails \/ JobGivesUp \/ JobCheck \/ JobStops
  \/ JobBot \/ JobFallback \/ JobRouter \/ JobRouterReturns \/ JobMark
  \/ JobDecide \/ JobClose \/ JobCloseFails
-----------------------------------------------------------------------------
(***************************************************************************)
(* The rest of the system.                                                 *)
(***************************************************************************)
\* Ten minutes without a heartbeat (while the job is at work on a campaign
\* nobody looks at its heartbeat).
HeartbeatAges(k) ==
  /\ fresh[k] /\ jobC # k
  /\ fresh' = [fresh EXCEPT ![k] = FALSE]
  /\ UNCHANGED <<routerVars, status, row, post, sender, manual, jobVars,
                 historyVars>>

\* POST /api/messaging/send: the userbot is read and must be eligible; it is
\* the whole pool.
ManualSend(c, a) ==
  /\ c # Job /\ manual < MaxManual
  /\ health[a] = "well" /\ paused[a] = "no"
  /\ LoadPool(c) /\ Enter(c, {a})
  /\ manual' = manual + 1
  /\ UNCHANGED <<status, fresh, row, post, jobVars, historyVars, sender>>

ManualRouter(c) ==
  /\ c # Job
  /\ \/ RouterWalks(c) \/ SendSucceeds(c) \/ SendReplyLost(c)
     \/ Leave(c) /\ DropPool(c) /\ UNCHANGED faults
  /\ UNCHANGED <<mailingVars, jobVars, historyVars>>

TimePasses(a) ==
  /\ WindowMoves(a) \/ PauseEnds(a)
  /\ UNCHANGED <<mailingVars, jobVars, historyVars>>

AccountChanges(a) ==
  /\ HealthChanges(a)
  /\ UNCHANGED <<mailingVars, jobVars, historyVars>>

\* The process restarts: the job, the requests and every send end where they
\* stand.
Restart ==
  /\ Fault
  /\ AllIdle
  /\ jobAt' = "idle" /\ jobC' = None /\ todo' = {} /\ cur' = None /\ out' = "none"
  /\ post' = [k \in Campaigns |-> IF post[k] \in {"checked", "rows"} THEN "dropped"
                                  ELSE post[k]]
  /\ UNCHANGED <<accounts, status, fresh, row, sender, manual,
                 historyVars>>

Next ==
  \/ \E k \in Campaigns : \/ PostGuard(k) \/ PostInsert(k) \/ PostBatch(k)
                          \/ PostBatchFails(k) \/ Cancel(k) \/ HeartbeatAges(k)
  \/ JobStep
  \/ \E c \in Callers : ManualRouter(c) \/ \E a \in Actors : ManualSend(c, a)
  \/ \E a \in Actors : TimePasses(a) \/ AccountChanges(a)
  \/ Restart

\* The job's ticks and awaits go on, and time passes.  The tick is much shorter
\* than the ten minutes a claim keeps its campaign fresh, so that the others
\* have their turn.
Fairness ==
  /\ WF_vars(JobStep)
  /\ \A k \in Campaigns : SF_vars(JobPick(k))
  /\ \A k \in Campaigns : WF_vars(HeartbeatAges(k))
  /\ \A a \in Actors : WF_vars(TimePasses(a))

Spec == Init /\ [][Next]_vars /\ Fairness
-----------------------------------------------------------------------------
(***************************************************************************)
(* Properties.                                                             *)
(***************************************************************************)
\* A recipient receives the campaign once, and once more for each failure at
\* most ("send-then-mark", broadcast-delivery.job.js:11): whatever the job and
\* the reaper resume, and whichever of the bot and the userbots sent.
OneMessageEach == \A r \in Rows : got[r] <= 1 + faults

\* "The cancellation always wins": once a campaign is cancelled, the message
\* that was under way goes out and then, unless a call fails, no other, not
\* even after a restart.
CancelStops == \A k \in Campaigns : late[k] <= 1 + faults

\* A campaign that is closed by its rows has delivered or failed each row of
\* its first batch, and is 'sent' only when no row has failed.
ClosedIsDecided ==
  \A k \in Campaigns :
    /\ status[k] \in {"sent", "errors"} =>
         \A r \in RowsOf(k) :
           (\A q \in RowsOf(k) : BatchOf[r] <= BatchOf[q]) => row[r] \in {"sent", "failed"}
    /\ status[k] = "sent" => \A r \in RowsOf(k) : row[r] # "failed"

\* Whoever closes a campaign first, the job, the owner or the failed /send,
\* nobody opens it again or closes it otherwise.
ClosedStays ==
  [][\A k \in Campaigns : status[k] \in Closed => status'[k] = status[k]]_vars

\* The mailing keeps the contract of its rows and of its closing, whatever the
\* job, the requests, a restart and the reaper do to it side by side.
Mail == INSTANCE Mailing
MailingKept == Mail!Spec

\* Nobody is left to fall back on, but the chosen accounts are blocked and not
\* gone: the campaign goes by the bot first, is not given up, and waits.
WaitsForUserbots(k) ==
  /\ sender[k] = "both"
  /\ \E a \in PoolOf[k] : health[a] = "blocked"
  /\ \A a \in PoolOf[k] : health[a] # "well"

\* A campaign whose rows are all inserted is closed in the end: dead jobs are
\* reaped, quotas come back and pauses run out.  The exception is a campaign of
\* the bot with userbots to fall back on whose userbots stay blocked for ever.
QueuedEnds ==
  \A k \in Campaigns :
    (post[k] = "done") ~> (status[k] \in Closed \/ []WaitsForUserbots(k))
=============================================================================
