----------------------------- MODULE Subscriptions -----------------------------
(***************************************************************************)
(* One subscriber's access to one closed channel: invoices are paid and    *)
(* gift codes redeemed, each extends the subscription's row by a           *)
(* read-modify-write under an optimistic guard                             *)
(* (services/official-bot/subscriptions.js), the owner of the channel      *)
(* grants access, adds days, imports or kicks by hand (routes/userbot),    *)
(* and the auto-kick job removes the member once the row has run out       *)
(* (jobs/auto-kick.job.js).                                                *)
(*                                                                         *)
(* Time is counted in periods: a timed tariff adds one.  The table has one *)
(* row for the subscriber and the channel; a worker is a request, an       *)
(* update of the bot or the poller, and each of its database calls a step. *)
(***************************************************************************)
EXTENDS Integers, FiniteSets

CONSTANTS
  Invoices, Gifts,  \* what was bought, gift_access_codes
  Timed,            \* those that add a period; the others are for ever
  Workers, Ticks,   \* concurrent handlers, runs of the auto-kick job
  MaxAttempts,      \* kick_attempts at which the job gives up
  MaxTime,          \* bound: periods
  MaxManual,        \* bound: decisions of admins and owners
  MaxFaults         \* bound: failed calls and restarts

Vouchers == Invoices \cup Gifts

ASSUME SubscriptionConstants ==
  /\ IsFiniteSet(Workers)
  /\ Invoices \cap Gifts = {}
  /\ MaxAttempts \in Nat /\ MaxTime \in Nat
  /\ MaxManual \in Nat /\ MaxFaults \in Nat

VARIABLES
  now,
  row, expires, attempts,   \* a row: status, expires_at, kick_attempts
  member, joining,          \* in the channel; a join request found in order
  status,                   \* of an invoice or a code
  pc, src, cur, tries,      \* a worker: its place, its voucher or the term the
                            \* owner chose, the expires_at it read, failed guards
  tick, seen,               \* a run of the job, the kick_attempts it read
  raced,                    \* history: an extension was written during the run
  cut,                      \* history: the owner closed the row, or such a run
  started, granted,         \* history: activations, per voucher and in all
  again,                    \* history: how often a voucher was opened again
  extended, slipped,        \* history: periods added to the row; one was lost
  manual, faults

rowVars    == <<row, expires, attempts>>
accessVars == <<member, joining>>
workerVars == <<pc, src, cur, tries>>
tickVars   == <<tick, seen>>
closeVars  == <<raced, cut>>
countVars  == <<started, granted, again>>
vars == <<now, rowVars, accessVars, status, workerVars, tickVars, closeVars,
          countVars, extended, slipped, manual, faults>>

Forever == 0 - 1   \* expires_at is NULL
\* What the owner gives: a period on top of what is left, one from today, or
\* access without an end.
ByHand == "days"
Afresh == "afresh"
Lifelong == "forever"
Terms == {ByHand, Afresh, Lifelong}

TypeOK ==
  /\ now \in 0 .. MaxTime
  /\ row \in {"absent", "active", "expired"}
  /\ expires \in Nat \cup {Forever}
  /\ attempts \in 0 .. MaxAttempts
  /\ member \in BOOLEAN /\ joining \in BOOLEAN
  /\ status \in
       [Vouchers -> {"pending", "redeeming", "paid", "expired", "rejected"}]
  /\ pc \in [Workers -> {"idle", "approve", "read", "write", "reread", "force",
                         "insert", "close", "undo", "batch", "recheck", "mark"}]
  /\ src \in [Workers -> Vouchers \cup Terms]
  /\ cur \in [Workers -> Nat \cup {Forever}]
  /\ tries \in [Workers -> 0 .. 2]
  /\ tick \in [Ticks -> {"idle", "kick", "expire", "count"}]
  /\ seen \in [Ticks -> 0 .. MaxAttempts]
  /\ raced \in [Ticks -> BOOLEAN] /\ cut \in BOOLEAN
  /\ started \in [Vouchers -> Nat] /\ again \in [Vouchers -> Nat]
  /\ granted \in Nat
  /\ extended \in Nat /\ slipped \in BOOLEAN
  /\ manual \in 0 .. MaxManual /\ faults \in 0 .. MaxFaults

Init ==
  /\ now = 0
  /\ row = "absent" /\ expires = Forever /\ attempts = 0
  /\ member = FALSE /\ joining = FALSE
  /\ status = [v \in Vouchers |-> "pending"]
  /\ pc = [w \in Workers |-> "idle"]
  /\ src = [w \in Workers |-> ByHand]
  /\ cur = [w \in Workers |-> Forever]
  /\ tries = [w \in Workers |-> 0]
  /\ tick = [t \in Ticks |-> "idle"]
  /\ seen = [t \in Ticks |-> 0]
  /\ raced = [t \in Ticks |-> FALSE] /\ cut = FALSE
  /\ started = [v \in Vouchers |-> 0] /\ granted = 0
  /\ again = [v \in Vouchers |-> 0]
  /\ extended = 0 /\ slipped = FALSE
  /\ manual = 0 /\ faults = 0

Fault   == faults < MaxFaults /\ faults' = faults + 1
Decided == manual < MaxManual /\ manual' = manual + 1

Bump(f, v) == [f EXCEPT ![v] = @ + 1]

Goto(w, place) == pc' = [pc EXCEPT ![w] = place] /\ UNCHANGED <<src, cur,
                                                                tries>>

\* The worker forgets the row it read.
Leave(w, place, voucher) ==
  /\ pc' = [pc EXCEPT ![w] = place]
  /\ src' = [src EXCEPT ![w] = voucher]
  /\ cur' = [cur EXCEPT ![w] = Forever]
  /\ tries' = [tries EXCEPT ![w] = 0]

Return(w) == Leave(w, "idle", ByHand)

\* The extension is done, or has failed: a code is closed, or opened again.
Done(w)  == IF src[w] \in Gifts THEN Leave(w, "close", src[w]) ELSE Return(w)
Fails(w) == IF src[w] \in Gifts THEN Leave(w, "undo", src[w]) ELSE Return(w)
-----------------------------------------------------------------------------
(***************************************************************************)
(* Invoices and codes.                                                     *)
(***************************************************************************)
Activate(w, v) ==
  /\ pc' = [pc EXCEPT ![w] = "read"]
  /\ src' = [src EXCEPT ![w] = v]
  /\ started' = Bump(started, v)
  /\ granted' = granted + 1
  /\ UNCHANGED <<cur, tries>>

ClaimableMutant(i) == TRUE   \* the invoice is marked paid whatever it is

\* claimPaid and its like in the poller and the bot: CAS on 'pending'.
Claimable(i) == status[i] = "pending"

\* The payment is found, by the verify endpoint, the poller or the bot; the
\* bot of the channel may be down, and then nothing is activated.
Claim(w, i) ==
  /\ pc[w] = "idle" /\ Claimable(i)
  /\ status' = [status EXCEPT ![i] = "paid"]
  /\ \/ Activate(w, i) /\ UNCHANGED faults
     \/ Fault /\ UNCHANGED <<workerVars, started, granted>>
  /\ UNCHANGED <<now, rowVars, accessVars, tickVars, closeVars, again, extended,
                 slipped, manual>>

\* The till's webhook takes any invoice that is not paid.
Webhook(w, i) ==
  /\ pc[w] = "idle" /\ status[i] # "paid"
  /\ status' = [status EXCEPT ![i] = "paid"]
  /\ Activate(w, i)
  /\ UNCHANGED <<now, rowVars, accessVars, tickVars, closeVars, again, extended,
                 slipped, manual, faults>>

\* An admin approves a receipt: the status is read, and written whatever it
\* has become.
ApproveRead(w, i) ==
  /\ pc[w] = "idle" /\ status[i] # "paid" /\ Decided
  /\ pc' = [pc EXCEPT ![w] = "approve"]
  /\ src' = [src EXCEPT ![w] = i]
  /\ UNCHANGED <<now, rowVars, accessVars, status, cur, tries, tickVars,
                 closeVars, countVars, extended, slipped, faults>>

Approve(w) ==
  /\ pc[w] = "approve"
  /\ status' = [status EXCEPT ![src[w]] = "paid"]
  /\ again' = Bump(again, src[w])
  /\ Activate(w, src[w])
  /\ UNCHANGED <<now, rowVars, accessVars, tickVars, closeVars, extended,
                 slipped, manual, faults>>

Reject(i) ==
  /\ status[i] # "rejected" /\ Decided
  /\ status' = [status EXCEPT ![i] = "rejected"]
  /\ again' = Bump(again, i)
  /\ UNCHANGED <<now, rowVars, accessVars, workerVars, tickVars, closeVars,
                 started, granted, extended, slipped, faults>>

ExpireInvoice(i) ==
  /\ status[i] = "pending"
  /\ status' = [status EXCEPT ![i] = "expired"]
  /\ UNCHANGED <<now, rowVars, accessVars, workerVars, tickVars, closeVars,
                 countVars, extended, slipped, manual, faults>>

\* redeemGiftCode: CAS on 'active' (here "pending").
Redeem(w, g) ==
  /\ pc[w] = "idle" /\ status[g] = "pending"
  /\ status' = [status EXCEPT ![g] = "redeeming"]
  /\ Activate(w, g)
  /\ UNCHANGED <<now, rowVars, accessVars, tickVars, closeVars, again, extended,
                 slipped, manual, faults>>

\* The invitation is made and the code closed; or one of it fails.
CloseCode(w) ==
  /\ pc[w] = "close"
  /\ \/ /\ status' = [status EXCEPT ![src[w]] = "paid"]
        /\ Return(w)
        /\ UNCHANGED faults
     \/ Fault /\ Goto(w, "undo") /\ UNCHANGED status
  /\ UNCHANGED <<now, rowVars, accessVars, tickVars, closeVars, countVars,
                 extended, slipped, manual>>

\* The catch opens the code again, the extension it has given or not.
UndoCode(w) ==
  LET g == src[w] IN
  /\ pc[w] = "undo"
  /\ IF status[g] = "redeeming"
     THEN /\ status' = [status EXCEPT ![g] = "pending"]
          /\ again' = Bump(again, g)
     ELSE UNCHANGED <<status, again>>
  /\ Return(w)
  /\ UNCHANGED <<now, rowVars, accessVars, tickVars, closeVars, started,
                 granted, extended, slipped, manual, faults>>
-----------------------------------------------------------------------------
(***************************************************************************)
(* upsertSubscriptionForChannel.                                           *)
(***************************************************************************)
IsTimed(w) == src[w] \in Timed \cup {ByHand, Afresh}

\* A retry extends what the failed attempt had computed.
ExtendedMutant(w) ==
  IF ~IsTimed(w) THEN Forever
  ELSE (IF cur[w] > now THEN cur[w] ELSE now) + 1 + tries[w]

\* computeExtendedExpiresAt; NULL counts as no date.
Extended(w) ==
  IF ~IsTimed(w) THEN Forever
  ELSE (IF cur[w] > now /\ src[w] # Afresh THEN cur[w] ELSE now) + 1

\* The update sets the date only.
ReopenedMutant == IF row = "absent" THEN "active" ELSE row

\* A row that was closed is open again.
Reopened == "active"

\* The write of the row, and what the histories keep of it.
Write(w) ==
  /\ expires' = Extended(w)
  /\ row' = Reopened
  /\ extended' = IF ~IsTimed(w) THEN 0
                 ELSE IF src[w] = Afresh THEN 1 ELSE extended + 1
  /\ raced' = [t \in Ticks |-> tick[t] # "idle"]
  /\ cut' = FALSE

ReadRow(w) ==
  /\ pc[w] = "read"
  /\ \/ /\ row = "absent" /\ Goto(w, "insert") /\ UNCHANGED faults
     \/ /\ row # "absent"
        /\ pc' = [pc EXCEPT ![w] = "write"]
        /\ cur' = [cur EXCEPT ![w] = expires]
        /\ UNCHANGED <<src, tries, faults>>
     \/ Fault /\ Goto(w, "insert")   \* its error is not looked at
  /\ UNCHANGED <<now, rowVars, accessVars, status, tickVars, closeVars,
                 countVars, extended, slipped, manual>>

\* Refused when there is a row, and the refusal is not looked at.
InsertRow(w) ==
  /\ pc[w] = "insert"
  /\ IF row = "absent"
     THEN Write(w) /\ UNCHANGED slipped
     ELSE slipped' = TRUE /\ UNCHANGED <<expires, row, extended, closeVars>>
  /\ Done(w)
  /\ UNCHANGED <<now, attempts, accessVars, status, tickVars, countVars, manual,
                 faults>>

UnmovedMutant(w) == TRUE   \* the UPDATE names the id only

\* The guard of the UPDATE: expires_at is what was read.
Unmoved(w) == expires = cur[w]

WriteRow(w) ==
  /\ pc[w] = "write"
  /\ \/ Unmoved(w) /\ Write(w) /\ Done(w) /\ UNCHANGED faults
     \/ /\ ~Unmoved(w) /\ Goto(w, "reread")
        /\ UNCHANGED <<row, expires, extended, closeVars, faults>>
     \/ Fault /\ Fails(w) /\ UNCHANGED <<row, expires, extended, closeVars>>
     \/ Unmoved(w) /\ Fault /\ Write(w) /\ Fails(w)   \* the reply is lost
  /\ UNCHANGED <<now, attempts, accessVars, status, tickVars, countVars,
                 slipped, manual>>

\* Read again for the next attempt; after three, the last write has no guard.
RereadRow(w) ==
  /\ pc[w] = "reread"
  /\ cur' = [cur EXCEPT ![w] = expires]
  /\ IF tries[w] < 2
     THEN /\ tries' = [tries EXCEPT ![w] = @ + 1]
          /\ pc' = [pc EXCEPT ![w] = "write"]
     ELSE /\ pc' = [pc EXCEPT ![w] = "force"]
          /\ UNCHANGED tries
  /\ UNCHANGED <<now, rowVars, accessVars, status, src, tickVars, closeVars,
                 countVars, extended, slipped, manual, faults>>

\* The fallback, the days by hand and the import: what a row still ahead had
\* gained since it was read is lost.
ForceRow(w) ==
  /\ pc[w] = "force"
  /\ Write(w)
  /\ slipped' = (slipped \/ (expires # cur[w] /\ expires > now))
  /\ Done(w)
  /\ UNCHANGED <<now, attempts, accessVars, status, tickVars, countVars, manual,
                 faults>>
-----------------------------------------------------------------------------
(***************************************************************************)
(* The owner.                                                              *)
(***************************************************************************)
\* A date counts only on an active row.
Chosen(term) == IF term = ByHand /\ row # "active" THEN Afresh ELSE term

\* The owner decides, and a worker goes about it.
Decides(w, place, term, date) ==
  /\ pc[w] = "idle" /\ Decided
  /\ pc' = [pc EXCEPT ![w] = place]
  /\ src' = [src EXCEPT ![w] = term]
  /\ cur' = [cur EXCEPT ![w] = date]
  /\ granted' = granted + 1
  /\ UNCHANGED <<now, rowVars, accessVars, status, tries, tickVars, closeVars,
                 started, again, extended, slipped, faults>>

\* issueDirectChannelAccess: through upsertSubscriptionForChannel.
Grant(w, term) == Decides(w, "read", term, Forever)

\* POST /crm/subscribers/:id/add-days: read, then written by the id.
AddDays(w, term) == row # "absent" /\ Decides(w, "force", Chosen(term), expires)

\* POST /crm/import: the row is set from today, whatever it is.
Import(w, term) ==
  Decides(w, "force", IF term = ByHand THEN Afresh ELSE term, Forever)

\* POST /crm/subscribers/batch-add-days: under the guard, without a fallback.
BatchDays(w, term) ==
  row # "absent" /\ Decides(w, "batch", Chosen(term), expires)

BatchWrite(w) ==
  /\ pc[w] = "batch"
  /\ \/ Unmoved(w) /\ Write(w) /\ Return(w) /\ UNCHANGED faults
     \/ /\ ~Unmoved(w) /\ Goto(w, "recheck")
        /\ UNCHANGED <<row, expires, extended, closeVars, faults>>
     \/ Fault /\ Return(w) /\ UNCHANGED <<row, expires, extended, closeVars>>
  /\ UNCHANGED <<now, attempts, accessVars, status, tickVars, countVars,
                 slipped, manual>>

\* Read again for the next attempt; after three, or an error, it gives up.
Recheck(w) ==
  /\ pc[w] = "recheck"
  /\ \/ /\ tries[w] < 2
        /\ pc' = [pc EXCEPT ![w] = "batch"]
        /\ src' = [src EXCEPT ![w] = Chosen(IF @ = Afresh THEN ByHand ELSE @)]
        /\ cur' = [cur EXCEPT ![w] = expires]
        /\ tries' = [tries EXCEPT ![w] = @ + 1]
        /\ UNCHANGED faults
     \/ tries[w] = 2 /\ Return(w) /\ UNCHANGED faults
     \/ Fault /\ Return(w)
  /\ UNCHANGED <<now, rowVars, accessVars, status, tickVars, closeVars,
                 countVars, extended, slipped, manual>>

\* POST /crm/subscribers/batch-kick: a userbot bans and unbans whoever it is;
\* when the ban or the unban fails nothing is written.
OwnerKicks(w) ==
  /\ pc[w] = "idle" /\ row # "absent" /\ Decided
  /\ \/ member' = FALSE /\ Goto(w, "mark")
     \/ member' \in {member, FALSE} /\ UNCHANGED workerVars
  /\ UNCHANGED <<now, rowVars, joining, status, tickVars, closeVars, countVars,
                 extended, slipped, faults>>

\* From the list of customers the kick closes the row, by its id; from the
\* access screen it leaves a note, and so does a write that failed.
MarkKicked(w) ==
  /\ pc[w] = "mark"
  /\ \/ row' = "expired" /\ cut' = TRUE
     \/ UNCHANGED <<row, cut>>
  /\ Return(w)
  /\ UNCHANGED <<now, expires, attempts, accessVars, status, tickVars, raced,
                 countVars, extended, slipped, manual, faults>>
-----------------------------------------------------------------------------
(***************************************************************************)
(* The channel: join requests and the auto-kick job.                       *)
(***************************************************************************)
HasAccess == row = "active" /\ (expires = Forever \/ expires > now)

JoinRequest ==
  /\ ~member /\ ~joining /\ HasAccess
  /\ joining' = TRUE
  /\ UNCHANGED <<now, rowVars, member, status, workerVars, tickVars, closeVars,
                 countVars, extended, slipped, manual, faults>>

JoinApproved ==
  /\ joining
  /\ joining' = FALSE /\ member' = TRUE
  /\ UNCHANGED <<now, rowVars, status, workerVars, tickVars, closeVars,
                 countVars, extended, slipped, manual, faults>>

EndlessMutant == row = "active" /\ expires # Forever /\ expires < now

\* What the job reads.
Due == /\ row = "active" /\ attempts < MaxAttempts
       /\ expires # Forever /\ expires < now

TickRead(t) ==
  /\ tick[t] = "idle" /\ Due
  /\ tick' = [tick EXCEPT ![t] = "kick"]
  /\ seen' = [seen EXCEPT ![t] = attempts]
  /\ raced' = [raced EXCEPT ![t] = FALSE]
  /\ UNCHANGED <<now, rowVars, accessVars, status, workerVars, cut, countVars,
                 extended, slipped, manual, faults>>

\* Ban and unban; or neither the bot nor a userbot can, which is counted also
\* when it was the unban that failed.
Kick(t) ==
  /\ tick[t] = "kick"
  /\ \/ member' = FALSE /\ tick' = [tick EXCEPT ![t] = "expire"]
     \/ /\ member' \in {member, FALSE}
        /\ tick' = [tick EXCEPT ![t] = "count"]
  /\ UNCHANGED <<now, rowVars, joining, status, workerVars, seen, closeVars,
                 countVars, extended, slipped, manual, faults>>

TickEnds(t) ==
  /\ tick' = [tick EXCEPT ![t] = "idle"]
  /\ seen' = [seen EXCEPT ![t] = 0]
  /\ raced' = [raced EXCEPT ![t] = FALSE]

\* Both last writes go by the id, and nobody looks whether they failed.
TickExpires(t) ==
  /\ tick[t] = "expire"
  /\ \/ row' = "expired" /\ cut' = raced[t] /\ UNCHANGED faults
     \/ Fault /\ UNCHANGED <<row, cut>>
  /\ TickEnds(t)
  /\ UNCHANGED <<now, expires, attempts, accessVars, status, workerVars,
                 countVars, extended, slipped, manual>>

CountedMutant(n) == n   \* the attempt is not counted

Counted(n) == n + 1

TickCounts(t) ==
  /\ tick[t] = "count"
  /\ \/ attempts' = Counted(seen[t]) /\ UNCHANGED faults
     \/ Fault /\ UNCHANGED attempts
  /\ TickEnds(t)
  /\ UNCHANGED <<now, row, expires, accessVars, status, workerVars, cut,
                 countVars, extended, slipped, manual>>

TimePasses ==
  /\ now < MaxTime /\ now' = now + 1
  /\ UNCHANGED <<rowVars, accessVars, status, workerVars, tickVars, closeVars,
                 countVars, extended, slipped, manual, faults>>

\* Workers and runs of the job are lost with the process.
Restart ==
  /\ Fault
  /\ pc' = [w \in Workers |-> "idle"]
  /\ src' = [w \in Workers |-> ByHand]
  /\ cur' = [w \in Workers |-> Forever]
  /\ tries' = [w \in Workers |-> 0]
  /\ tick' = [t \in Ticks |-> "idle"]
  /\ seen' = [t \in Ticks |-> 0]
  /\ raced' = [t \in Ticks |-> FALSE]
  /\ joining' = FALSE
  /\ UNCHANGED <<now, rowVars, member, status, cut, countVars, extended,
                 slipped, manual>>

Worker(w) ==
  \/ \E i \in Invoices : Claim(w, i) \/ Webhook(w, i) \/ ApproveRead(w, i)
  \/ \E g \in Gifts : Redeem(w, g)
  \/ Approve(w) \/ CloseCode(w) \/ UndoCode(w)
  \/ ReadRow(w) \/ InsertRow(w) \/ WriteRow(w) \/ RereadRow(w)
  \/ ForceRow(w)

Owner(w) ==
  \/ \E term \in {ByHand, Lifelong} :
       \/ Grant(w, term) \/ AddDays(w, term) \/ Import(w, term)
       \/ BatchDays(w, term)
  \/ BatchWrite(w) \/ Recheck(w) \/ OwnerKicks(w) \/ MarkKicked(w)

Tick(t) == TickRead(t) \/ Kick(t) \/ TickExpires(t) \/ TickCounts(t)

Next ==
  \/ \E w \in Workers : Worker(w) \/ Owner(w)
  \/ \E t \in Ticks : Tick(t)
  \/ \E i \in Invoices : Reject(i) \/ ExpireInvoice(i)
  \/ JoinRequest \/ JoinApproved \/ TimePasses \/ Restart

\* The job runs on its interval.
Spec == Init /\ [][Next]_vars /\ \A t \in Ticks : WF_vars(Tick(t))
-----------------------------------------------------------------------------
(***************************************************************************)
(* Properties.                                                             *)
(***************************************************************************)
\* "In the worst case a parallel extension is lost, not doubled"
\* (subscriptions.js:101-102): retries, conflicts and lost replies included,
\* the row never runs further ahead than one period per activation.
NeverDoubled == expires <= now + granted

\* No extension disappears, unless an unguarded write met a row that had moved
\* or a second insert was refused: the row holds every period added to it.
NothingLost == (~slipped /\ expires # Forever) => expires >= extended

\* The verify endpoint, the poller, the bot and the webhook race for one
\* invoice, and two redemptions for one code: it is activated once, and once
\* more for each decision of an admin and each failed redemption.
ActivatedOnce ==
  \A v \in Vouchers : started[v] <= again[v] + 1

Over == expires # Forever /\ expires < now

\* Who is shut out has run out of time: a renewal opens a closed row whatever
\* raced with it, and only the owner, or a run of the job that a renewal
\* overtook, closes a row or removes a member before the end.
ShutOutIsOver ==
  /\ [](row = "expired" => Over \/ cut)
  /\ [][member /\ ~member' =>
          \/ Over \/ manual' > manual
          \/ \E t \in Ticks : tick[t] = "kick" /\ raced[t]]_vars

\* A row that has run out is closed, renewed, or given up after its attempts:
\* a failing kick is not tried for ever.
OverdueEnds ==
  LET overdue == row = "active" /\ Over /\ attempts < MaxAttempts IN
  overdue ~> ~overdue
=============================================================================
