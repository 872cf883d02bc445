------------------------------- MODULE Autopost -------------------------------
(***************************************************************************)
(* The queue of posts of one autopost bot (autopost_items).  Posts are     *)
(* inserted into the queue of their channel and get a slot; the scheduler  *)
(* (jobs/autopost-scheduler.job.js) claims the posts that are due and      *)
(* publishes them; administrators publish by hand, edit, move, approve and *)
(* delete (services/autopost/handlers); and the sweep                      *)
(* (jobs/autopost-stuck-editing.job.js) puts back what stays in 'editing'  *)
(* or 'sending' for ten minutes.                                           *)
(*                                                                         *)
(* One step is one database call or one message to Telegram.  Most writes  *)
(* of the administrators name the row only, whatever its status has become *)
(* since it was read: Overwrite.  The age of updated_at is a bit.          *)
(***************************************************************************)
EXTENDS Integers, FiniteSets

CONSTANTS
  Posts,        \* rows of autopost_items
  Channels,     \* the channels of the bot
  Admins,       \* calls of administrators, one at a time each
  BatchOf,      \* BatchOf[i]: post_batch_id, one logical post
  ChannelOf,    \* ChannelOf[i]: the channel it is inserted for
  Scheduler, Sweep,
  Server,       \* the AutopostService of server.js, which the sweep is given
  Panel,        \* another one: that of the panel's routes, or one made by a tool
  MaxActs,      \* bound: calls an administrator starts on posts
  MaxFaults,    \* bound: restarts, lost replies, failed writes
  MaxSent       \* bound: publications of a post

ASSUME AutopostConstants ==
  /\ BatchOf \in [Posts -> Posts]
  /\ ChannelOf \in [Posts -> Channels]
  /\ Scheduler \notin Admins /\ Sweep \notin Admins /\ Scheduler # Sweep
  /\ Server # Panel /\ "nothing" \notin {Server, Panel}
  /\ "nothing" \notin Posts /\ "nothing" \notin Channels
  /\ {MaxActs, MaxFaults, MaxSent} \subseteq Nat

Nothing == "nothing"
Unsure  == -1
Callers == Admins \cup {Scheduler, Sweep}
Services == {Server, Panel}
Queue   == {"queued", "scheduled", "editing"}
NotYet  == Queue \cup {"suggested", "failed"}
Status  == Queue \cup {"absent", "suggested", "sending", "posted", "failed", "deleted"}
\* scheduled_at of a scheduled post; in another status it is never read.
Slot    == {"none", "later", "due"}
Row     == [post : Posts, status : {"queued", "scheduled"}, slot : {"none", "later"}]

VARIABLES
  status, slot, channel,
  suggestion, \* the posts sent for approval: an administrator has their buttons
  old,        \* old[i]: updated_at is older than ten minutes
  edit,       \* edit[s]: adminStates of the service s: the post an administrator
              \* clicked and the rows to restore
  via,        \* via[a]: the service a call of an edit began with
  pc, at,     \* pc[c]: where the call of c stands; at[c]: its post
  todo,       \* todo[c]: the posts it has read and not yet handled
  saved,      \* saved[c]: rows of an edit, while a call holds them
  chans,      \* chans[c]: the channels c has still to collapse
  part,       \* the part of its tick the sweep is in
  stuck,      \* the posts in 'editing' whose batch it has not come to
  acts, faults,
  sent        \* history: how often the channel got the post, or Unsure once a
              \* publication met another write or publication or lost its record

rowVars     == <<status, slot, channel, suggestion, old>>
localVars   == <<at, todo, saved, chans>>
sweepVars   == <<part, stuck>>
editVars    == <<edit, via>>
vars == <<rowVars, editVars, pc, localVars, sweepVars, acts, faults, sent>>

NoEdit == [clicked |-> Nothing, rows |-> {}]

TypeOK ==
  /\ status \in [Posts -> Status] /\ slot \in [Posts -> Slot]
  /\ channel \in [Posts -> Channels] /\ suggestion \subseteq Posts
  /\ old \in [Posts -> BOOLEAN]
  /\ edit \in [Services -> [Admins -> [clicked : Posts \cup {Nothing}, rows : SUBSET Row]]]
  /\ via \in [Admins -> Services \cup {Nothing}]
  /\ pc \in [Callers -> {"idle", "due", "send", "mark", "fail", "flood",
                         "publish", "handSend", "handMark", "handFail",
                         "slotTime", "editRead", "editMark", "restore",
                         "collapse", "slots", "sweeping",
                         "resetEditing", "resetSending"}]
  /\ at \in [Callers -> Posts \cup {Nothing}]
  /\ todo \in [Callers -> SUBSET Posts]
  /\ saved \in [Callers -> SUBSET Row]
  /\ chans \in [Callers -> SUBSET Channels]
  /\ part \in {"editing", "sending"} /\ stuck \subseteq Posts
  /\ acts \in [Admins -> 0 .. MaxActs] /\ faults \in 0 .. MaxFaults
  /\ sent \in [Posts -> {Unsure} \cup 0 .. MaxSent]

Init ==
  /\ status = [i \in Posts |-> "absent"] /\ slot = [i \in Posts |-> "none"]
  /\ channel = ChannelOf /\ suggestion = {}
  /\ old = [i \in Posts |-> FALSE]
  /\ edit = [s \in Services |-> [a \in Admins |-> NoEdit]]
  /\ via = [a \in Admins |-> Nothing]
  /\ pc = [c \in Callers |-> "idle"] /\ at = [c \in Callers |-> Nothing]
  /\ todo = [c \in Callers |-> {}] /\ saved = [c \in Callers |-> {}]
  /\ chans = [c \in Callers |-> {}]
  /\ part = "editing" /\ stuck = {}
  /\ acts = [a \in Admins |-> 0] /\ faults = 0
  /\ sent = [i \in Posts |-> 0]

Batch(i)  == {j \in Posts : BatchOf[j] = BatchOf[i]}
Exists(i) == status[i] \notin {"absent", "deleted"}
Goto(c, p) == pc' = [pc EXCEPT ![c] = p]
Fault == faults < MaxFaults /\ faults' = faults + 1
NoFault == UNCHANGED faults
Disturb(S) == sent' = [i \in Posts |-> IF i \in S THEN Unsure ELSE sent[i]]

\* A call that has taken the post in hand and not yet written the outcome.
PublishesAt(c, i) ==
  at[c] = i /\ pc[c] \in {"send", "mark", "handSend", "handMark"}
InFlight(i) == \E c \in Callers : PublishesAt(c, i)

\* An UPDATE of the rows S that are still there.
SetRows(S, st, sl) ==
  LET T == {i \in S : Exists(i)}
  IN  /\ status' = [i \in Posts |-> IF i \in T THEN st ELSE status[i]]
      /\ slot'   = [i \in Posts |-> IF i \in T THEN sl ELSE slot[i]]
      /\ old'    = [i \in Posts |-> old[i] /\ i \notin T]

\* The same by id alone: it takes a row back from 'sending' or 'posted' too.
Overwrite(S, st, sl) ==
  /\ SetRows(S, st, sl)
  /\ Disturb({i \in S : status[i] \in {"sending", "posted"}})

-----------------------------------------------------------------------------
(***************************************************************************)
(* The scheduler: one tick at a time (the mutex inFlight).                 *)
(***************************************************************************)
Due == {i \in Posts : status[i] = "scheduled" /\ slot[i] = "due"}

TickReads ==
  /\ pc[Scheduler] = "idle" /\ Due # {}
  /\ todo' = [todo EXCEPT ![Scheduler] = Due]
  /\ Goto(Scheduler, "due")
  /\ UNCHANGED <<rowVars, editVars, at, saved, chans, sweepVars, acts, faults,
                 sent>>

\* The next round of its loop, or the end of the tick.
NextDue(rest) ==
  /\ at' = [at EXCEPT ![Scheduler] = Nothing]
  /\ Goto(Scheduler, IF rest = {} THEN "idle" ELSE "due")

CanClaimMutant(i) == TRUE
CanClaim(i) == status[i] = "scheduled"

\* UPDATE ... .eq('status', 'scheduled'); no row: the post is passed over.  The
\* reply to a claim that was written may be lost.
Claim(i) ==
  /\ pc[Scheduler] = "due" /\ i \in todo[Scheduler]
  /\ todo' = [todo EXCEPT ![Scheduler] = @ \ {i}]
  /\ \/ /\ CanClaim(i)
        /\ SetRows({i}, "sending", "none")
        /\ Disturb(IF InFlight(i) THEN {i} ELSE {})
        /\ \/ NoFault /\ Goto(Scheduler, "send") /\ at' = [at EXCEPT ![Scheduler] = i]
           \/ Fault /\ NextDue(todo[Scheduler] \ {i})
     \/ /\ ~CanClaim(i) /\ NoFault /\ NextDue(todo[Scheduler] \ {i})
        /\ UNCHANGED <<status, slot, old, sent>>
  /\ UNCHANGED <<channel, suggestion, editVars, saved, chans, sweepVars, acts>>

\* publishItem: the post is in the channel, Telegram refuses it, or it is there
\* and the reply is lost.
Publishes(c, posted, refused) ==
  LET i == at[c]
  IN  /\ \/ /\ NoFault /\ Goto(c, posted)
            /\ IF sent[i] = Unsure THEN UNCHANGED sent
               ELSE sent[i] < MaxSent /\ sent' = [sent EXCEPT ![i] = @ + 1]
         \/ NoFault /\ Goto(c, refused) /\ UNCHANGED sent
         \/ Fault /\ Goto(c, refused) /\ Disturb({i})
      /\ UNCHANGED <<rowVars, editVars, localVars, sweepVars, acts>>

Send == pc[Scheduler] = "send" /\ Publishes(Scheduler, "mark", "fail")

SendFloods ==
  /\ pc[Scheduler] = "send"
  /\ Goto(Scheduler, "flood")
  /\ UNCHANGED <<rowVars, editVars, localVars, sweepVars, acts, faults, sent>>

StillSending(i) == status[i] = "sending"

\* The outcome, written only where the claim still stands.
Records(p, st, sl) ==
  LET i == at[Scheduler]
  IN  /\ pc[Scheduler] = p
      /\ SetRows(IF StillSending(i) THEN {i} ELSE {}, st, sl)
      /\ NextDue(todo[Scheduler])
      /\ UNCHANGED <<channel, suggestion, editVars, todo, saved, chans, sweepVars,
                     acts, faults, sent>>

Mark  == Records("mark", "posted", "none")
Fail  == Records("fail", "failed", "none")
Flood == Records("flood", "scheduled", "later")

\* 'mark posted failed' is logged, and the post stays in 'sending'.
MarkFails ==
  /\ pc[Scheduler] = "mark" /\ Fault
  /\ NextDue(todo[Scheduler]) /\ Disturb({at[Scheduler]})
  /\ UNCHANGED <<rowVars, editVars, todo, saved, chans, sweepVars, acts>>
-----------------------------------------------------------------------------
(***************************************************************************)
(* collapseQueue, called by administrators and by the sweep: the scheduled *)
(* posts of a channel are put back in one call, its queued posts are read  *)
(* and get slots one by one (scheduleNextBatch).  The two passes, for the  *)
(* bot's own posts and for suggestions, are one here and its read is one   *)
(* with the call; the order of the slots is left out.                      *)
(***************************************************************************)
\* The next channel; then the sweep goes on with the next batch or ends its tick, and
\* an administrator's call ends.
NextChannel(c, rest) ==
  /\ Goto(c, IF rest # {} THEN "collapse"
             ELSE IF c = Sweep /\ part = "editing" THEN "sweeping" ELSE "idle")
  /\ at' = IF rest = {} THEN [at EXCEPT ![c] = Nothing] ELSE at
  /\ part' = IF c = Sweep /\ rest = {} THEN "editing" ELSE part

CollapseReset(c, ch) ==
  LET Scheduled == {i \in Posts : channel[i] = ch /\ status[i] = "scheduled"}
      Queued    == {i \in Posts : channel[i] = ch /\ status[i] = "queued"}
  IN  /\ pc[c] = "collapse" /\ ch \in chans[c]
      /\ SetRows(Scheduled, "queued", "none")
      /\ todo' = [todo EXCEPT ![c] = Scheduled \cup Queued]
      /\ chans' = [chans EXCEPT ![c] = @ \ {ch}]
      /\ IF Scheduled \cup Queued = {} THEN NextChannel(c, chans[c] \ {ch})
         ELSE Goto(c, "slots") /\ UNCHANGED <<at, part>>
      /\ UNCHANGED <<channel, suggestion, editVars, saved, stuck, acts, faults, sent>>

SlotWrites(c, i) ==
  /\ pc[c] = "slots" /\ i \in todo[c]
  /\ Overwrite({i}, "scheduled", "later")
  /\ todo' = [todo EXCEPT ![c] = @ \ {i}]
  /\ IF todo[c] = {i} THEN NextChannel(c, chans[c]) ELSE UNCHANGED <<pc, at, part>>
  /\ UNCHANGED <<channel, suggestion, editVars, saved, chans, stuck, acts, faults>>

\* getNextSlots throws, on a time zone it does not know: the sweep logs it and takes the
\* next channel; post_now writes its post off as failed; another call just ends.
CollapseThrows(c) ==
  /\ pc[c] = "slots" /\ Fault
  /\ todo' = [todo EXCEPT ![c] = {}]
  /\ IF c = Sweep THEN NextChannel(c, chans[c]) /\ UNCHANGED chans
     ELSE /\ chans' = [chans EXCEPT ![c] = {}]
          /\ Goto(c, IF at[c] = Nothing THEN "idle" ELSE "handFail")
          /\ UNCHANGED <<at, part>>
  /\ UNCHANGED <<rowVars, editVars, saved, stuck, acts, sent>>

Collapses(c) ==
  \/ CollapseThrows(c)
  \/ \E ch \in Channels : CollapseReset(c, ch)
  \/ \E i \in Posts : SlotWrites(c, i)
-----------------------------------------------------------------------------
(***************************************************************************)
(* The sweep, every minute.                                                *)
(***************************************************************************)
\* Somebody's open edit holds the batch, as far as the service s knows.
Held(s, i) == \E a \in Admins :
  edit[s][a].clicked # Nothing /\ i \in Batch(edit[s][a].clicked)

ForgottenMutant(i) == status[i] = "editing" /\ ~old[i]
Forgotten(i) == status[i] = "editing" /\ old[i]

LeaseOverMutant(i) == status[i] = "sending" /\ ~old[i]
LeaseOver(i) == status[i] = "sending" /\ old[i]

\* A tick that finds nothing does nothing.
SweepReads ==
  /\ pc[Sweep] = "idle"
  /\ \E i \in Posts : Forgotten(i) \/ LeaseOver(i)
  /\ stuck' = {i \in Posts : Forgotten(i)}
  /\ Goto(Sweep, "sweeping")
  /\ UNCHANGED <<rowVars, editVars, localVars, part, acts, faults, sent>>

\* A batch at a time, unless an administrator is at it in the server's own service: an
\* edit of a bot that the panel started is not seen.  Its rows are read again.
SweepBatch(i) ==
  LET S == {j \in Batch(i) : Forgotten(j)}
  IN  /\ pc[Sweep] = "sweeping" /\ i \in stuck
      /\ stuck' = stuck \ Batch(i)
      /\ \/ /\ Held(Server, i) \/ S = {}
            /\ UNCHANGED <<pc, todo>>
         \/ /\ ~Held(Server, i) /\ S # {}
            /\ todo' = [todo EXCEPT ![Sweep] = S]
            /\ Goto(Sweep, "resetEditing")
      /\ UNCHANGED <<rowVars, editVars, at, saved, chans, part, acts, faults,
                     sent>>

\* The reset itself, then the channels of the rows are collapsed.
Resets(p, S) ==
  /\ pc[Sweep] = p
  /\ SetRows(S, "queued", "none")
  /\ chans' = [chans EXCEPT ![Sweep] = {channel[i] : i \in todo[Sweep]}]
  /\ todo' = [todo EXCEPT ![Sweep] = {}]
  /\ Goto(Sweep, "collapse")
  /\ UNCHANGED <<channel, suggestion, editVars, at, saved, sweepVars, acts, faults>>

StillEditing(i) == status[i] = "editing"

ResetEditing ==
  /\ Resets("resetEditing", {i \in todo[Sweep] : StillEditing(i)})
  /\ UNCHANGED sent

\* The second part: posts claimed ten minutes ago or more.
SweepSending ==
  LET S == {i \in Posts : LeaseOver(i)}
  IN  /\ pc[Sweep] = "sweeping" /\ stuck = {}
      /\ IF S = {} THEN Goto(Sweep, "idle") /\ UNCHANGED <<todo, part>>
         ELSE /\ todo' = [todo EXCEPT ![Sweep] = S] /\ part' = "sending"
              /\ Goto(Sweep, "resetSending")
      /\ UNCHANGED <<rowVars, editVars, at, saved, chans, stuck, acts, faults,
                     sent>>

\* Guarded by the status: a post marked meanwhile is left alone.  A slow or an
\* unrecorded publication is not told from one that died.
CanResetMutant(i) == TRUE
CanReset(i) == status[i] = "sending"

ResetSending ==
  /\ Resets("resetSending", {i \in todo[Sweep] : CanReset(i)})
  /\ Disturb({i \in todo[Sweep] : status[i] = "sending" /\ (sent[i] # 0 \/ InFlight(i))})

SweepSteps ==
  \/ SweepReads \/ ResetEditing \/ SweepSending \/ ResetSending
  \/ \E i \in Posts : SweepBatch(i)
  \/ Collapses(Sweep)
-----------------------------------------------------------------------------
(***************************************************************************)
(* Administrators and guests.                                              *)
(***************************************************************************)
Starts(a) ==
  /\ pc[a] = "idle"
  /\ acts[a] < MaxActs /\ acts' = [acts EXCEPT ![a] = @ + 1] /\ NoFault

Collapse(a, C) ==
  /\ chans' = [chans EXCEPT ![a] = C]
  /\ Goto(a, IF C = {} THEN "idle" ELSE "collapse")

\* A handler answers the click first; an answer that throws ends it with no collapse.
AnswerThenCollapse(a, C) == Collapse(a, C) \/ Collapse(a, {})

\* addPostItem and what its callers do next: into the queue, for approval, for a
\* given time, or out at once.  A suggestion has one row and may be accepted at once.
Insert(a, i, S, st) ==
  /\ pc[a] = "idle" /\ \A j \in Batch(i) : status[j] = "absent"
  /\ status' = [j \in Posts |-> IF j \in S THEN st ELSE status[j]]
  /\ UNCHANGED <<slot, channel, old, editVars, at, saved, sweepVars, acts, faults, sent>>

InsertQueued(a, i) ==
  /\ Insert(a, i, Batch(i), "queued")
  /\ Collapse(a, {channel[j] : j \in Batch(i)})
  /\ UNCHANGED <<suggestion, todo>>

Suggest(a, i) ==
  /\ \/ /\ Insert(a, i, {i}, "suggested")
        /\ suggestion' = suggestion \cup {i} /\ UNCHANGED <<pc, chans>>
     \/ /\ Insert(a, i, {i}, "queued")
        /\ Collapse(a, {channel[i]}) /\ UNCHANGED suggestion
  /\ UNCHANGED todo

InsertTimed(a, i) ==
  /\ Insert(a, i, Batch(i), "scheduled")
  /\ todo' = [todo EXCEPT ![a] = Batch(i)]
  /\ Goto(a, "slotTime") /\ UNCHANGED <<suggestion, chans>>

InsertNow(a, i) ==
  /\ Insert(a, i, Batch(i), "queued")
  /\ todo' = [todo EXCEPT ![a] = Batch(i)]
  /\ Goto(a, "publish") /\ UNCHANGED <<suggestion, chans>>

\* create_post writes scheduled_at in a second call, whatever the rows are now.
SlotTime(a) ==
  LET T == {i \in todo[a] : Exists(i)}
  IN  /\ pc[a] = "slotTime"
      /\ slot' = [i \in Posts |-> IF i \in T /\ status[i] = "scheduled" THEN "later"
                            ELSE slot[i]]
      /\ old' = [i \in Posts |-> old[i] /\ i \notin T]
      /\ todo' = [todo EXCEPT ![a] = {}]
      /\ Goto(a, "idle")
      /\ UNCHANGED <<status, channel, suggestion, editVars, at, saved, chans,
                     sweepVars, acts, faults, sent>>

\* post_now reads the post and publishes that copy; sug_post_now does not look at
\* the status at all.
PostNow(a, i) ==
  /\ Starts(a) /\ Exists(i)
  /\ i \in suggestion \/ status[i] \notin {"posted", "sending"}
  /\ todo' = [todo EXCEPT ![a] = {i}]
  /\ chans' = [chans EXCEPT ![a] = {channel[i]}]
  /\ Goto(a, "publish")
  /\ UNCHANGED <<rowVars, editVars, at, saved, sweepVars, sent>>

\* No claim.  Two callers may be at one post, and a copy may be of a post that is
\* being sent, posted or deleted by now.
PublishNext(a, i) ==
  /\ pc[a] = "publish" /\ i \in todo[a]
  /\ todo' = [todo EXCEPT ![a] = @ \ {i}]
  /\ at' = [at EXCEPT ![a] = i]
  /\ Goto(a, "handSend")
  /\ Disturb(IF InFlight(i) \/ status[i] \notin NotYet THEN {i} ELSE {})
  /\ UNCHANGED <<rowVars, editVars, saved, chans, sweepVars, acts, faults>>

HandSend(a) == pc[a] = "handSend" /\ Publishes(a, "handMark", "handFail")

\* The next channel of create_post, or the end.
NextByHand(a) ==
  /\ at' = [at EXCEPT ![a] = Nothing]
  /\ Goto(a, IF todo[a] # {} THEN "publish" ELSE "idle")

\* post_now, which has a channel to collapse, answers the click and collapses inside the
\* try of the publication: an answer that throws (the query is too old) is taken for a
\* publication that failed.
AfterMark(a) ==
  IF chans[a] = {} THEN NextByHand(a)
  ELSE (Goto(a, "collapse") \/ Goto(a, "handFail")) /\ UNCHANGED at

\* 'posted' by id alone; an error of this write is logged.
HandMark(a) ==
  /\ pc[a] = "handMark"
  /\ \/ SetRows({at[a]}, "posted", "none") /\ NoFault /\ UNCHANGED sent
     \/ Fault /\ Disturb({at[a]}) /\ UNCHANGED <<status, slot, old>>
  /\ AfterMark(a)
  /\ UNCHANGED <<channel, suggestion, editVars, todo, saved, chans, sweepVars, acts>>

\* The catch: 'failed' by id alone, over 'posted' too.  post_now does not collapse then.
HandFail(a) ==
  /\ pc[a] = "handFail"
  /\ Overwrite({at[a]}, "failed", "none")
  /\ chans' = [chans EXCEPT ![a] = {}]
  /\ NextByHand(a)
  /\ UNCHANGED <<channel, suggestion, editVars, todo, saved, sweepVars, acts, faults>>

Approve(a, i) ==
  /\ Starts(a) /\ i \in suggestion /\ Exists(i)
  /\ Overwrite({i}, "queued", "none")
  /\ AnswerThenCollapse(a, {channel[i]})
  /\ UNCHANGED <<channel, suggestion, editVars, at, todo, saved, sweepVars>>

Move(a, i) ==
  /\ Starts(a) /\ Exists(i)
  /\ \E ch \in Channels \ {channel[i]} :
       /\ channel' = [channel EXCEPT ![i] = ch]
       /\ AnswerThenCollapse(a, {channel[i], ch})
  /\ Overwrite({i}, "queued", "none")
  /\ UNCHANGED <<suggestion, editVars, at, todo, saved, sweepVars>>

\* The rows of the batch that still wait.
DeleteQueued(a, i) ==
  LET S == {j \in Batch(i) : status[j] \in Queue}
  IN  /\ Starts(a) /\ Exists(i)
      /\ SetRows(S, "deleted", "none")
      /\ AnswerThenCollapse(a, {channel[j] : j \in S})
      /\ UNCHANGED <<channel, suggestion, editVars, at, todo, saved, sweepVars,
                     sent>>

\* sug_reject and the panel's DELETE: the row, whatever its status.
Remove(a, i) ==
  /\ Starts(a) /\ Exists(i)
  /\ SetRows({i}, "deleted", "none")
  /\ UNCHANGED <<channel, suggestion, editVars, pc, localVars, sweepVars, sent>>
-----------------------------------------------------------------------------
(***************************************************************************)
(* The edit of a caption: the rows of the batch that wait are put into     *)
(* 'editing', and back as they were when the text comes or when the        *)
(* administrator clicks another post.  Between two calls the bot may have  *)
(* been stopped and started, by the panel, the scheduler or a tool: the    *)
(* handlers, and the edits they know of, are then those of the service s   *)
(* that started it.                                                        *)
(***************************************************************************)
EditClick(a, i, s) ==
  /\ Starts(a) /\ Exists(i)
  /\ at' = [at EXCEPT ![a] = i] /\ via' = [via EXCEPT ![a] = s]
  /\ IF edit[s][a].clicked \in {Nothing, i}
       THEN Goto(a, "editRead") /\ UNCHANGED saved
       ELSE Goto(a, "restore") /\ saved' = [saved EXCEPT ![a] = edit[s][a].rows]
  /\ UNCHANGED <<rowVars, edit, todo, chans, sweepVars, sent>>

EditText(a, s) ==
  /\ pc[a] = "idle" /\ edit[s][a] # NoEdit
  /\ edit' = [edit EXCEPT ![s][a] = NoEdit]
  /\ saved' = [saved EXCEPT ![a] = edit[s][a].rows]
  /\ Goto(a, "restore")
  /\ UNCHANGED <<rowVars, via, at, todo, chans, sweepVars, acts, faults, sent>>

\* A row at a time, by id alone.
Restore(a, r) ==
  /\ pc[a] = "restore" /\ r \in saved[a]
  /\ Overwrite({r.post}, r.status, r.slot)
  /\ saved' = [saved EXCEPT ![a] = @ \ {r}]
  /\ IF saved[a] # {r} THEN UNCHANGED <<pc, edit>>
     ELSE IF at[a] = Nothing THEN Goto(a, "idle") /\ UNCHANGED edit
     ELSE Goto(a, "editRead") /\ edit' = [edit EXCEPT ![via[a]][a] = NoEdit]
  /\ UNCHANGED <<channel, suggestion, via, at, todo, chans, sweepVars, acts, faults>>

\* Refused while anybody holds the batch, and when none of it waits.
PrevStatusMutant(i) == status[i]
PrevStatus(i) == IF status[i] = "editing" THEN "queued" ELSE status[i]

Waiting(i) == {j \in Batch(i) : status[j] \in Queue}

EditRead(a) ==
  LET i == at[a]
  IN  /\ pc[a] = "editRead"
      /\ \/ /\ Held(via[a], i) \/ Waiting(i) = {} \/ ~Exists(i)
            /\ at' = [at EXCEPT ![a] = Nothing] /\ via' = [via EXCEPT ![a] = Nothing]
            /\ Goto(a, "idle") /\ UNCHANGED saved
         \/ /\ ~Held(via[a], i) /\ Waiting(i) # {} /\ Exists(i)
            /\ saved' = [saved EXCEPT ![a] =
                 {[post |-> j, status |-> PrevStatus(j),
                   slot |-> IF slot[j] = "none" THEN "none" ELSE "later"] :
                    j \in Waiting(i)}]
            /\ Goto(a, "editMark") /\ UNCHANGED <<at, via>>
      /\ UNCHANGED <<rowVars, edit, todo, chans, sweepVars, acts, faults,
                     sent>>

EditMark(a) ==
  /\ pc[a] = "editMark"
  /\ Overwrite({r.post : r \in saved[a]}, "editing", "none")
  /\ edit' = [edit EXCEPT ![via[a]][a] = [clicked |-> at[a], rows |-> saved[a]]]
  /\ via' = [via EXCEPT ![a] = Nothing]
  /\ at' = [at EXCEPT ![a] = Nothing] /\ saved' = [saved EXCEPT ![a] = {}]
  /\ Goto(a, "idle")
  /\ UNCHANGED <<channel, suggestion, todo, chans, sweepVars, acts, faults>>

\* Another dialog of the administrator takes the entry of adminStates.
DialogReplaces(a, s) ==
  /\ pc[a] = "idle" /\ edit[s][a] # NoEdit
  /\ edit' = [edit EXCEPT ![s][a] = NoEdit]
  /\ UNCHANGED <<rowVars, via, pc, localVars, sweepVars, acts, faults, sent>>
-----------------------------------------------------------------------------
\* The process restarts: every call and every open edit is gone.
Crash ==
  /\ Fault
  /\ edit' = [s \in Services |-> [a \in Admins |-> NoEdit]]
  /\ via' = [a \in Admins |-> Nothing]
  /\ pc' = [c \in Callers |-> "idle"] /\ at' = [c \in Callers |-> Nothing]
  /\ todo' = [c \in Callers |-> {}] /\ saved' = [c \in Callers |-> {}]
  /\ chans' = [c \in Callers |-> {}]
  /\ part' = "editing" /\ stuck' = {}
  /\ Disturb({at[a] : a \in {b \in Admins : pc[b] = "handMark"}})
  /\ UNCHANGED <<rowVars, acts>>

SlotComes(i) ==
  /\ slot[i] = "later" /\ status[i] = "scheduled"
  /\ slot' = [slot EXCEPT ![i] = "due"]
  /\ UNCHANGED <<status, channel, suggestion, old, editVars, pc, localVars, sweepVars, acts,
                 faults, sent>>

Ages(i) ==
  /\ ~old[i] /\ status[i] \in {"editing", "sending"}
  /\ old' = [old EXCEPT ![i] = TRUE]
  /\ UNCHANGED <<status, slot, channel, suggestion, editVars, pc, localVars, sweepVars, acts,
                 faults, sent>>

SchedulerSteps ==
  \/ TickReads \/ Send \/ SendFloods
  \/ Mark \/ Fail \/ Flood \/ MarkFails
  \/ \E i \in Posts : Claim(i)

AdminSteps(a) ==
  \/ \E i \in Posts :
       \/ InsertQueued(a, i) \/ Suggest(a, i) \/ InsertTimed(a, i)
       \/ InsertNow(a, i) \/ PostNow(a, i) \/ PublishNext(a, i)
       \/ Approve(a, i) \/ Move(a, i) \/ DeleteQueued(a, i) \/ Remove(a, i)
  \/ SlotTime(a) \/ HandSend(a) \/ HandMark(a) \/ HandFail(a)
  \/ EditRead(a) \/ EditMark(a) \/ Collapses(a)
  \/ \E s \in Services : EditText(a, s) \/ DialogReplaces(a, s)
  \/ \E s \in Services, i \in Posts : EditClick(a, i, s)
  \/ \E r \in saved[a] : Restore(a, r)

Next ==
  \/ SchedulerSteps \/ SweepSteps \/ Crash
  \/ \E a \in Admins : AdminSteps(a)
  \/ \E i \in Posts : SlotComes(i) \/ Ages(i)

\* The sweep's job ticks every minute and no call in it may be waited for without
\* end; nothing is asked of the scheduler or of the administrators.
Spec ==
  /\ Init /\ [][Next]_vars
  /\ WF_vars(SweepSteps)
  /\ \A i \in Posts : WF_vars(Ages(i))
-----------------------------------------------------------------------------
(***************************************************************************)
(* Properties.                                                             *)
(***************************************************************************)
\* A post that no unguarded write, no second publication and no lost record met is
\* published once, whatever the sweep, the collapses and restarts do meanwhile: the
\* scheduler claims by status, and the sweep takes back only what is still 'sending'.
\* Excepted with the unguarded writes is the catch of post_now, which writes 'failed' over
\* 'posted' when the answer or the collapse throws: post_now takes such a post again.
PublishedOnce == \A i \in Posts : sent[i] \in {Unsure, 0, 1}

\* What the queue says of such a post is true of the channel: what is marked posted
\* is there, and what waits, or is shown as failed, is not, so that publishing it
\* later or by hand does not double it.
ByHand(i) == \E a \in Admins : pc[a] = "handMark" /\ at[a] = i
QueueAgrees == \A i \in Posts : sent[i] # Unsure =>
  /\ status[i] = "posted" => sent[i] = 1
  /\ status[i] \in NotYet /\ ~ByHand(i) => sent[i] = 0

\* A post does not stay in 'sending', not even when the scheduler died after the claim
\* or could not write the outcome.
SendingEnds == \A i \in Posts : status[i] = "sending" ~> status[i] # "sending"

\* A post does not stay in 'editing' once no edit in the server's service holds its
\* batch: after a restart, after another dialog took the entry, when the restore stopped
\* halfway, or when the bot and its edits are another service's.
AbandonedEditEnds == \A i \in Posts :
  status[i] = "editing" /\ ~Held(Server, i) ~> status[i] # "editing" \/ Held(Server, i)
=============================================================================
