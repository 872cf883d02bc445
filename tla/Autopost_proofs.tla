---------------------------- MODULE Autopost_proofs ----------------------------
(***************************************************************************)
(* Proofs about Autopost, for any posts, batches, channels, administrators *)
(* and any bounds: a post that no unguarded write met is published once,   *)
(* and what the queue says of it is true of the channel.                   *)
(***************************************************************************)
EXTENDS Autopost, TLAPS

USE AutopostConstants DEF Callers, Goto, Fault, NoFault,
    rowVars, editVars, localVars, sweepVars

\* The calls of the scheduler, of the sweep and of administrators are never in
\* each other's places.
RolesOK ==
  /\ pc[Scheduler] \in {"idle", "due", "send", "mark", "fail", "flood"}
  /\ pc[Sweep] \in {"idle", "sweeping", "resetEditing", "resetSending",
                    "collapse", "slots"}
  /\ \A a \in Admins :
       pc[a] \in {"idle", "publish", "handSend", "handMark", "handFail",
                  "slotTime", "editRead", "editMark", "restore", "collapse",
                  "slots"}

\* The types of the rows, and of the calls.
RowTyped ==
  /\ status \in [Posts -> Status] /\ slot \in [Posts -> Slot]
  /\ channel \in [Posts -> Channels] /\ suggestion \subseteq Posts
  /\ old \in [Posts -> BOOLEAN]
  /\ sent \in [Posts -> {Unsure} \cup 0 .. MaxSent]
CallTyped ==
  /\ pc \in [Callers -> {"idle", "due", "send", "mark", "fail", "flood",
                         "publish", "handSend", "handMark", "handFail",
                         "slotTime", "editRead", "editMark", "restore",
                         "collapse", "slots", "sweeping",
                         "resetEditing", "resetSending"}]
  /\ at \in [Callers -> Posts \cup {Nothing}]
  /\ todo \in [Callers -> SUBSET Posts]
  /\ saved \in [Callers -> SUBSET Row]
  /\ chans \in [Callers -> SUBSET Channels]
  /\ part \in {"editing", "sending"} /\ stuck \subseteq Posts
  /\ acts \in [Admins -> 0 .. MaxActs] /\ faults \in 0 .. MaxFaults

\* The entries of adminStates.
Edit == [clicked : Posts \cup {Nothing}, rows : SUBSET Row]
EditsTyped ==
  /\ edit \in [Services -> [Admins -> Edit]]
  /\ via \in [Admins -> Services \cup {Nothing}]

TypedInv == RowTyped /\ CallTyped /\ EditsTyped /\ RolesOK

LEMMA TypedInit == Init => TypedInv
<1> SUFFICES ASSUME Init PROVE RowTyped /\ CallTyped /\ EditsTyped /\ RolesOK
  BY DEF TypedInv
<1>1. RowTyped
  BY DEF Init, RowTyped, Status, Queue, Slot
<1>2. CallTyped /\ RolesOK
  BY DEF Init, CallTyped, RolesOK, Nothing
<1>3. EditsTyped
  BY DEF Init, EditsTyped, Edit, NoEdit
<1>4. QED
  BY <1>1, <1>2, <1>3

\* An UPDATE writes a status and a slot.
LEMMA SetRowsTyped ==
  ASSUME RowTyped, NEW S, NEW st \in Status, NEW sl \in Slot, SetRows(S, st, sl)
  PROVE  /\ status' \in [Posts -> Status] /\ slot' \in [Posts -> Slot]
         /\ old' \in [Posts -> BOOLEAN]
<1>1. status' \in [Posts -> Status] /\ slot' \in [Posts -> Slot]
  BY DEF SetRows, RowTyped
<1>2. old' \in [Posts -> BOOLEAN]
  BY Zenon DEF SetRows, RowTyped
<1>3. QED
  BY <1>1, <1>2

LEMMA DisturbTyped ==
  ASSUME RowTyped, NEW S, Disturb(S)
  PROVE  sent' \in [Posts -> {Unsure} \cup 0 .. MaxSent]
  BY DEF Disturb, RowTyped

\* So does a write by id, whose rows and posts keep their channels.
LEMMA OverwriteTyped ==
  ASSUME RowTyped, NEW S, NEW st \in Status, NEW sl \in Slot, Overwrite(S, st, sl),
         UNCHANGED <<channel, suggestion>>
  PROVE  RowTyped'
<1>1. SetRows(S, st, sl)
  BY DEF Overwrite
<1>2. sent' \in [Posts -> {Unsure} \cup 0 .. MaxSent]
  BY DisturbTyped DEF Overwrite
<1>3. QED
  BY <1>1, <1>2, SetRowsTyped DEF RowTyped

LEMMA InsertTyped ==
  ASSUME RowTyped, NEW a, NEW i \in Posts, NEW S, NEW st \in Status, Insert(a, i, S, st),
         suggestion' = suggestion \/ suggestion' = suggestion \cup {i}
  PROVE  RowTyped'
  BY DEF Insert, RowTyped

LEMMA PublishesTyped ==
  ASSUME TypedInv, NEW c \in Callers, NEW p, NEW q, Publishes(c, p, q)
  PROVE  RowTyped'
<1>1. CASE Disturb({at[c]})
  BY <1>1, DisturbTyped DEF Publishes, RowTyped, TypedInv
<1>2. CASE sent' = sent
  BY <1>2 DEF Publishes, RowTyped, TypedInv
<1>3. CASE sent[at[c]] < MaxSent /\ sent[at[c]] # Unsure
           /\ sent' = [sent EXCEPT ![at[c]] = @ + 1]
  <2>1. sent \in [Posts -> {Unsure} \cup 0 .. MaxSent]
    BY DEF TypedInv, RowTyped
  <2>2. CASE at[c] \in Posts
    <3>1. sent[at[c]] + 1 \in 0 .. MaxSent
      BY <1>3, <2>1, <2>2 DEF Unsure
    <3>2. QED
      BY <1>3, <2>1, <3>1 DEF Publishes, RowTyped, TypedInv
  <2>3. CASE at[c] \notin Posts
    BY <1>3, <2>1, <2>3 DEF Publishes, RowTyped, TypedInv
  <2>4. QED
    BY <2>2, <2>3
<1>4. QED
  BY <1>1, <1>2, <1>3 DEF Publishes

LEMMA RowStep == TypedInv /\ [Next]_vars => RowTyped'
<1> SUFFICES ASSUME TypedInv, [Next]_vars PROVE RowTyped'
  OBVIOUS
<1> USE DEF Status, Queue, Slot
<1>1. ASSUME UNCHANGED <<rowVars, sent>> PROVE RowTyped'
  BY <1>1 DEF TypedInv, RowTyped
<1>2. ASSUME NEW i \in Posts, Claim(i) PROVE RowTyped'
  <2>1. CASE CanClaim(i)
    BY <1>2, <2>1, SetRowsTyped, DisturbTyped DEF Claim, TypedInv, RowTyped
  <2>2. CASE ~CanClaim(i)
    BY <1>1, <1>2, <2>2 DEF Claim
  <2>3. QED
    BY <2>1, <2>2
<1>3. ASSUME Send PROVE RowTyped'
  BY <1>3, PublishesTyped DEF Send
<1>4. ASSUME Mark \/ Fail \/ Flood PROVE RowTyped'
  <2>1. ASSUME NEW p, NEW st \in Status, NEW sl \in Slot, Records(p, st, sl)
        PROVE  RowTyped'
    BY <2>1, SetRowsTyped DEF Records, TypedInv, RowTyped
  <2>2. QED
    BY <1>4, <2>1 DEF Mark, Fail, Flood
<1>5. ASSUME MarkFails PROVE RowTyped'
  BY <1>5, DisturbTyped DEF MarkFails, TypedInv, RowTyped
<1>6. ASSUME NEW c \in Callers, Collapses(c) PROVE RowTyped'
  <2>1. ASSUME NEW ch \in Channels, CollapseReset(c, ch) PROVE RowTyped'
    BY <2>1, SetRowsTyped DEF CollapseReset, TypedInv, RowTyped
  <2>2. ASSUME NEW i \in Posts, SlotWrites(c, i) PROVE RowTyped'
    BY <2>2, OverwriteTyped DEF SlotWrites, TypedInv
  <2>3. QED
    BY <1>1, <1>6, <2>1, <2>2 DEF Collapses, CollapseThrows
<1>7. ASSUME ResetEditing PROVE RowTyped'
  BY <1>7, SetRowsTyped DEF ResetEditing, Resets, TypedInv, RowTyped
<1>8. ASSUME ResetSending PROVE RowTyped'
  BY <1>8, SetRowsTyped, DisturbTyped DEF ResetSending, Resets, TypedInv, RowTyped
<1>9. ASSUME Crash PROVE RowTyped'
  BY <1>9, DisturbTyped DEF Crash, TypedInv, RowTyped
<1>10. ASSUME NEW i \in Posts, SlotComes(i) \/ Ages(i) PROVE RowTyped'
  <2>1. /\ slot' \in [Posts -> Slot]
        /\ UNCHANGED <<status, channel, suggestion, sent>>
    BY <1>10 DEF SlotComes, Ages, TypedInv, RowTyped
  <2>2. old' \in [Posts -> BOOLEAN]
    BY <1>10, Zenon DEF SlotComes, Ages, TypedInv, RowTyped
  <2>3. QED
    BY <2>1, <2>2 DEF TypedInv, RowTyped
<1>11. ASSUME NEW a \in Admins, NEW i \in Posts,
              InsertQueued(a, i) \/ Suggest(a, i) \/ InsertTimed(a, i) \/ InsertNow(a, i)
       PROVE  RowTyped'
  <2>1. suggestion' = suggestion \/ suggestion' = suggestion \cup {i}
    BY <1>11 DEF InsertQueued, Suggest, InsertTimed, InsertNow
  <2>2. ASSUME NEW S, NEW st \in Status, Insert(a, i, S, st) PROVE RowTyped'
    BY <2>1, <2>2, InsertTyped DEF TypedInv
  <2>3. QED
    BY <1>11, <2>2 DEF InsertQueued, Suggest, InsertTimed, InsertNow
<1>12. ASSUME NEW a \in Admins, NEW i \in Posts, PublishNext(a, i) PROVE RowTyped'
  BY <1>12, DisturbTyped DEF PublishNext, TypedInv, RowTyped
<1>13. ASSUME NEW a \in Admins, NEW i \in Posts, Approve(a, i) PROVE RowTyped'
  BY <1>13, OverwriteTyped DEF Approve, TypedInv
<1>14. ASSUME NEW a \in Admins, NEW i \in Posts, Move(a, i) PROVE RowTyped'
  <2>1. channel' \in [Posts -> Channels] /\ suggestion' = suggestion
    BY <1>14 DEF Move, TypedInv, RowTyped
  <2>2. SetRows({i}, "queued", "none") /\ Disturb({j \in {i} : status[j] \in {"sending", "posted"}})
    BY <1>14 DEF Move, Overwrite
  <2>3. QED
    BY <2>1, <2>2, SetRowsTyped, DisturbTyped DEF TypedInv, RowTyped
<1>15. ASSUME NEW a \in Admins, NEW i \in Posts, DeleteQueued(a, i) \/ Remove(a, i)
       PROVE  RowTyped'
  BY <1>15, SetRowsTyped DEF DeleteQueued, Remove, TypedInv, RowTyped
<1>16. ASSUME NEW a \in Admins, SlotTime(a) PROVE RowTyped'
  <2>1. slot' \in [Posts -> Slot] /\ UNCHANGED <<status, channel, suggestion, sent>>
    BY <1>16 DEF SlotTime, TypedInv, RowTyped
  <2>2. old' \in [Posts -> BOOLEAN]
    BY <1>16, Zenon DEF SlotTime, TypedInv, RowTyped
  <2>3. QED
    BY <2>1, <2>2 DEF TypedInv, RowTyped
<1>17. ASSUME NEW a \in Admins, HandSend(a) PROVE RowTyped'
  BY <1>17, PublishesTyped DEF HandSend
<1>18. ASSUME NEW a \in Admins, HandMark(a) PROVE RowTyped'
  BY <1>18, SetRowsTyped, DisturbTyped DEF HandMark, TypedInv, RowTyped
<1>19. ASSUME NEW a \in Admins, NEW r \in saved[a], Restore(a, r) PROVE RowTyped'
  <2>1. r.status \in Status /\ r.slot \in Slot
    BY DEF TypedInv, CallTyped, Row
  <2>2. QED
    BY <1>19, <2>1, OverwriteTyped DEF Restore, TypedInv
<1>20. ASSUME NEW a \in Admins, EditMark(a) \/ HandFail(a) PROVE RowTyped'
  BY <1>20, OverwriteTyped DEF EditMark, HandFail, TypedInv
<1>21. ASSUME NEW a \in Admins, AdminSteps(a) PROVE RowTyped'
  <2>1. ASSUME NEW i \in Posts, NEW s \in Services, PostNow(a, i) \/ EditClick(a, i, s)
        PROVE  RowTyped'
    BY <1>1, <2>1 DEF PostNow, EditClick
  <2>2. ASSUME NEW s \in Services, EditText(a, s) \/ EditRead(a) \/ DialogReplaces(a, s)
        PROVE  RowTyped'
    BY <1>1, <2>2 DEF EditText, EditRead, DialogReplaces
  <2>3. QED
    BY <1>6, <1>11, <1>12, <1>13, <1>14, <1>15, <1>16, <1>17, <1>18, <1>19, <1>20,
       <1>21, <2>1, <2>2 DEF AdminSteps, Services
<1>22. ASSUME SchedulerSteps PROVE RowTyped'
  <2>1. ASSUME TickReads \/ SendFloods PROVE RowTyped'
    BY <1>1, <2>1 DEF TickReads, SendFloods
  <2>2. QED
    BY <1>2, <1>3, <1>4, <1>5, <1>22, <2>1 DEF SchedulerSteps
<1>23. ASSUME SweepSteps PROVE RowTyped'
  <2>1. ASSUME SweepReads \/ SweepSending \/ \E i \in Posts : SweepBatch(i)
        PROVE  RowTyped'
    BY <1>1, <2>1 DEF SweepReads, SweepSending, SweepBatch
  <2>2. QED
    BY <1>6, <1>7, <1>8, <1>23, <2>1 DEF SweepSteps
<1>24. CASE UNCHANGED vars
  BY <1>1, <1>24 DEF vars
<1>25. QED
  BY <1>9, <1>10, <1>21, <1>22, <1>23, <1>24 DEF Next

\* A call that goes on, or ends, in a place of its own.
LEMMA NextChannelTyped ==
  ASSUME CallTyped, RolesOK, NEW c \in Admins \cup {Sweep}, NEW rest, NextChannel(c, rest)
  PROVE  /\ part' \in {"editing", "sending"}
         /\ at' = at \/ at' = [at EXCEPT ![c] = Nothing]
         /\ pc' = [pc EXCEPT ![c] = pc'[c]]
         /\ pc'[c] \in {"collapse", "sweeping", "idle"}
         /\ pc'[c] = "sweeping" => c = Sweep
         /\ c \in Admins => pc'[c] \in {"collapse", "idle"}
  BY DEF NextChannel, CallTyped

LEMMA EditsStep == TypedInv /\ [Next]_vars => EditsTyped'
<1> SUFFICES ASSUME TypedInv, [Next]_vars PROVE EditsTyped'
  OBVIOUS
<1>1. EditsTyped
  BY DEF TypedInv
<1>2. NoEdit \in Edit
  BY DEF NoEdit, Edit
<1>3. ASSUME NEW a, NEW s, NEW e \in Edit, edit' = [edit EXCEPT ![s][a] = e]
      PROVE  edit' \in [Services -> [Admins -> Edit]]
  BY <1>1, <1>3 DEF EditsTyped
<1>4. CASE UNCHANGED editVars
  BY <1>1, <1>4 DEF EditsTyped
<1>5. CASE Crash
  BY <1>2, <1>5 DEF Crash, EditsTyped
<1>6. ASSUME NEW a \in Admins, NEW i \in Posts, NEW s \in Services, EditClick(a, i, s)
      PROVE  EditsTyped'
  BY <1>1, <1>6 DEF EditClick, EditsTyped
<1>7. ASSUME NEW a \in Admins, NEW s \in Services, EditText(a, s) \/ DialogReplaces(a, s)
      PROVE  EditsTyped'
  BY <1>1, <1>2, <1>3, <1>7 DEF EditText, DialogReplaces, EditsTyped
<1>8. ASSUME NEW a \in Admins, EditRead(a) PROVE EditsTyped'
  BY <1>1, <1>8 DEF EditRead, EditsTyped
<1>9. ASSUME NEW a \in Admins, EditMark(a) PROVE EditsTyped'
  <2>1. [clicked |-> at[a], rows |-> saved[a]] \in Edit
    BY DEF TypedInv, CallTyped, Edit
  <2>2. QED
    BY <1>1, <1>3, <1>9, <2>1 DEF EditMark, EditsTyped
<1>10. ASSUME NEW a \in Admins, NEW r \in saved[a], Restore(a, r) PROVE EditsTyped'
  BY <1>1, <1>2, <1>3, <1>10 DEF Restore, EditsTyped
<1>11. CASE SchedulerSteps
  BY <1>4, <1>11
     DEF SchedulerSteps, TickReads, Send, SendFloods, Mark, Fail, Flood, MarkFails, Claim,
         Publishes, Records
<1>12. ASSUME NEW c, Collapses(c) PROVE EditsTyped'
  BY <1>4, <1>12 DEF Collapses, CollapseThrows, CollapseReset, SlotWrites
<1>13. CASE SweepSteps
  BY <1>4, <1>12, <1>13
     DEF SweepSteps, SweepReads, ResetEditing, SweepSending, ResetSending, Resets, SweepBatch
<1>14. ASSUME NEW a \in Admins, AdminSteps(a) PROVE EditsTyped'
  <2>1. ASSUME NEW i \in Posts,
               \/ InsertQueued(a, i) \/ Suggest(a, i)
               \/ InsertTimed(a, i) \/ InsertNow(a, i)
        PROVE  EditsTyped'
    BY <1>4, <2>1 DEF InsertQueued, Suggest, InsertTimed, InsertNow, Insert
  <2>2. ASSUME NEW i \in Posts,
               \/ PostNow(a, i) \/ PublishNext(a, i) \/ Approve(a, i) \/ Move(a, i)
               \/ DeleteQueued(a, i) \/ Remove(a, i)
        PROVE  EditsTyped'
    BY <1>4, <2>2 DEF PostNow, PublishNext, Approve, Move, DeleteQueued, Remove
  <2>3. ASSUME SlotTime(a) \/ HandSend(a) \/ HandMark(a) \/ HandFail(a) PROVE EditsTyped'
    BY <1>4, <2>3 DEF SlotTime, HandSend, Publishes, HandMark, HandFail
  <2>4. QED
    BY <1>6, <1>7, <1>8, <1>9, <1>10, <1>12, <1>14, <2>1, <2>2, <2>3 DEF AdminSteps
<1>15. CASE \E i \in Posts : SlotComes(i) \/ Ages(i)
  BY <1>4, <1>15 DEF SlotComes, Ages
<1>16. CASE UNCHANGED vars
  BY <1>4, <1>16 DEF vars
<1>17. QED
  BY <1>5, <1>11, <1>13, <1>14, <1>15, <1>16 DEF Next

LEMMA CallStep == TypedInv /\ [Next]_vars => CallTyped' /\ RolesOK'
<1> SUFFICES ASSUME TypedInv, [Next]_vars PROVE CallTyped' /\ RolesOK'
  OBVIOUS
<1> USE DEF TypedInv
<1>1. ASSUME UNCHANGED <<pc, localVars, sweepVars, acts, faults>>
      PROVE  CallTyped' /\ RolesOK'
  BY <1>1 DEF CallTyped, RolesOK
<1>2. ASSUME TickReads \/ SendFloods PROVE CallTyped' /\ RolesOK'
  BY <1>2 DEF TickReads, SendFloods, Due, CallTyped, RolesOK
<1>3. ASSUME NEW i \in Posts, Claim(i) PROVE CallTyped' /\ RolesOK'
  BY <1>3 DEF Claim, NextDue, CallTyped, RolesOK
<1>4. ASSUME NEW c \in Callers, NEW p, NEW q, Publishes(c, p, q),
             \/ c = Scheduler /\ p = "mark" /\ q = "fail"
             \/ c \in Admins /\ p = "handMark" /\ q = "handFail"
      PROVE  CallTyped' /\ RolesOK'
  BY <1>4 DEF Publishes, CallTyped, RolesOK
<1>5. ASSUME NEW p, NEW st, NEW sl, Records(p, st, sl) PROVE CallTyped' /\ RolesOK'
  BY <1>5 DEF Records, NextDue, CallTyped, RolesOK
<1>6. ASSUME MarkFails PROVE CallTyped' /\ RolesOK'
  BY <1>6 DEF MarkFails, NextDue, CallTyped, RolesOK
<1>7. ASSUME NEW c \in Admins \cup {Sweep}, Collapses(c) PROVE CallTyped' /\ RolesOK'
  <2>1. ASSUME NEW ch \in Channels, CollapseReset(c, ch) PROVE CallTyped' /\ RolesOK'
    BY <2>1, NextChannelTyped DEF CollapseReset, CallTyped, RolesOK
  <2>2. ASSUME NEW i \in Posts, SlotWrites(c, i) PROVE CallTyped' /\ RolesOK'
    BY <2>2, NextChannelTyped DEF SlotWrites, CallTyped, RolesOK
  <2>3. ASSUME CollapseThrows(c) PROVE CallTyped' /\ RolesOK'
    <3>1. CASE c = Sweep
      BY <2>3, <3>1, NextChannelTyped DEF CollapseThrows, CallTyped, RolesOK
    <3>2. CASE c # Sweep
      BY <2>3, <3>2 DEF CollapseThrows, CallTyped, RolesOK
    <3>3. QED
      BY <3>1, <3>2
  <2>4. QED
    BY <1>7, <2>1, <2>2, <2>3 DEF Collapses
<1>8. ASSUME SweepReads \/ SweepSending \/ \E i \in Posts : SweepBatch(i)
      PROVE  CallTyped' /\ RolesOK'
  BY <1>8 DEF SweepReads, SweepSending, SweepBatch, Batch, CallTyped, RolesOK
<1>9. ASSUME NEW p, NEW S, Resets(p, S) PROVE CallTyped' /\ RolesOK'
  <2>1. {channel[i] : i \in todo[Sweep]} \subseteq Channels
    BY DEF RowTyped, CallTyped
  <2>2. QED
    BY <1>9, <2>1 DEF Resets, CallTyped, RolesOK
<1>10. ASSUME Crash PROVE CallTyped' /\ RolesOK'
  BY <1>10 DEF Crash, Nothing, CallTyped, RolesOK
<1>11. ASSUME NEW i \in Posts, SlotComes(i) \/ Ages(i) PROVE CallTyped' /\ RolesOK'
  BY <1>1, <1>11 DEF SlotComes, Ages
<1>12. ASSUME NEW a \in Admins, NEW i \in Posts,
              \/ InsertQueued(a, i) \/ Suggest(a, i)
              \/ InsertTimed(a, i) \/ InsertNow(a, i)
       PROVE  CallTyped' /\ RolesOK'
  <2>1. Batch(i) \subseteq Posts /\ {channel[j] : j \in Batch(i)} \subseteq Channels
        /\ {channel[i]} \subseteq Channels
    BY DEF Batch, RowTyped
  <2>2. ASSUME InsertQueued(a, i) PROVE CallTyped' /\ RolesOK'
    BY <2>1, <2>2 DEF InsertQueued, Insert, Collapse, CallTyped, RolesOK
  <2>3. ASSUME Suggest(a, i) PROVE CallTyped' /\ RolesOK'
    <3>1. CASE Insert(a, i, {i}, "suggested") /\ UNCHANGED <<pc, chans>>
      BY <2>3, <3>1 DEF Suggest, Insert, CallTyped, RolesOK
    <3>2. CASE Insert(a, i, {i}, "queued") /\ Collapse(a, {channel[i]})
      BY <2>1, <2>3, <3>2 DEF Suggest, Insert, Collapse, CallTyped, RolesOK
    <3>3. QED
      BY <2>3, <3>1, <3>2 DEF Suggest
  <2>4. ASSUME InsertTimed(a, i) PROVE CallTyped' /\ RolesOK'
    BY <2>1, <2>4 DEF InsertTimed, Insert, CallTyped, RolesOK
  <2>5. ASSUME InsertNow(a, i) PROVE CallTyped' /\ RolesOK'
    BY <2>1, <2>5 DEF InsertNow, Insert, CallTyped, RolesOK
  <2>6. QED
    BY <1>12, <2>2, <2>3, <2>4, <2>5
<1>13. ASSUME NEW a \in Admins, NEW i \in Posts, PostNow(a, i) \/ PublishNext(a, i)
       PROVE  CallTyped' /\ RolesOK'
  <2>1. {channel[i]} \subseteq Channels
    BY DEF RowTyped
  <2>2. ASSUME PostNow(a, i) PROVE CallTyped' /\ RolesOK'
    BY <2>1, <2>2 DEF PostNow, Starts, CallTyped, RolesOK
  <2>3. ASSUME PublishNext(a, i) PROVE CallTyped' /\ RolesOK'
    BY <2>3 DEF PublishNext, CallTyped, RolesOK
  <2>4. QED
    BY <1>13, <2>2, <2>3
<1>14. ASSUME NEW a \in Admins, NEW i \in Posts,
              Approve(a, i) \/ Move(a, i) \/ DeleteQueued(a, i)
       PROVE  CallTyped' /\ RolesOK'
  <2>1. ASSUME NEW C \in SUBSET Channels,
               Starts(a) /\ AnswerThenCollapse(a, C),
               UNCHANGED <<at, todo, saved, sweepVars>>
        PROVE  CallTyped' /\ RolesOK'
    BY <2>1 DEF Starts, AnswerThenCollapse, Collapse, CallTyped, RolesOK
  <2>2. {channel[i]} \in SUBSET Channels
        /\ \A ch \in Channels : {channel[i], ch} \in SUBSET Channels
        /\ {channel[j] : j \in {k \in Batch(i) : status[k] \in Queue}} \in SUBSET Channels
    BY DEF Batch, RowTyped
  <2>3. ASSUME Approve(a, i) PROVE CallTyped' /\ RolesOK'
    BY <2>1, <2>2, <2>3 DEF Approve
  <2>4. ASSUME Move(a, i) PROVE CallTyped' /\ RolesOK'
    BY <2>1, <2>2, <2>4 DEF Move
  <2>5. ASSUME DeleteQueued(a, i) PROVE CallTyped' /\ RolesOK'
    BY <2>1, <2>2, <2>5 DEF DeleteQueued
  <2>6. QED
    BY <1>14, <2>3, <2>4, <2>5
<1>15. ASSUME NEW a \in Admins, NEW i \in Posts, NEW s \in Services,
              Remove(a, i) \/ EditClick(a, i, s)
       PROVE  CallTyped' /\ RolesOK'
  <2>1. ASSUME Remove(a, i) PROVE CallTyped' /\ RolesOK'
    BY <2>1 DEF Remove, Starts, CallTyped, RolesOK
  <2>2. ASSUME EditClick(a, i, s) PROVE CallTyped' /\ RolesOK'
    <3>1. saved' = saved \/ saved' = [saved EXCEPT ![a] = edit[s][a].rows]
      BY <2>2 DEF EditClick
    <3>2. saved' \in [Callers -> SUBSET Row]
      BY <3>1 DEF CallTyped, EditsTyped, Edit
    <3>3. \E p \in {"editRead", "restore"} : pc' = [pc EXCEPT ![a] = p]
      BY <2>2 DEF EditClick
    <3>4. acts' \in [Admins -> 0 .. MaxActs] /\ faults' = faults
      BY <2>2 DEF EditClick, Starts, CallTyped
    <3>5. at' = [at EXCEPT ![a] = i] /\ UNCHANGED <<todo, chans, sweepVars>>
      BY <2>2 DEF EditClick
    <3>6. QED
      BY <3>2, <3>3, <3>4, <3>5 DEF CallTyped, RolesOK
  <2>3. QED
    BY <1>15, <2>1, <2>2
<1>16. ASSUME NEW a \in Admins, SlotTime(a) PROVE CallTyped' /\ RolesOK'
  BY <1>16 DEF SlotTime, CallTyped, RolesOK
<1>17. ASSUME NEW a \in Admins, HandMark(a) \/ HandFail(a) PROVE CallTyped' /\ RolesOK'
  <2>1. ASSUME NextByHand(a) PROVE /\ pc' = [pc EXCEPT ![a] = pc'[a]]
                                  /\ pc'[a] \in {"publish", "idle"}
                                  /\ at' = [at EXCEPT ![a] = Nothing]
    BY <2>1 DEF NextByHand, CallTyped
  <2>2. ASSUME HandMark(a) PROVE CallTyped' /\ RolesOK'
    <3>1. /\ \E p \in {"publish", "idle", "collapse", "handFail"} : pc' = [pc EXCEPT ![a] = p]
          /\ at' = at \/ at' = [at EXCEPT ![a] = Nothing]
      BY <2>2 DEF HandMark, AfterMark, NextByHand
    <3>2. (faults' = faults \/ (faults < MaxFaults /\ faults' = faults + 1))
          /\ UNCHANGED <<todo, saved, chans, sweepVars, acts>>
      BY <2>2 DEF HandMark
    <3>3. QED
      BY <3>1, <3>2 DEF CallTyped, RolesOK
  <2>3. ASSUME HandFail(a) PROVE CallTyped' /\ RolesOK'
    BY <2>1, <2>3 DEF HandFail, CallTyped, RolesOK
  <2>4. QED
    BY <1>17, <2>2, <2>3
<1>18. ASSUME NEW a \in Admins, NEW s \in Services, EditText(a, s) \/ DialogReplaces(a, s)
       PROVE  CallTyped' /\ RolesOK'
  <2>1. edit[s][a].rows \in SUBSET Row
    BY DEF EditsTyped, Edit
  <2>2. /\ pc' = pc \/ pc' = [pc EXCEPT ![a] = "restore"]
        /\ saved' = saved \/ saved' = [saved EXCEPT ![a] = edit[s][a].rows]
        /\ UNCHANGED <<at, todo, chans, sweepVars, acts, faults>>
    BY <1>18 DEF EditText, DialogReplaces
  <2>3. QED
    BY <2>1, <2>2 DEF CallTyped, RolesOK
<1>19. ASSUME NEW a \in Admins, EditRead(a) PROVE CallTyped' /\ RolesOK'
  <2>1. {[post |-> j, status |-> PrevStatus(j),
          slot |-> IF slot[j] = "none" THEN "none" ELSE "later"] : j \in Waiting(at[a])}
          \subseteq Row
    BY DEF Waiting, Batch, PrevStatus, Queue, Row
  <2>2. QED
    BY <1>19, <2>1 DEF EditRead, CallTyped, RolesOK
<1>20. ASSUME NEW a \in Admins, EditMark(a) PROVE CallTyped' /\ RolesOK'
  BY <1>20 DEF EditMark, CallTyped, RolesOK
<1>21. ASSUME NEW a \in Admins, NEW r \in saved[a], Restore(a, r)
       PROVE  CallTyped' /\ RolesOK'
  <2>1. pc' = pc \/ \E p \in {"idle", "editRead"} : pc' = [pc EXCEPT ![a] = p]
    BY <1>21 DEF Restore
  <2>2. saved' \in [Callers -> SUBSET Row]
    BY <1>21 DEF Restore, CallTyped
  <2>3. UNCHANGED <<at, todo, chans, sweepVars, acts, faults>>
    BY <1>21 DEF Restore
  <2>4. QED
    BY <2>1, <2>2, <2>3 DEF CallTyped, RolesOK
<1>22. ASSUME NEW a \in Admins, AdminSteps(a) PROVE CallTyped' /\ RolesOK'
  <2>1. ASSUME HandSend(a) PROVE CallTyped' /\ RolesOK'
    BY <1>4, <2>1 DEF HandSend
  <2>2. QED
    BY <1>7, <1>12, <1>13, <1>14, <1>15, <1>16, <1>17, <1>18, <1>19, <1>20, <1>21,
       <1>22, <2>1 DEF AdminSteps, Services
<1>23. ASSUME SchedulerSteps PROVE CallTyped' /\ RolesOK'
  <2>1. ASSUME Send PROVE CallTyped' /\ RolesOK'
    BY <1>4, <2>1 DEF Send
  <2>2. QED
    BY <1>2, <1>3, <1>5, <1>6, <1>23, <2>1 DEF SchedulerSteps, Mark, Fail, Flood
<1>24. ASSUME SweepSteps PROVE CallTyped' /\ RolesOK'
  BY <1>7, <1>8, <1>9, <1>24 DEF SweepSteps, ResetEditing, ResetSending
<1>25. CASE UNCHANGED vars
  BY <1>1, <1>25 DEF vars
<1>26. QED
  BY <1>10, <1>11, <1>22, <1>23, <1>24, <1>25 DEF Next

LEMMA Typed == Spec => []TypedInv
<1>1. TypedInv /\ [Next]_vars => TypedInv'
  BY RowStep, CallStep, EditsStep DEF TypedInv
<1>2. QED
  BY <1>1, TypedInit, PTL DEF Spec

\* Type correctness, and with it what the queue may hold: an edit saves only
\* rows in a status they can be put back to.
THEOREM TypeCorrect == Spec => []TypeOK
<1>1. TypedInv => TypeOK
  BY DEF TypedInv, RowTyped, CallTyped, EditsTyped, Edit, TypeOK
<1>2. QED
  BY <1>1, Typed, PTL

-----------------------------------------------------------------------------
(***************************************************************************)
(* What the channel has of a post.                                         *)
(***************************************************************************)
\* The scheduler's and the administrators' places between taking a post in
\* hand and its outcome.
Busy == {"send", "mark", "handSend", "handMark", "fail", "flood"}
Holds(c, i) == at[c] = i /\ pc[c] \in Busy

\* One caller at a time has the post in hand, and its place says whether the
\* channel has it; the scheduler's post is 'sending' or was deleted, an
\* administrator's still waits or was deleted; what is posted is there, what
\* waits and is in nobody's hands is not; a refused post is not.
InHand(c, i) ==
  /\ sent[i] = IF pc[c] \in {"send", "handSend"} THEN 0 ELSE 1
  /\ status[i] \in IF c = Scheduler THEN {"sending", "deleted"} ELSE NotYet \cup {"deleted"}
SentAt(i) ==
  /\ sent[i] \in {0, 1}
  /\ \A c, d \in Callers : PublishesAt(c, i) /\ PublishesAt(d, i) => c = d
  /\ \A c \in Callers : PublishesAt(c, i) => InHand(c, i)
  /\ status[i] = "posted" => sent[i] = 1
  /\ status[i] \in NotYet \cup {"absent"} /\ ~InFlight(i) => sent[i] = 0
  /\ at[Scheduler] = i /\ pc[Scheduler] \in {"fail", "flood"} /\ status[i] = "sending"
       => sent[i] = 0
SentInv == \A i \in Posts : sent[i] # Unsure => SentAt(i)

LEMMA SentInit == Init => SentInv
  BY DEF Init, SentInv, SentAt, InFlight, PublishesAt, Holds, Nothing, NotYet, Queue

\* What a write may do to a row it did not publish: a post that waits goes on
\* waiting, anything is deleted, and a post is taken back from 'sending' when
\* nobody has it in hand and the channel has not got it.
Waits(i) ==
  \/ status'[i] = status[i]
  \/ status[i] \in NotYet \cup {"absent"} /\ status'[i] \in NotYet
  \/ status[i] # "absent" /\ status'[i] = "deleted"
  \/ status[i] = "sending" /\ status'[i] \in NotYet /\ sent[i] = 0 /\ ~InFlight(i)
Calm(i) == sent'[i] = Unsure \/ (sent'[i] = sent[i] /\ Waits(i))

\* The calls that have the post in hand are the same, in the same places.
SameHands(i) == \A c \in Callers :
  /\ Holds(c, i) <=> Holds(c, i)'
  /\ Holds(c, i) => pc'[c] = pc[c]

LEMMA QuietAt ==
  ASSUME NEW i \in Posts, sent[i] # Unsure => SentAt(i), SameHands(i), Calm(i)
  PROVE  sent'[i] # Unsure => SentAt(i)'
<1> SUFFICES ASSUME sent'[i] # Unsure, sent[i] # Unsure, SentAt(i),
                    sent'[i] = sent[i], Waits(i)
             PROVE  SentAt(i)'
  BY DEF Calm
<1>1. \A c \in Callers : PublishesAt(c, i)' <=> PublishesAt(c, i)
  BY DEF SameHands, Holds, Busy, PublishesAt
<1>2. \A c \in Callers : PublishesAt(c, i) => pc'[c] = pc[c]
  BY DEF SameHands, Holds, Busy, PublishesAt
<1>3. InFlight(i)' <=> InFlight(i)
  BY <1>1 DEF InFlight
<1>4. ASSUME NEW c \in Callers, PublishesAt(c, i) PROVE InHand(c, i)'
  <2>1. InHand(c, i) /\ InFlight(i) /\ pc'[c] = pc[c]
    BY <1>2, <1>4 DEF SentAt, InFlight
  <2>2. QED
    BY <2>1 DEF InHand, Waits, NotYet, Queue
<1>5. status'[i] = "posted" => sent'[i] = 1
  BY DEF SentAt, Waits, NotYet, Queue
<1>6. status'[i] \in NotYet \cup {"absent"} /\ ~InFlight(i)' => sent'[i] = 0
  BY <1>3 DEF SentAt, Waits, NotYet, Queue
<1>7. at'[Scheduler] = i /\ pc'[Scheduler] \in {"fail", "flood"} /\ status'[i] = "sending"
        => sent'[i] = 0
  <2>1. at'[Scheduler] = i /\ pc'[Scheduler] \in {"fail", "flood"} =>
          at[Scheduler] = i /\ pc[Scheduler] \in {"fail", "flood"}
    BY DEF SameHands, Holds, Busy
  <2>2. status'[i] = "sending" => status[i] = "sending"
    BY DEF Waits, NotYet, Queue
  <2>3. QED
    BY <2>1, <2>2 DEF SentAt
<1>8. QED
  BY <1>1, <1>4, <1>5, <1>6, <1>7 DEF SentAt

\* A caller that has nothing in hand goes on, and no other moves.
Idles(k) ==
  /\ pc[k] \notin Busy /\ pc'[k] \notin Busy
  /\ \A c \in Callers \ {k} : pc'[c] = pc[c] /\ at'[c] = at[c]

LEMMA QuietStep ==
  ASSUME SentInv, NEW k \in Callers, Idles(k), \A i \in Posts : Calm(i)
  PROVE  SentInv'
<1> SUFFICES ASSUME NEW i \in Posts PROVE sent'[i] # Unsure => SentAt(i)'
  BY DEF SentInv
<1>1. SameHands(i)
  BY DEF Idles, SameHands, Holds
<1>2. QED
  BY <1>1, QuietAt DEF SentInv

\* A caller that has i in hand before or after moves; the other posts.
LEMMA OthersQuiet ==
  ASSUME SentInv, NEW k \in Callers, NEW i, NEW j \in Posts, i # j,
         \A c \in Callers \ {k} : pc'[c] = pc[c] /\ at'[c] = at[c],
         pc[k] \in Busy => at[k] = i, pc'[k] \in Busy => at'[k] = i,
         Calm(j)
  PROVE  sent'[j] # Unsure => SentAt(j)'
<1>1. SameHands(j)
  BY DEF SameHands, Holds
<1>2. QED
  BY <1>1, QuietAt DEF SentInv

\* A write by id leaves a row in doubt or lets it wait.
LEMMA OverwriteCalm ==
  ASSUME TypedInv, NEW S, NEW st \in NotYet, NEW sl, Overwrite(S, st, sl)
  PROVE  \A i \in Posts : Calm(i)
<1> SUFFICES ASSUME NEW i \in Posts, sent'[i] # Unsure PROVE sent'[i] = sent[i] /\ Waits(i)
  BY DEF Calm
<1>1. status[i] \in Status
  BY DEF TypedInv, RowTyped
<1>2. sent'[i] = sent[i] /\ (i \in S => status[i] \notin {"sending", "posted"})
  BY DEF Overwrite, Disturb
<1>3. status'[i] = IF i \in S /\ status[i] \notin {"absent", "deleted"} THEN st ELSE status[i]
  BY DEF Overwrite, SetRows, Exists
<1>4. QED
  BY <1>1, <1>2, <1>3 DEF Waits, NotYet, Queue, Status

\* A claim finds the post waiting, so the channel has not got it; who has it in
\* hand then puts it in doubt.
LEMMA ClaimSent ==
  ASSUME TypedInv, SentInv, NEW i \in Posts, Claim(i)
  PROVE  SentInv'
<1>1. CASE ~CanClaim(i)
  <2>1. Idles(Scheduler)
    BY <1>1 DEF Claim, NextDue, Idles, Busy, TypedInv, CallTyped
  <2>2. \A j \in Posts : Calm(j)
    BY <1>1 DEF Claim, Calm, Waits
  <2>3. QED
    BY <2>1, <2>2, QuietStep
<1>2. CASE CanClaim(i)
  <2>1. /\ \A c \in Callers \ {Scheduler} : pc'[c] = pc[c] /\ at'[c] = at[c]
        /\ pc[Scheduler] = "due" /\ pc'[Scheduler] \in {"idle", "due", "send"}
        /\ pc'[Scheduler] = "send" => at'[Scheduler] = i
    BY <1>2 DEF Claim, NextDue, TypedInv, CallTyped
  <2>2. /\ status'[i] = "sending" /\ \A j \in Posts \ {i} : status'[j] = status[j]
        /\ sent' = [j \in Posts |-> IF j = i /\ InFlight(i) THEN Unsure ELSE sent[j]]
    BY <1>2 DEF Claim, CanClaim, SetRows, Exists, Disturb, TypedInv, RowTyped
  <2>3. ASSUME NEW j \in Posts, j # i PROVE sent'[j] # Unsure => SentAt(j)'
    <3>1. Calm(j)
      BY <2>2, <2>3 DEF Calm, Waits
    <3>2. QED
      BY <2>1, <2>3, <3>1, OthersQuiet DEF Busy
  <2>4. ASSUME sent'[i] # Unsure PROVE SentAt(i)'
    <3>1. ~InFlight(i) /\ sent'[i] = sent[i]
      BY <2>2, <2>4
    <3>2. sent'[i] = 0
      BY <1>2, <2>4, <3>1 DEF CanClaim, NotYet, Queue, SentInv, SentAt
    <3>3. \A c \in Callers : PublishesAt(c, i)' => c = Scheduler /\ pc'[c] = "send"
      BY <2>1, <3>1 DEF InFlight, PublishesAt
    <3>4. QED
      BY <2>1, <2>2, <3>2, <3>3 DEF SentAt, InHand, NotYet, Queue
  <2>5. QED
    BY <2>3, <2>4 DEF SentInv
<1>3. QED
  BY <1>1, <1>2

\* A publication, by the scheduler or by hand: who sends has the post in hand, and
\* nobody else has.
LEMMA PublishesSent ==
  ASSUME TypedInv, SentInv, NEW c \in Callers, NEW p, NEW q, Publishes(c, p, q),
         \/ c = Scheduler /\ pc[c] = "send" /\ p = "mark" /\ q = "fail"
         \/ c \in Admins /\ pc[c] = "handSend" /\ p = "handMark" /\ q = "handFail"
  PROVE  SentInv'
<1> PICK i : i = at[c]
  OBVIOUS
<1>1. /\ \A d \in Callers \ {c} : pc'[d] = pc[d]
      /\ pc'[c] \in {p, q} /\ at' = at /\ status' = status
  BY DEF Publishes, TypedInv, CallTyped
<1>2. ASSUME NEW j \in Posts, j # i PROVE sent'[j] # Unsure => SentAt(j)'
  <2>1. sent'[j] = sent[j]
    BY <1>2 DEF Publishes, Disturb, TypedInv, RowTyped
  <2>2. Calm(j)
    BY <1>1, <2>1 DEF Calm, Waits
  <2>3. QED
    BY <1>1, <1>2, <2>2, OthersQuiet
<1>3. ASSUME i \in Posts, sent'[i] # Unsure PROVE SentAt(i)'
  <2>1. /\ sent[i] # Unsure
        /\ \/ pc'[c] = p /\ sent'[i] = sent[i] + 1
           \/ pc'[c] = q /\ sent'[i] = sent[i]
    BY <1>3 DEF Publishes, Disturb, TypedInv, RowTyped, CallTyped
  <2>2. SentAt(i) /\ PublishesAt(c, i)
    BY <1>3, <2>1 DEF SentInv, PublishesAt
  <2>3. sent[i] = 0 /\ InHand(c, i)
    BY <2>2 DEF SentAt, InHand
  <2>4. \A d \in Callers : PublishesAt(d, i)' => d = c
    BY <1>1, <2>2 DEF SentAt, PublishesAt
  <2>5. CASE pc'[c] = p /\ sent'[i] = 1
    <3>1. PublishesAt(c, i)' /\ InFlight(i)'
      BY <1>1, <2>5 DEF PublishesAt, InFlight
    <3>2. InHand(c, i)'
      BY <1>1, <2>3, <2>5 DEF InHand
    <3>3. ~(at'[Scheduler] = i /\ pc'[Scheduler] \in {"fail", "flood"} /\ status'[i] = "sending")
      <4>1. CASE c = Scheduler
        BY <2>5, <4>1
      <4>2. CASE c \in Admins
        BY <1>1, <2>3, <4>2 DEF InHand, NotYet, Queue
      <4>3. QED
        BY <4>1, <4>2
    <3>4. QED
      BY <2>4, <2>5, <3>1, <3>2, <3>3 DEF SentAt
  <2>6. CASE pc'[c] = q /\ sent'[i] = 0
    <3>1. \A d \in Callers : ~PublishesAt(d, i)'
      BY <2>4, <2>6 DEF PublishesAt
    <3>2. status'[i] # "posted"
      BY <1>1, <2>3 DEF InHand, NotYet, Queue
    <3>3. QED
      BY <2>6, <3>1, <3>2 DEF SentAt
  <2>7. QED
    BY <2>1, <2>3, <2>5, <2>6
<1>4. QED
  BY <1>2, <1>3 DEF SentInv

\* The scheduler's outcome is written where its claim still stands.
LEMMA RecordsSent ==
  ASSUME TypedInv, SentInv, Mark \/ Fail \/ Flood
  PROVE  SentInv'
<1> PICK i : i = at[Scheduler]
  OBVIOUS
<1>1. /\ \A c \in Callers \ {Scheduler} : pc'[c] = pc[c] /\ at'[c] = at[c]
      /\ pc[Scheduler] \in {"mark", "fail", "flood"} /\ pc'[Scheduler] \in {"idle", "due"}
      /\ sent' = sent /\ \A j \in Posts \ {i} : status'[j] = status[j]
  BY DEF Mark, Fail, Flood, Records, NextDue, SetRows, TypedInv, RowTyped, CallTyped
<1>2. ASSUME NEW j \in Posts, j # i PROVE sent'[j] # Unsure => SentAt(j)'
  <2>1. Calm(j)
    BY <1>1, <1>2 DEF Calm, Waits
  <2>2. QED
    BY <1>1, <1>2, <2>1, OthersQuiet DEF Busy
<1>3. ASSUME i \in Posts, sent'[i] # Unsure PROVE SentAt(i)'
  <2>1. SentAt(i)
    BY <1>1, <1>3 DEF SentInv
  <2>2. \A c \in Callers : PublishesAt(c, i)' => PublishesAt(c, i) /\ c # Scheduler
                                                 /\ pc'[c] = pc[c]
    BY <1>1 DEF PublishesAt
  <2>3. CASE Mark
    <3>1. PublishesAt(Scheduler, i) /\ pc[Scheduler] = "mark"
      BY <2>3 DEF Mark, Records, PublishesAt
    <3>2. sent[i] = 1 /\ status[i] \in {"sending", "deleted"}
      BY <2>1, <3>1 DEF SentAt, InHand
    <3>3. \A c \in Callers : ~PublishesAt(c, i)'
      BY <2>1, <2>2, <3>1 DEF SentAt
    <3>4. status'[i] \in {"posted", "deleted"}
      BY <1>3, <2>3, <3>2 DEF Mark, Records, StillSending, SetRows, Exists
    <3>5. QED
      BY <1>1, <3>2, <3>3, <3>4 DEF SentAt, NotYet, Queue
  <2>4. CASE Fail \/ Flood
    <3>1. pc[Scheduler] \in {"fail", "flood"}
      BY <2>4 DEF Fail, Flood, Records
    <3>2. CASE status[i] = "sending"
      <4>1. sent[i] = 0 /\ status'[i] \in NotYet
        BY <1>3, <2>1, <2>4, <3>1, <3>2
           DEF SentAt, Fail, Flood, Records, StillSending, SetRows, Exists, NotYet, Queue
      <4>2. \A c \in Callers : ~PublishesAt(c, i)'
        BY <2>1, <2>2, <3>2 DEF SentAt, InHand, NotYet, Queue
      <4>3. QED
        BY <1>1, <4>1, <4>2 DEF SentAt, NotYet, Queue
    <3>3. CASE status[i] # "sending"
      <4>1. status'[i] = status[i]
        BY <1>3, <2>4, <3>3 DEF Fail, Flood, Records, StillSending, SetRows
      <4>2. \A c \in Callers : PublishesAt(c, i)' <=> PublishesAt(c, i)
        BY <1>1, <3>1 DEF PublishesAt
      <4>3. InFlight(i)' <=> InFlight(i)
        BY <4>2 DEF InFlight
      <4>4. \A c \in Callers : PublishesAt(c, i)' => InHand(c, i)'
        BY <1>1, <2>1, <2>2, <4>1 DEF SentAt, InHand
      <4>5. QED
        BY <1>1, <2>1, <4>1, <4>2, <4>3, <4>4 DEF SentAt
    <3>4. QED
      BY <3>2, <3>3
  <2>5. QED
    BY <2>3, <2>4
<1>4. QED
  BY <1>2, <1>3 DEF SentInv

LEMMA MarkFailsSent ==
  ASSUME TypedInv, SentInv, MarkFails
  PROVE  SentInv'
<1> PICK i : i = at[Scheduler]
  OBVIOUS
<1>1. /\ \A c \in Callers \ {Scheduler} : pc'[c] = pc[c] /\ at'[c] = at[c]
      /\ pc'[Scheduler] \in {"idle", "due"} /\ status' = status
      /\ sent' = [j \in Posts |-> IF j = i THEN Unsure ELSE sent[j]]
  BY DEF MarkFails, NextDue, Disturb, TypedInv, RowTyped, CallTyped
<1>2. ASSUME NEW j \in Posts, j # i PROVE sent'[j] # Unsure => SentAt(j)'
  <2>1. Calm(j)
    BY <1>1, <1>2 DEF Calm, Waits
  <2>2. QED
    BY <1>1, <1>2, <2>1, OthersQuiet DEF Busy
<1>3. QED
  BY <1>1, <1>2 DEF SentInv

LEMMA SendFloodsSent ==
  ASSUME TypedInv, SentInv, SendFloods
  PROVE  SentInv'
<1> PICK i : i = at[Scheduler]
  OBVIOUS
<1>1. /\ \A c \in Callers \ {Scheduler} : pc'[c] = pc[c]
      /\ pc[Scheduler] = "send" /\ pc'[Scheduler] = "flood"
      /\ at' = at /\ status' = status /\ sent' = sent
  BY DEF SendFloods, TypedInv, CallTyped
<1>2. ASSUME NEW j \in Posts, j # i PROVE sent'[j] # Unsure => SentAt(j)'
  <2>1. Calm(j)
    BY <1>1 DEF Calm, Waits
  <2>2. QED
    BY <1>1, <1>2, <2>1, OthersQuiet
<1>3. ASSUME i \in Posts, sent'[i] # Unsure PROVE SentAt(i)'
  <2>1. SentAt(i) /\ PublishesAt(Scheduler, i)
    BY <1>1, <1>3 DEF SentInv, PublishesAt
  <2>2. sent[i] = 0 /\ status[i] \in {"sending", "deleted"}
    BY <1>1, <2>1 DEF SentAt, InHand
  <2>3. \A c \in Callers : ~PublishesAt(c, i)'
    BY <1>1, <2>1 DEF SentAt, PublishesAt
  <2>4. QED
    BY <1>1, <2>2, <2>3 DEF SentAt
<1>4. QED
  BY <1>2, <1>3 DEF SentInv

\* By hand nothing is claimed: the post is in doubt unless it still waits and nobody
\* has it in hand.
LEMMA PublishNextSent ==
  ASSUME TypedInv, SentInv, NEW a \in Admins, NEW i \in Posts, PublishNext(a, i)
  PROVE  SentInv'
<1>1. /\ \A c \in Callers \ {a} : pc'[c] = pc[c] /\ at'[c] = at[c]
      /\ pc[a] = "publish" /\ pc'[a] = "handSend" /\ at'[a] = i /\ status' = status
      /\ \A j \in Posts : sent'[j] =
           IF j = i /\ (InFlight(i) \/ status[i] \notin NotYet) THEN Unsure ELSE sent[j]
  BY DEF PublishNext, Disturb, TypedInv, RowTyped, CallTyped
<1>2. ASSUME NEW j \in Posts, j # i PROVE sent'[j] # Unsure => SentAt(j)'
  <2>1. Calm(j)
    BY <1>1, <1>2 DEF Calm, Waits
  <2>2. QED
    BY <1>1, <1>2, <2>1, OthersQuiet DEF Busy
<1>3. ASSUME sent'[i] # Unsure PROVE SentAt(i)'
  <2>1. SentAt(i) /\ ~InFlight(i) /\ status[i] \in NotYet /\ sent'[i] = sent[i]
    BY <1>1, <1>3 DEF SentInv
  <2>2. sent'[i] = 0
    BY <2>1 DEF SentAt
  <2>3. \A c \in Callers : PublishesAt(c, i)' <=> c = a
    BY <1>1, <2>1 DEF InFlight, PublishesAt
  <2>4. InHand(a, i)'
    BY <1>1, <2>1, <2>2 DEF InHand
  <2>5. InFlight(i)'
    BY <2>3 DEF InFlight
  <2>6. QED
    BY <1>1, <2>1, <2>2, <2>3, <2>4, <2>5 DEF SentAt, NotYet, Queue
<1>4. QED
  BY <1>2, <1>3 DEF SentInv

LEMMA HandMarkSent ==
  ASSUME TypedInv, SentInv, NEW a \in Admins, HandMark(a)
  PROVE  SentInv'
<1> PICK i : i = at[a]
  OBVIOUS
<1>1. /\ \A c \in Callers \ {a} : pc'[c] = pc[c] /\ at'[c] = at[c]
      /\ pc[a] = "handMark" /\ pc'[a] \in {"publish", "collapse", "handFail", "idle"}
      /\ \A j \in Posts \ {i} : status'[j] = status[j] /\ sent'[j] = sent[j]
  BY DEF HandMark, AfterMark, NextByHand, SetRows, Disturb, TypedInv, RowTyped, CallTyped
<1>0. i \in Posts => sent'[i] = Unsure \/ (SetRows({i}, "posted", "none") /\ sent' = sent)
  BY DEF HandMark, Disturb
<1>2. ASSUME NEW j \in Posts, j # i PROVE sent'[j] # Unsure => SentAt(j)'
  <2>1. Calm(j)
    BY <1>1, <1>2 DEF Calm, Waits
  <2>2. QED
    BY <1>1, <1>2, <2>1, OthersQuiet DEF Busy
<1>3. ASSUME i \in Posts, sent'[i] # Unsure PROVE SentAt(i)'
  <2>1. SentAt(i) /\ PublishesAt(a, i) /\ sent' = sent
    BY <1>0, <1>1, <1>3 DEF SentInv, PublishesAt
  <2>2. sent[i] = 1 /\ status[i] \in NotYet \cup {"deleted"}
    BY <1>1, <2>1 DEF SentAt, InHand
  <2>3. status'[i] \in {"posted", "deleted"}
    BY <1>0, <1>3, <2>2 DEF SetRows, Exists, NotYet, Queue
  <2>4. \A c \in Callers : ~PublishesAt(c, i)'
    BY <1>1, <2>1 DEF SentAt, PublishesAt
  <2>5. QED
    BY <2>1, <2>2, <2>3, <2>4 DEF SentAt, NotYet, Queue
<1>4. QED
  BY <1>2, <1>3 DEF SentInv

\* A restart: a publication that was not sent yet is none, the scheduler's post
\* stays in 'sending', and what was sent by hand and not marked is in doubt.
LEMMA CrashSent ==
  ASSUME TypedInv, SentInv, Crash
  PROVE  SentInv'
<1> SUFFICES ASSUME NEW i \in Posts, sent'[i] # Unsure PROVE SentAt(i)'
  BY DEF SentInv
<1>1. /\ sent'[i] = sent[i] /\ status' = status
      /\ \A a \in Admins : pc[a] = "handMark" => at[a] # i
  BY DEF Crash, Disturb
<1>2. \A c \in Callers : pc'[c] = "idle" /\ ~PublishesAt(c, i)'
  BY DEF Crash, PublishesAt
<1>3. SentAt(i)
  BY <1>1 DEF SentInv
<1>4. ASSUME status[i] \in NotYet \cup {"absent"} PROVE sent[i] = 0
  <2>1. CASE ~InFlight(i)
    BY <1>3, <1>4, <2>1 DEF SentAt
  <2>2. CASE InFlight(i)
    <3>1. PICK c \in Callers : PublishesAt(c, i)
      BY <2>2 DEF InFlight
    <3>2. InHand(c, i)
      BY <1>3, <3>1 DEF SentAt
    <3>3. c # Scheduler /\ c # Sweep
      BY <1>4, <3>1, <3>2 DEF InHand, NotYet, Queue, PublishesAt, TypedInv, RolesOK
    <3>4. pc[c] = "handSend"
      BY <1>1, <3>1, <3>3 DEF PublishesAt, TypedInv, RolesOK
    <3>5. QED
      BY <3>2, <3>4 DEF InHand
  <2>3. QED
    BY <2>1, <2>2
<1>5. QED
  BY <1>1, <1>2, <1>3, <1>4 DEF SentAt

LEMMA InsertSent ==
  ASSUME TypedInv, SentInv, NEW a \in Admins, NEW i \in Posts, NEW S, NEW st \in NotYet,
         Insert(a, i, S, st), S \subseteq Batch(i), Idles(a)
  PROVE  SentInv'
<1>1. \A j \in Posts : Calm(j)
  BY DEF Insert, Calm, Waits, Batch
<1>2. QED
  BY <1>1, QuietStep

\* Every other write.
LEMMA SentStep == TypedInv /\ SentInv /\ [Next]_vars => SentInv'
<1> SUFFICES ASSUME TypedInv, SentInv, [Next]_vars PROVE SentInv'
  OBVIOUS
<1>1. ASSUME NEW k \in Callers, Idles(k), status' = status, sent' = sent PROVE SentInv'
  BY <1>1, QuietStep DEF Calm, Waits
<1>2. ASSUME SchedulerSteps PROVE SentInv'
  <2>1. ASSUME TickReads PROVE SentInv'
    <3>1. Idles(Scheduler)
      BY <2>1 DEF TickReads, Idles, Busy, TypedInv, CallTyped
    <3>2. QED
      BY <1>1, <2>1, <3>1 DEF TickReads
  <2>2. ASSUME Send PROVE SentInv'
    BY <2>2, PublishesSent DEF Send
  <2>3. QED
    BY <1>2, <2>1, <2>2, ClaimSent, RecordsSent, MarkFailsSent, SendFloodsSent
       DEF SchedulerSteps
<1>3. ASSUME NEW c \in Admins \cup {Sweep}, Collapses(c) PROVE SentInv'
  <2>1. ASSUME NEW ch \in Channels, CollapseReset(c, ch) PROVE SentInv'
    <3>1. Idles(c)
      BY <2>1 DEF CollapseReset, NextChannel, Idles, Busy, TypedInv, CallTyped
    <3>2. \A i \in Posts : Calm(i)
      BY <2>1 DEF CollapseReset, SetRows, Calm, Waits, NotYet, Queue
    <3>3. QED
      BY <3>1, <3>2, QuietStep
  <2>2. ASSUME NEW i \in Posts, SlotWrites(c, i) PROVE SentInv'
    <3>1. Idles(c)
      BY <2>2 DEF SlotWrites, NextChannel, Idles, Busy, TypedInv, CallTyped
    <3>2. \A j \in Posts : Calm(j)
      BY <2>2, OverwriteCalm DEF SlotWrites, NotYet, Queue
    <3>3. QED
      BY <3>1, <3>2, QuietStep
  <2>3. ASSUME CollapseThrows(c) PROVE SentInv'
    <3>1. Idles(c)
      BY <2>3 DEF CollapseThrows, NextChannel, Idles, Busy, TypedInv, CallTyped
    <3>2. QED
      BY <1>1, <2>3, <3>1 DEF CollapseThrows
  <2>4. QED
    BY <1>3, <2>1, <2>2, <2>3 DEF Collapses
<1>4. ASSUME SweepSteps PROVE SentInv'
  <2>1. ASSUME SweepReads \/ SweepSending \/ \E i \in Posts : SweepBatch(i) PROVE SentInv'
    <3>1. Idles(Sweep) /\ status' = status /\ sent' = sent
      BY <2>1 DEF SweepReads, SweepSending, SweepBatch, Idles, Busy, TypedInv, CallTyped
    <3>2. QED
      BY <1>1, <3>1
  <2>2. ASSUME ResetEditing PROVE SentInv'
    <3>1. Idles(Sweep)
      BY <2>2 DEF ResetEditing, Resets, Idles, Busy, TypedInv, CallTyped
    <3>2. \A i \in Posts : Calm(i)
      BY <2>2 DEF ResetEditing, Resets, StillEditing, SetRows, Calm, Waits, NotYet, Queue
    <3>3. QED
      BY <3>1, <3>2, QuietStep
  <2>3. ASSUME ResetSending PROVE SentInv'
    <3>1. Idles(Sweep)
      BY <2>3 DEF ResetSending, Resets, Idles, Busy, TypedInv, CallTyped
    <3>2. \A i \in Posts : Calm(i)
      BY <2>3 DEF ResetSending, Resets, CanReset, Disturb, SetRows, Calm, Waits, NotYet,
         Queue
    <3>3. QED
      BY <3>1, <3>2, QuietStep
  <2>4. QED
    BY <1>3, <1>4, <2>1, <2>2, <2>3 DEF SweepSteps
<1>5. ASSUME NEW a \in Admins, AdminSteps(a) PROVE SentInv'
  <2> USE DEF Idles, Busy
  <2>1. ASSUME NEW i \in Posts,
               \/ InsertQueued(a, i) \/ Suggest(a, i)
               \/ InsertTimed(a, i) \/ InsertNow(a, i)
        PROVE  SentInv'
    <3>1. Idles(a)
      BY <2>1 DEF InsertQueued, Suggest, InsertTimed, InsertNow, Insert, Collapse,
         TypedInv, CallTyped
    <3>2. i \in Batch(i)
      BY DEF Batch
    <3>3. QED
      BY <2>1, <3>1, <3>2, InsertSent
         DEF InsertQueued, Suggest, InsertTimed, InsertNow, NotYet, Queue
  <2>2. ASSUME NEW i \in Posts, NEW s \in Services, PostNow(a, i) \/ EditClick(a, i, s)
        PROVE  SentInv'
    <3>1. Idles(a) /\ status' = status /\ sent' = sent
      BY <2>2 DEF PostNow, EditClick, Starts, TypedInv, CallTyped
    <3>2. QED
      BY <1>1, <3>1
  <2>3. ASSUME NEW i \in Posts, Approve(a, i) PROVE SentInv'
    <3>1. Idles(a)
      BY <2>3 DEF Approve, Starts, AnswerThenCollapse, Collapse, TypedInv, CallTyped
    <3>2. QED
      BY <2>3, <3>1, OverwriteCalm, QuietStep DEF Approve, NotYet, Queue
  <2>4. ASSUME NEW i \in Posts, Move(a, i) PROVE SentInv'
    <3>1. Idles(a)
      BY <2>4 DEF Move, Starts, AnswerThenCollapse, Collapse, TypedInv, CallTyped
    <3>2. QED
      BY <2>4, <3>1, OverwriteCalm, QuietStep DEF Move, NotYet, Queue
  <2>5. ASSUME NEW i \in Posts, DeleteQueued(a, i) \/ Remove(a, i) PROVE SentInv'
    <3>1. Idles(a)
      BY <2>5 DEF DeleteQueued, Remove, Starts, AnswerThenCollapse, Collapse, TypedInv, CallTyped
    <3>2. \A j \in Posts : Calm(j)
      BY <2>5 DEF DeleteQueued, Remove, SetRows, Exists, Calm, Waits
    <3>3. QED
      BY <3>1, <3>2, QuietStep
  <2>6. ASSUME NEW s \in Services,
               SlotTime(a) \/ EditText(a, s) \/ EditRead(a) \/ DialogReplaces(a, s)
        PROVE  SentInv'
    <3>1. Idles(a) /\ status' = status /\ sent' = sent
      BY <2>6 DEF SlotTime, EditText, EditRead, DialogReplaces, TypedInv, CallTyped
    <3>2. QED
      BY <1>1, <3>1
  <2>7. ASSUME EditMark(a) PROVE SentInv'
    <3>1. Idles(a)
      BY <2>7 DEF EditMark, TypedInv, CallTyped
    <3>2. QED
      BY <2>7, <3>1, OverwriteCalm, QuietStep DEF EditMark, NotYet, Queue
  <2>8. ASSUME HandFail(a) PROVE SentInv'
    <3>1. Idles(a)
      BY <2>8 DEF HandFail, NextByHand, TypedInv, CallTyped
    <3>2. QED
      BY <2>8, <3>1, OverwriteCalm, QuietStep DEF HandFail, NotYet, Queue
  <2>9. ASSUME NEW r \in saved[a], Restore(a, r) PROVE SentInv'
    <3>1. Idles(a)
      BY <2>9 DEF Restore, TypedInv, CallTyped
    <3>2. r.status \in NotYet
      BY DEF TypedInv, CallTyped, Row, NotYet, Queue
    <3>3. QED
      BY <2>9, <3>1, <3>2, OverwriteCalm, QuietStep DEF Restore
  <2>10. ASSUME HandSend(a) PROVE SentInv'
    BY <2>10, PublishesSent DEF HandSend
  <2>11. QED
    BY <1>3, <1>5, <2>1, <2>2, <2>3, <2>4, <2>5, <2>6, <2>7, <2>8, <2>9, <2>10,
       PublishNextSent, HandMarkSent DEF AdminSteps, Services
<1>6. ASSUME UNCHANGED <<pc, at, status, sent>> PROVE SentInv'
  <2>1. Idles(Sweep)
    BY <1>6 DEF Idles, Busy, TypedInv, RolesOK
  <2>2. QED
    BY <1>1, <1>6, <2>1
<1>7. CASE \E i \in Posts : SlotComes(i) \/ Ages(i)
  BY <1>6, <1>7 DEF SlotComes, Ages
<1>8. CASE UNCHANGED vars
  BY <1>6, <1>8 DEF vars
<1>9. QED
  BY <1>2, <1>4, <1>5, <1>7, <1>8, CrashSent DEF Next

LEMMA SentAlways == Spec => [](TypedInv /\ SentInv)
<1>1. TypedInv /\ SentInv /\ [Next]_vars => TypedInv' /\ SentInv'
  BY SentStep, RowStep, CallStep, EditsStep DEF TypedInv
<1>2. QED
  BY <1>1, TypedInit, SentInit, PTL DEF Spec

\* The scheduler, administrators, the sweep and restarts publish a post once, as
\* long as no write without a guard, no second caller and no lost record met it.
THEOREM OnceOnly == Spec => []PublishedOnce
<1>1. SentInv => PublishedOnce
  BY DEF SentInv, SentAt, PublishedOnce
<1>2. QED
  BY <1>1, SentAlways, PTL

\* A post that is marked posted is in the channel; one that waits or is shown as
\* failed is not, unless an administrator's call is about to mark it.
THEOREM QueueIsTrue == Spec => []QueueAgrees
<1>1. TypedInv /\ SentInv => QueueAgrees
  <2> SUFFICES ASSUME TypedInv, SentInv, NEW i \in Posts, sent[i] # Unsure,
                      status[i] \in NotYet, ~ByHand(i)
               PROVE  sent[i] = 0
    BY DEF QueueAgrees, SentInv, SentAt
  <2>1. SentAt(i)
    BY DEF SentInv
  <2>2. ASSUME NEW c \in Callers, PublishesAt(c, i) PROVE sent[i] = 0
    <3>1. InHand(c, i)
      BY <2>1, <2>2 DEF SentAt
    <3>2. c \in Admins
      BY <2>2, <3>1 DEF InHand, PublishesAt, NotYet, Queue, TypedInv, RolesOK
    <3>3. pc[c] = "handSend"
      BY <2>2, <3>2 DEF PublishesAt, ByHand, TypedInv, RolesOK
    <3>4. QED
      BY <3>1, <3>3 DEF InHand
  <2>3. QED
    BY <2>1, <2>2 DEF SentAt, InFlight
<1>2. QED
  BY <1>1, SentAlways, PTL
=============================================================================
