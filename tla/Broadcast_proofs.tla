--------------------------- MODULE Broadcast_proofs ---------------------------
(***************************************************************************)
(* Proofs about Broadcast and MessagingRouter, for any sets of campaigns,  *)
(* rows, userbots and callers and any bounds: the quota holds up to the    *)
(* calls side by side, a closed campaign stays closed, a cancellation      *)
(* stops the mailing and nobody receives it twice without a failure.       *)
(***************************************************************************)
EXTENDS Broadcast, FiniteSetTheorems, TLAPS

USE RouterConstants, BroadcastConstants DEF None, NoActor, Pauses, Unwell, Active, Closed,
    Senders, accounts, calls, routerVars, mailingVars, jobVars, historyVars

Sending == {"send", "record", "refused", "pause"}
Walking == {"pick", "send", "refused", "pause"}
-----------------------------------------------------------------------------
(***************************************************************************)
(* The steps of a call of deliver().                                       *)
(***************************************************************************)
ActorOK == \A c \in Callers : stage[c] \in Sending => actor[c] \in Actors

LEMMA WalkTyped ==
  ASSUME RouterTypeOK, ActorOK, NEW c \in Callers,
         RouterWalks(c) \/ SendSucceeds(c) \/ SendReplyLost(c)
  PROVE  RouterTypeOK' /\ ActorOK'
<1>1. ASSUME NEW a \in Actors, PassOver(c, a) PROVE RouterTypeOK' /\ ActorOK'
  BY <1>1 DEF PassOver, RouterTypeOK, ActorOK, Sending, Stages, Returned
<1>2. ASSUME NEW a \in Actors, Choose(c, a) PROVE RouterTypeOK' /\ ActorOK'
  BY <1>2 DEF Choose, RouterTypeOK, ActorOK, Sending, Stages, Returned
<1>3. ASSUME NEW k \in Pauses, SendFails(c, k) PROVE RouterTypeOK' /\ ActorOK'
  BY <1>3 DEF SendFails, Fault, RouterTypeOK, ActorOK, Sending, Stages, Returned
<1>4. ASSUME RecordSent(c) PROVE RouterTypeOK' /\ ActorOK'
  <2>1. ledger' \in [Actors -> Nat]
    <3>1. ledger' = [a \in Actors |-> IF a = actor[c] THEN ledger[a] + 1 ELSE ledger[a]]
      BY <1>4, Zenon DEF RecordSent, RouterTypeOK
    <3>2. QED
      BY <3>1 DEF RouterTypeOK
  <2>2. QED
    BY <1>4, <2>1 DEF RecordSent, RouterTypeOK, ActorOK, Sending, Stages, Returned
<1>5. ASSUME RecordRefused(c) PROVE RouterTypeOK' /\ ActorOK'
  <2>1. CASE kind[c] = "no"
    <3>1. /\ stage' = [stage EXCEPT ![c] = "pick"]
          /\ actor' = [actor EXCEPT ![c] = NoActor]
          /\ kind'  = [kind EXCEPT ![c] = "no"]
          /\ UNCHANGED <<accounts, seen, left, faults>>
      BY <1>5, <2>1 DEF RecordRefused, NextActor
    <3>2. RouterTypeOK'
      BY <3>1 DEF RouterTypeOK, Stages
    <3>3. ActorOK'
      BY <3>1 DEF RouterTypeOK, ActorOK, Sending
    <3>4. QED
      BY <3>2, <3>3
  <2>2. CASE kind[c] # "no"
    BY <1>5, <2>2 DEF RecordRefused, RouterTypeOK, ActorOK, Sending, Stages
  <2>3. QED
    BY <2>1, <2>2
<1>6. ASSUME PauseActor(c) PROVE RouterTypeOK' /\ ActorOK'
  <2>1. seen' = [d \in Callers |-> IF d = c THEN [seen[c] EXCEPT ![actor[c]] = kind[c]]
                                  ELSE seen[d]]
    BY <1>6 DEF PauseActor, RouterTypeOK
  <2>2. [seen[c] EXCEPT ![actor[c]] = kind[c]] \in [Actors -> Pauses \cup Unwell]
    BY DEF RouterTypeOK
  <2>3. seen' \in [Callers -> [Actors -> Pauses \cup Unwell]]
    BY <2>1, <2>2 DEF RouterTypeOK
  <2>4. paused' \in [Actors -> Pauses]
    BY <1>6 DEF PauseActor, RouterTypeOK
  <2>5. QED
    BY <1>6, <2>3, <2>4 DEF PauseActor, NextActor, RouterTypeOK, ActorOK, Sending, Stages
<1>7. ASSUME Throws(c) PROVE RouterTypeOK' /\ ActorOK'
  BY <1>7 DEF Throws, Fault, RouterTypeOK, ActorOK, Sending, Stages, Returned
<1>8. ASSUME Exhausted(c) PROVE RouterTypeOK' /\ ActorOK'
  BY <1>8 DEF Exhausted, RouterTypeOK, ActorOK, Sending, Stages, Returned
<1>9. ASSUME SendSucceeds(c) PROVE RouterTypeOK' /\ ActorOK'
  BY <1>9 DEF SendSucceeds, RouterTypeOK, ActorOK, Sending, Stages, Returned
<1>10. ASSUME SendReplyLost(c) PROVE RouterTypeOK' /\ ActorOK'
  BY <1>10 DEF SendReplyLost, Fault, RouterTypeOK, ActorOK, Sending, Stages, Returned
<1>11. QED
  BY <1>1, <1>2, <1>3, <1>4, <1>5, <1>6, <1>7, <1>8, <1>9, <1>10 DEF RouterWalks

\* Where a step that sends nothing takes the call.
LEMMA WalkShape ==
  ASSUME RouterTypeOK, NEW c \in Callers, RouterWalks(c)
  PROVE  /\ \A d \in Callers \ {c} : stage'[d] = stage[d]
         /\ faults' \in {faults, faults + 1}
         /\ \/ stage[c] = "record" /\ stage'[c] = "sent"
            \/ stage[c] = "record" /\ stage'[c] = "threw" /\ faults' = faults + 1
            \/ stage[c] \in Walking /\ stage'[c] \in Walking \cup {"exhausted", "threw"}
<1> DEFINE Shape ==
      /\ \A d \in Callers \ {c} : stage'[d] = stage[d]
      /\ faults' \in {faults, faults + 1}
      /\ \/ stage[c] = "record" /\ stage'[c] = "sent"
         \/ stage[c] = "record" /\ stage'[c] = "threw" /\ faults' = faults + 1
         \/ stage[c] \in Walking /\ stage'[c] \in Walking \cup {"exhausted", "threw"}
<1>1. ASSUME NEW a \in Actors, PassOver(c, a) PROVE Shape
  BY <1>1 DEF PassOver, RouterTypeOK, Walking
<1>2. ASSUME NEW a \in Actors, Choose(c, a) PROVE Shape
  BY <1>2 DEF Choose, RouterTypeOK, Walking
<1>3. ASSUME NEW k \in Pauses, SendFails(c, k) PROVE Shape
  BY <1>3 DEF SendFails, Fault, RouterTypeOK, Walking
<1>4. ASSUME RecordSent(c) PROVE Shape
  BY <1>4 DEF RecordSent, RouterTypeOK, Walking
<1>5. ASSUME RecordRefused(c) PROVE Shape
  BY <1>5 DEF RecordRefused, NextActor, RouterTypeOK, Walking
<1>6. ASSUME PauseActor(c) PROVE Shape
  BY <1>6 DEF PauseActor, NextActor, RouterTypeOK, Walking
<1>7. ASSUME Throws(c) PROVE Shape
  BY <1>7 DEF Throws, Fault, RouterTypeOK, Walking
<1>8. ASSUME Exhausted(c) PROVE Shape
  BY <1>8 DEF Exhausted, RouterTypeOK, Walking
<1>9. QED
  BY <1>1, <1>2, <1>3, <1>4, <1>5, <1>6, <1>7, <1>8 DEF RouterWalks

-----------------------------------------------------------------------------
(***************************************************************************)
(* Types.                                                                  *)
(***************************************************************************)
\* What the job knows at its places.
JobOK ==
  /\ jobAt # "idle" => jobC \in Campaigns
  /\ jobAt \in {"bot", "fallback", "router", "mark"} => cur \in Rows
  /\ jobAt = "mark" => out \in {"sent", "failed"}
  /\ jobAt = "close" => out # "none"

JobTyped ==
  /\ jobAt \in {"idle", "claim", "load", "check", "bot", "fallback", "router",
                "mark", "dead", "decide", "close"}
  /\ jobC \in Campaigns \cup {None}
  /\ todo \subseteq Rows
  /\ cur \in Rows \cup {None}
  /\ out \in {"none", "sent", "failed", "errors"}

MailingTyped ==
  /\ status \in [Campaigns -> {"none"} \cup Active \cup Closed]
  /\ sender \in [Campaigns -> Senders]
  /\ row \in [Rows -> {"absent", "pending", "sent", "failed"}]
  /\ post \in [Campaigns -> {"no", "checked", "rows", "done", "dropped"}]
  /\ manual \in 0 .. MaxManual
  /\ got \in [Rows -> Nat]
  /\ late \in [Campaigns -> Nat]

FreshTyped == fresh \in [Campaigns -> BOOLEAN]

TypedInv == RouterTypeOK /\ ActorOK /\ JobTyped /\ JobOK /\ MailingTyped /\ FreshTyped

LEMMA TypedInit == Init => TypedInv
<1> SUFFICES ASSUME Init PROVE TypedInv
  OBVIOUS
<1>1. RouterTypeOK /\ ActorOK
  BY DEF Init, RouterInit, RouterTypeOK, ActorOK, Sending, Stages
<1>2. JobTyped /\ JobOK
  BY DEF Init, JobTyped, JobOK
<1>3. MailingTyped
  BY DEF Init, RouterInit, MailingTyped
<1>4. FreshTyped
  BY DEF Init, FreshTyped
<1>5. QED
  BY <1>1, <1>2, <1>3, <1>4 DEF TypedInv

LEMMA TypedStep == TypedInv /\ [Next]_vars => TypedInv'
<1> SUFFICES ASSUME TypedInv, [Next]_vars PROVE TypedInv'
  OBVIOUS
<1>1. ASSUME NEW k \in Campaigns, PostGuard(k) PROVE TypedInv'
  <2>1. RouterTypeOK' /\ ActorOK'
    BY <1>1 DEF PostGuard, TypedInv, RouterTypeOK, ActorOK, Sending, Stages
  <2>2. JobTyped' /\ JobOK'
    BY <1>1 DEF PostGuard, TypedInv, JobTyped, JobOK
  <2>3. MailingTyped'
    BY <1>1 DEF PostGuard, TypedInv, JobTyped, JobOK, MailingTyped
  <2>4. FreshTyped'
    BY <1>1 DEF PostGuard, TypedInv, FreshTyped
  <2>5. QED
    BY <2>1, <2>2, <2>3, <2>4 DEF TypedInv
<1>2. ASSUME NEW k \in Campaigns, PostInsert(k) PROVE TypedInv'
  <2>1. RouterTypeOK' /\ ActorOK'
    BY <1>2 DEF PostInsert, TypedInv, RouterTypeOK, ActorOK, Sending, Stages
  <2>2. JobTyped' /\ JobOK'
    BY <1>2 DEF PostInsert, TypedInv, JobTyped, JobOK
  <2>3. MailingTyped'
    BY <1>2 DEF PostInsert, TypedInv, JobTyped, JobOK, MailingTyped
  <2>4. FreshTyped'
    BY <1>2 DEF PostInsert, TypedInv, FreshTyped
  <2>5. QED
    BY <2>1, <2>2, <2>3, <2>4 DEF TypedInv
<1>3. ASSUME NEW k \in Campaigns, PostBatch(k) PROVE TypedInv'
  <2>1. RouterTypeOK' /\ ActorOK'
    BY <1>3 DEF PostBatch, TypedInv, RouterTypeOK, ActorOK, Sending, Stages
  <2>2. JobTyped' /\ JobOK'
    BY <1>3 DEF PostBatch, TypedInv, JobTyped, JobOK
  <2>3. MailingTyped'
    BY <1>3 DEF PostBatch, TypedInv, JobTyped, JobOK, MailingTyped
  <2>4. FreshTyped'
    BY <1>3 DEF PostBatch, TypedInv, FreshTyped
  <2>5. QED
    BY <2>1, <2>2, <2>3, <2>4 DEF TypedInv
<1>4. ASSUME NEW k \in Campaigns, PostBatchFails(k) PROVE TypedInv'
  <2>1. RouterTypeOK' /\ ActorOK'
    BY <1>4 DEF PostBatchFails, Fault, TypedInv, RouterTypeOK, ActorOK, Sending, Stages
  <2>2. JobTyped' /\ JobOK'
    BY <1>4 DEF PostBatchFails, Fault, TypedInv, JobTyped, JobOK
  <2>3. MailingTyped'
    BY <1>4 DEF PostBatchFails, Fault, TypedInv, JobTyped, JobOK, MailingTyped
  <2>4. FreshTyped'
    BY <1>4 DEF PostBatchFails, Fault, TypedInv, FreshTyped
  <2>5. QED
    BY <2>1, <2>2, <2>3, <2>4 DEF TypedInv
<1>5. ASSUME NEW k \in Campaigns, Cancel(k) PROVE TypedInv'
  <2>1. RouterTypeOK' /\ ActorOK'
    BY <1>5 DEF Cancel, TypedInv, RouterTypeOK, ActorOK, Sending, Stages
  <2>2. JobTyped' /\ JobOK'
    BY <1>5 DEF Cancel, TypedInv, JobTyped, JobOK
  <2>3. MailingTyped'
    BY <1>5 DEF Cancel, TypedInv, JobTyped, JobOK, MailingTyped
  <2>4. FreshTyped'
    BY <1>5 DEF Cancel, TypedInv, FreshTyped
  <2>5. QED
    BY <2>1, <2>2, <2>3, <2>4 DEF TypedInv
<1>6. ASSUME NEW k \in Campaigns, HeartbeatAges(k) PROVE TypedInv'
  <2>1. RouterTypeOK' /\ ActorOK'
    BY <1>6 DEF HeartbeatAges, TypedInv, RouterTypeOK, ActorOK, Sending, Stages
  <2>2. JobTyped' /\ JobOK'
    BY <1>6 DEF HeartbeatAges, TypedInv, JobTyped, JobOK
  <2>3. MailingTyped'
    BY <1>6 DEF HeartbeatAges, TypedInv, JobTyped, JobOK, MailingTyped
  <2>4. FreshTyped'
    BY <1>6 DEF HeartbeatAges, TypedInv, FreshTyped
  <2>5. QED
    BY <2>1, <2>2, <2>3, <2>4 DEF TypedInv
<1>7. ASSUME NEW k \in Campaigns, JobPick(k) PROVE TypedInv'
  <2>1. RouterTypeOK' /\ ActorOK'
    BY <1>7 DEF JobPick, Stale, TypedInv, RouterTypeOK, ActorOK, Sending, Stages
  <2>2. JobTyped' /\ JobOK'
    BY <1>7 DEF JobPick, Stale, TypedInv, JobTyped, JobOK
  <2>3. MailingTyped'
    BY <1>7 DEF JobPick, Stale, TypedInv, JobTyped, JobOK, MailingTyped
  <2>4. FreshTyped'
    BY <1>7 DEF JobPick, Stale, TypedInv, FreshTyped
  <2>5. QED
    BY <2>1, <2>2, <2>3, <2>4 DEF TypedInv
<1>8. ASSUME JobClaim PROVE TypedInv'
  <2>1. RouterTypeOK' /\ ActorOK'
    <3>1. CASE UNCHANGED routerVars
      BY <3>1 DEF TypedInv, RouterTypeOK, ActorOK
    <3>2. CASE DropPool(Job) /\ UNCHANGED <<accounts, calls, faults>>
      <4>1. seen' \in [Callers -> [Actors -> Pauses \cup Unwell]]
        BY <3>2 DEF DropPool, TypedInv, RouterTypeOK
      <4>2. QED
        BY <3>2, <4>1 DEF TypedInv, RouterTypeOK, ActorOK
    <3>3. QED
      BY <1>8, <3>1, <3>2 DEF JobClaim, JobEnds
  <2>2. JobTyped' /\ JobOK'
    BY <1>8 DEF JobClaim, JobGoto, JobEnds, DropPool, TypedInv, JobTyped, JobOK
  <2>3. MailingTyped'
    BY <1>8 DEF JobClaim, JobGoto, JobEnds, DropPool, TypedInv, JobTyped, JobOK, MailingTyped
  <2>4. FreshTyped'
    BY <1>8 DEF JobClaim, JobGoto, JobEnds, DropPool, TypedInv, FreshTyped
  <2>5. QED
    BY <2>1, <2>2, <2>3, <2>4 DEF TypedInv
<1>9. ASSUME JobLoad PROVE TypedInv'
  <2>1. RouterTypeOK' /\ ActorOK'
    BY <1>9 DEF JobLoad, LoadPool, Pending, RowsOf, TypedInv, RouterTypeOK, ActorOK, Sending, Stages
  <2>2. JobTyped' /\ JobOK'
    BY <1>9 DEF JobLoad, LoadPool, Pending, RowsOf, TypedInv, JobTyped, JobOK
  <2>3. MailingTyped'
    BY <1>9 DEF JobLoad, LoadPool, Pending, RowsOf, TypedInv, JobTyped, JobOK, MailingTyped
  <2>4. FreshTyped'
    BY <1>9 DEF JobLoad, LoadPool, Pending, RowsOf, TypedInv, FreshTyped
  <2>5. QED
    BY <2>1, <2>2, <2>3, <2>4 DEF TypedInv
<1>10. ASSUME JobLoadFails PROVE TypedInv'
  <2>1. RouterTypeOK' /\ ActorOK'
    BY <1>10 DEF JobLoadFails, Fault, JobEnds, DropPool, TypedInv, RouterTypeOK, ActorOK, Sending, Stages
  <2>2. JobTyped' /\ JobOK'
    BY <1>10 DEF JobLoadFails, Fault, JobEnds, DropPool, TypedInv, JobTyped, JobOK
  <2>3. MailingTyped'
    BY <1>10 DEF JobLoadFails, Fault, JobEnds, DropPool, TypedInv, JobTyped, JobOK, MailingTyped
  <2>4. FreshTyped'
    BY <1>10 DEF JobLoadFails, Fault, JobEnds, DropPool, TypedInv, FreshTyped
  <2>5. QED
    BY <2>1, <2>2, <2>3, <2>4 DEF TypedInv
<1>11. ASSUME JobGivesUp PROVE TypedInv'
  <2>1. RouterTypeOK' /\ ActorOK'
    BY <1>11 DEF JobGivesUp, Fault, TypedInv, RouterTypeOK, ActorOK, Sending, Stages
  <2>2. JobTyped' /\ JobOK'
    BY <1>11 DEF JobGivesUp, Fault, TypedInv, JobTyped, JobOK
  <2>3. MailingTyped'
    BY <1>11 DEF JobGivesUp, Fault, TypedInv, JobTyped, JobOK, MailingTyped
  <2>4. FreshTyped'
    BY <1>11 DEF JobGivesUp, Fault, TypedInv, FreshTyped
  <2>5. QED
    BY <2>1, <2>2, <2>3, <2>4 DEF TypedInv
<1>12. ASSUME JobCheck PROVE TypedInv'
  <2>1. RouterTypeOK' /\ ActorOK'
    BY <1>12 DEF JobCheck, Ours, Fault, TypedInv, RouterTypeOK, ActorOK, Sending, Stages
  <2>2. JobTyped' /\ JobOK'
    BY <1>12 DEF JobCheck, Ours, Fault, TypedInv, JobTyped, JobOK
  <2>3. MailingTyped'
    BY <1>12 DEF JobCheck, Ours, Fault, TypedInv, JobTyped, JobOK, MailingTyped
  <2>4. FreshTyped'
    BY <1>12 DEF JobCheck, Ours, Fault, TypedInv, FreshTyped
  <2>5. QED
    BY <2>1, <2>2, <2>3, <2>4 DEF TypedInv
<1>13. ASSUME JobStops PROVE TypedInv'
  <2>1. RouterTypeOK' /\ ActorOK'
    BY <1>13 DEF JobStops, JobGoto, TypedInv, RouterTypeOK, ActorOK, Sending, Stages
  <2>2. JobTyped' /\ JobOK'
    BY <1>13 DEF JobStops, JobGoto, TypedInv, JobTyped, JobOK
  <2>3. MailingTyped'
    BY <1>13 DEF JobStops, JobGoto, TypedInv, JobTyped, JobOK, MailingTyped
  <2>4. FreshTyped'
    BY <1>13 DEF JobStops, JobGoto, TypedInv, FreshTyped
  <2>5. QED
    BY <2>1, <2>2, <2>3, <2>4 DEF TypedInv
<1>14. ASSUME JobBot PROVE TypedInv'
  <2>1. RouterTypeOK' /\ ActorOK'
    BY <1>14 DEF JobBot, Arrives, Fault, TypedInv, RouterTypeOK, ActorOK, Sending, Stages
  <2>2. JobTyped' /\ JobOK'
    BY <1>14 DEF JobBot, Arrives, Fault, TypedInv, JobTyped, JobOK
  <2>3. MailingTyped'
    BY <1>14 DEF JobBot, Arrives, Fault, TypedInv, JobTyped, JobOK, MailingTyped
  <2>4. FreshTyped'
    BY <1>14 DEF JobBot, Arrives, Fault, TypedInv, FreshTyped
  <2>5. QED
    BY <2>1, <2>2, <2>3, <2>4 DEF TypedInv
<1>15. ASSUME JobFallback PROVE TypedInv'
  <2>1. RouterTypeOK' /\ ActorOK'
    <3>1. CASE sender[jobC] = "bot" \/ Selected(jobC) = {}
      BY <1>15, <3>1 DEF JobFallback, TypedInv, RouterTypeOK, ActorOK
    <3>2. CASE ~(sender[jobC] = "bot" \/ Selected(jobC) = {})
      <4>1. Selected(jobC) \in SUBSET Actors
        BY <1>15 DEF JobFallback, TypedInv, JobOK, Selected
      <4>2. Enter(Job, Selected(jobC)) /\ UNCHANGED seen
        BY <1>15, <3>2 DEF JobFallback
      <4>3. QED
        BY <4>1, <4>2 DEF Enter, TypedInv, RouterTypeOK, ActorOK, Sending, Stages
    <3>3. QED
      BY <3>1, <3>2
  <2>2. JobTyped' /\ JobOK'
    BY <1>15 DEF JobFallback, Enter, TypedInv, JobTyped, JobOK
  <2>3. MailingTyped'
    BY <1>15 DEF JobFallback, Enter, TypedInv, JobTyped, JobOK, MailingTyped
  <2>4. FreshTyped'
    BY <1>15 DEF JobFallback, Enter, TypedInv, FreshTyped
  <2>5. QED
    BY <2>1, <2>2, <2>3, <2>4 DEF TypedInv
<1>16. ASSUME JobRouter PROVE TypedInv'
  <2>1. RouterTypeOK' /\ ActorOK'
    BY <1>16, WalkTyped DEF JobRouter, TypedInv
  <2>2. JobTyped' /\ JobOK'
    BY <1>16 DEF JobRouter, Arrives, TypedInv, JobTyped, JobOK
  <2>3. MailingTyped'
    BY <1>16 DEF JobRouter, Arrives, TypedInv, JobTyped, JobOK, MailingTyped
  <2>4. FreshTyped'
    BY <1>16 DEF JobRouter, Arrives, TypedInv, FreshTyped
  <2>5. QED
    BY <2>1, <2>2, <2>3, <2>4 DEF TypedInv
<1>17. ASSUME JobRouterReturns PROVE TypedInv'
  <2>1. RouterTypeOK' /\ ActorOK'
    BY <1>17 DEF JobRouterReturns, Leave, Returned, Fault, TypedInv, RouterTypeOK, ActorOK, Sending, Stages
  <2>2. JobTyped' /\ JobOK'
    BY <1>17 DEF JobRouterReturns, Leave, Returned, Fault, TypedInv, JobTyped, JobOK
  <2>3. MailingTyped'
    BY <1>17 DEF JobRouterReturns, Leave, Returned, Fault, TypedInv, JobTyped, JobOK, MailingTyped
  <2>4. FreshTyped'
    BY <1>17 DEF JobRouterReturns, Leave, Returned, Fault, TypedInv, FreshTyped
  <2>5. QED
    BY <2>1, <2>2, <2>3, <2>4 DEF TypedInv
<1>18. ASSUME JobMark PROVE TypedInv'
  <2>1. RouterTypeOK' /\ ActorOK'
    BY <1>18 DEF JobMark, Ours, Fault, TypedInv, RouterTypeOK, ActorOK, Sending, Stages
  <2>2. JobTyped' /\ JobOK'
    BY <1>18 DEF JobMark, Ours, Fault, TypedInv, JobTyped, JobOK
  <2>3. MailingTyped'
    BY <1>18 DEF JobMark, Ours, Fault, TypedInv, JobTyped, JobOK, MailingTyped
  <2>4. FreshTyped'
    BY <1>18 DEF JobMark, Ours, Fault, TypedInv, FreshTyped
  <2>5. QED
    BY <2>1, <2>2, <2>3, <2>4 DEF TypedInv
<1>19. ASSUME JobDecide PROVE TypedInv'
  <2>1. RouterTypeOK' /\ ActorOK'
    BY <1>19 DEF JobDecide, Ours, JobEnds, DropPool, TypedInv, RouterTypeOK, ActorOK, Sending, Stages
  <2>2. JobTyped' /\ JobOK'
    BY <1>19 DEF JobDecide, Ours, JobEnds, DropPool, TypedInv, JobTyped, JobOK
  <2>3. MailingTyped'
    BY <1>19 DEF JobDecide, Ours, JobEnds, DropPool, TypedInv, JobTyped, JobOK, MailingTyped
  <2>4. FreshTyped'
    BY <1>19 DEF JobDecide, Ours, JobEnds, DropPool, TypedInv, FreshTyped
  <2>5. QED
    BY <2>1, <2>2, <2>3, <2>4 DEF TypedInv
<1>20. ASSUME JobClose PROVE TypedInv'
  <2>1. RouterTypeOK' /\ ActorOK'
    BY <1>20 DEF JobClose, Closable, JobEnds, DropPool, TypedInv, RouterTypeOK, ActorOK, Sending, Stages
  <2>2. JobTyped' /\ JobOK'
    BY <1>20 DEF JobClose, Closable, JobEnds, DropPool, TypedInv, JobTyped, JobOK
  <2>3. MailingTyped'
    BY <1>20 DEF JobClose, Closable, JobEnds, DropPool, TypedInv, JobTyped, JobOK, MailingTyped
  <2>4. FreshTyped'
    BY <1>20 DEF JobClose, Closable, JobEnds, DropPool, TypedInv, FreshTyped
  <2>5. QED
    BY <2>1, <2>2, <2>3, <2>4 DEF TypedInv
<1>21. ASSUME JobCloseFails PROVE TypedInv'
  <2>1. RouterTypeOK' /\ ActorOK'
    BY <1>21 DEF JobCloseFails, Fault, JobEnds, DropPool, TypedInv, RouterTypeOK, ActorOK, Sending, Stages
  <2>2. JobTyped' /\ JobOK'
    BY <1>21 DEF JobCloseFails, Fault, JobEnds, DropPool, TypedInv, JobTyped, JobOK
  <2>3. MailingTyped'
    BY <1>21 DEF JobCloseFails, Fault, JobEnds, DropPool, TypedInv, JobTyped, JobOK, MailingTyped
  <2>4. FreshTyped'
    BY <1>21 DEF JobCloseFails, Fault, JobEnds, DropPool, TypedInv, FreshTyped
  <2>5. QED
    BY <2>1, <2>2, <2>3, <2>4 DEF TypedInv
<1>22. ASSUME NEW c \in Callers, ManualRouter(c) PROVE TypedInv'
  <2>1. RouterTypeOK' /\ ActorOK'
    <3>1. CASE RouterWalks(c) \/ SendSucceeds(c) \/ SendReplyLost(c)
      BY <3>1, WalkTyped DEF TypedInv
    <3>2. CASE Leave(c) /\ DropPool(c) /\ UNCHANGED faults
      BY <3>2 DEF Leave, DropPool, TypedInv, RouterTypeOK, ActorOK, Sending, Stages
    <3>3. QED
      BY <1>22, <3>1, <3>2 DEF ManualRouter
  <2>2. JobTyped' /\ JobOK'
    BY <1>22 DEF ManualRouter, Leave, Returned, DropPool, TypedInv, JobTyped, JobOK
  <2>3. MailingTyped'
    BY <1>22 DEF ManualRouter, Leave, Returned, DropPool, TypedInv, JobTyped, JobOK, MailingTyped
  <2>4. FreshTyped'
    BY <1>22 DEF ManualRouter, Leave, Returned, DropPool, TypedInv, FreshTyped
  <2>5. QED
    BY <2>1, <2>2, <2>3, <2>4 DEF TypedInv
<1>23. ASSUME NEW c \in Callers, NEW a \in Actors, ManualSend(c, a) PROVE TypedInv'
  <2>1. RouterTypeOK' /\ ActorOK'
    BY <1>23 DEF ManualSend, LoadPool, Enter, TypedInv, RouterTypeOK, ActorOK, Sending, Stages
  <2>2. JobTyped' /\ JobOK'
    BY <1>23 DEF ManualSend, LoadPool, Enter, TypedInv, JobTyped, JobOK
  <2>3. MailingTyped'
    BY <1>23 DEF ManualSend, LoadPool, Enter, TypedInv, JobTyped, JobOK, MailingTyped
  <2>4. FreshTyped'
    BY <1>23 DEF ManualSend, LoadPool, Enter, TypedInv, FreshTyped
  <2>5. QED
    BY <2>1, <2>2, <2>3, <2>4 DEF TypedInv
<1>24. ASSUME NEW a \in Actors, TimePasses(a) \/ AccountChanges(a) PROVE TypedInv'
  <2>1. RouterTypeOK' /\ ActorOK'
    <3>0. CASE HealthChanges(a)
      BY <3>0 DEF HealthChanges, Fault, TypedInv, RouterTypeOK, ActorOK
    <3>1. CASE WindowMoves(a)
      BY <3>1 DEF WindowMoves, TypedInv, RouterTypeOK, ActorOK
    <3>2. CASE PauseEnds(a)
      <4>1. seen' \in [Callers -> [Actors -> Pauses \cup Unwell]]
        <5>1. \A c \in Callers : [seen[c] EXCEPT ![a] = IF @ \in Unwell THEN @ ELSE "no"]
                                  \in [Actors -> Pauses \cup Unwell]
          BY DEF TypedInv, RouterTypeOK
        <5>2. QED
          BY <3>2, <5>1 DEF PauseEnds
      <4>2. QED
        BY <3>2, <4>1 DEF PauseEnds, TypedInv, RouterTypeOK, ActorOK
    <3>3. QED
      BY <1>24, <3>0, <3>1, <3>2 DEF TimePasses, AccountChanges
  <2>2. JobTyped' /\ JobOK'
    BY <1>24 DEF TimePasses, WindowMoves, PauseEnds, AccountChanges, HealthChanges, Fault, TypedInv, JobTyped, JobOK
  <2>3. MailingTyped'
    BY <1>24 DEF TimePasses, WindowMoves, PauseEnds, AccountChanges, HealthChanges, Fault, TypedInv, JobTyped, JobOK, MailingTyped
  <2>4. FreshTyped'
    BY <1>24 DEF TimePasses, WindowMoves, PauseEnds, AccountChanges, HealthChanges, Fault, TypedInv, FreshTyped
  <2>5. QED
    BY <2>1, <2>2, <2>3, <2>4 DEF TypedInv
<1>25. ASSUME Restart PROVE TypedInv'
  <2>1. RouterTypeOK' /\ ActorOK'
    BY <1>25 DEF Restart, Fault, AllIdle, TypedInv, RouterTypeOK, ActorOK, Sending, Stages
  <2>2. JobTyped' /\ JobOK'
    BY <1>25 DEF Restart, Fault, AllIdle, TypedInv, JobTyped, JobOK
  <2>3. MailingTyped'
    BY <1>25 DEF Restart, Fault, AllIdle, TypedInv, JobTyped, JobOK, MailingTyped
  <2>4. FreshTyped'
    BY <1>25 DEF Restart, Fault, AllIdle, TypedInv, FreshTyped
  <2>5. QED
    BY <2>1, <2>2, <2>3, <2>4 DEF TypedInv
<1>26. ASSUME UNCHANGED vars PROVE TypedInv'
  BY <1>26 DEF vars, TypedInv, RouterTypeOK, ActorOK, JobTyped, JobOK, MailingTyped, FreshTyped
<1>27. QED
  BY <1>1, <1>2, <1>3, <1>4, <1>5, <1>6, <1>7, <1>8, <1>9, <1>10, <1>11, <1>12, <1>13, <1>14, <1>15, <1>16, <1>17, <1>18, <1>19, <1>20, <1>21, <1>22, <1>23, <1>24, <1>25, <1>26 DEF Next, JobStep

\* Every variable keeps its type.
THEOREM TypeCorrect == Spec => []TypeOK
<1>1. TypedInv => TypeOK
  BY DEF TypedInv, JobTyped, MailingTyped, FreshTyped, TypeOK
<1>2. QED
  BY <1>1, TypedInit, TypedStep, PTL DEF Spec
-----------------------------------------------------------------------------
(***************************************************************************)
(* The quota.                                                              *)
(***************************************************************************)
\* What a step does to an actor's ledger and the calls under way with it.
Quieter(a) == ledger'[a] <= ledger[a] /\ Underway(a)' \subseteq Underway(a)
Chosen(a)  == ledger'[a] < Cap
Booked(a)  == \E c \in Underway(a) :
                ledger'[a] = ledger[a] + 1 /\ Underway(a)' = Underway(a) \ {c}

QuotaMoves == \A a \in Actors : Quieter(a) \/ Chosen(a) \/ Booked(a)

LEMMA WalkMoves ==
  ASSUME RouterTypeOK, ActorOK, NEW c \in Callers,
         RouterWalks(c) \/ SendSucceeds(c) \/ SendReplyLost(c)
  PROVE  QuotaMoves
<1>1. ASSUME NEW a \in Actors, PassOver(c, a) PROVE QuotaMoves
  BY <1>1 DEF PassOver, RouterTypeOK, QuotaMoves, Quieter, Underway
<1>2. ASSUME NEW a \in Actors, Choose(c, a) PROVE QuotaMoves
  <2>1. Chosen(a)
    BY <1>2 DEF Choose, UnderQuota, Chosen
  <2>2. ASSUME NEW b \in Actors, b # a PROVE Quieter(b)
    BY <1>2, <2>2 DEF Choose, RouterTypeOK, Quieter, Underway
  <2>3. QED
    BY <2>1, <2>2 DEF QuotaMoves
<1>3. ASSUME NEW k \in Pauses, SendFails(c, k) PROVE QuotaMoves
  BY <1>3 DEF SendFails, Fault, RouterTypeOK, QuotaMoves, Quieter, Underway
<1>4. ASSUME RecordSent(c) PROVE QuotaMoves
  <2>1. PICK a \in Actors : a = actor[c]
    BY <1>4 DEF RecordSent, ActorOK, Sending
  <2>2. Booked(a)
    <3>1. c \in Underway(a)
      BY <1>4, <2>1 DEF RecordSent, Underway
    <3>2. ledger'[a] = ledger[a] + 1
      BY <1>4, <2>1 DEF RecordSent, RouterTypeOK
    <3>3. Underway(a)' = Underway(a) \ {c}
      BY <1>4, <2>1 DEF RecordSent, RouterTypeOK, Underway
    <3>4. QED
      BY <3>1, <3>2, <3>3 DEF Booked
  <2>3. ASSUME NEW b \in Actors, b # a PROVE Quieter(b)
    BY <1>4, <2>1, <2>3 DEF RecordSent, RouterTypeOK, Quieter, Underway
  <2>4. QED
    BY <2>1, <2>2, <2>3 DEF QuotaMoves
<1>5. ASSUME RecordRefused(c) PROVE QuotaMoves
  BY <1>5 DEF RecordRefused, NextActor, RouterTypeOK, QuotaMoves, Quieter, Underway
<1>6. ASSUME PauseActor(c) PROVE QuotaMoves
  BY <1>6 DEF PauseActor, NextActor, RouterTypeOK, QuotaMoves, Quieter, Underway
<1>7. ASSUME Throws(c) PROVE QuotaMoves
  BY <1>7 DEF Throws, Fault, RouterTypeOK, QuotaMoves, Quieter, Underway
<1>8. ASSUME Exhausted(c) PROVE QuotaMoves
  BY <1>8 DEF Exhausted, RouterTypeOK, QuotaMoves, Quieter, Underway
<1>9. ASSUME SendSucceeds(c) PROVE QuotaMoves
  BY <1>9 DEF SendSucceeds, RouterTypeOK, QuotaMoves, Quieter, Underway
<1>10. ASSUME SendReplyLost(c) PROVE QuotaMoves
  BY <1>10 DEF SendReplyLost, Fault, RouterTypeOK, QuotaMoves, Quieter, Underway
<1>11. QED
  BY <1>1, <1>2, <1>3, <1>4, <1>5, <1>6, <1>7, <1>8, <1>9, <1>10 DEF RouterWalks

LEMMA QuotaMoving == TypedInv /\ [Next]_vars => QuotaMoves
<1> SUFFICES ASSUME TypedInv, [Next]_vars PROVE QuotaMoves
  OBVIOUS
<1>1. ASSUME NEW k \in Campaigns, PostGuard(k) PROVE QuotaMoves
  BY <1>1 DEF PostGuard, TypedInv, RouterTypeOK, QuotaMoves, Quieter, Underway
<1>2. ASSUME NEW k \in Campaigns, PostInsert(k) PROVE QuotaMoves
  BY <1>2 DEF PostInsert, TypedInv, RouterTypeOK, QuotaMoves, Quieter, Underway
<1>3. ASSUME NEW k \in Campaigns, PostBatch(k) PROVE QuotaMoves
  BY <1>3 DEF PostBatch, TypedInv, RouterTypeOK, QuotaMoves, Quieter, Underway
<1>4. ASSUME NEW k \in Campaigns, PostBatchFails(k) PROVE QuotaMoves
  BY <1>4 DEF PostBatchFails, Fault, TypedInv, RouterTypeOK, QuotaMoves, Quieter, Underway
<1>5. ASSUME NEW k \in Campaigns, Cancel(k) PROVE QuotaMoves
  BY <1>5 DEF Cancel, TypedInv, RouterTypeOK, QuotaMoves, Quieter, Underway
<1>6. ASSUME NEW k \in Campaigns, HeartbeatAges(k) PROVE QuotaMoves
  BY <1>6 DEF HeartbeatAges, TypedInv, RouterTypeOK, QuotaMoves, Quieter, Underway
<1>7. ASSUME NEW k \in Campaigns, JobPick(k) PROVE QuotaMoves
  BY <1>7 DEF JobPick, Stale, TypedInv, RouterTypeOK, QuotaMoves, Quieter, Underway
<1>8. ASSUME JobClaim PROVE QuotaMoves
  BY <1>8 DEF JobClaim, JobGoto, JobEnds, DropPool, TypedInv, RouterTypeOK, QuotaMoves, Quieter, Underway
<1>9. ASSUME JobLoad PROVE QuotaMoves
  BY <1>9 DEF JobLoad, LoadPool, Pending, RowsOf, TypedInv, RouterTypeOK, QuotaMoves, Quieter, Underway
<1>10. ASSUME JobLoadFails PROVE QuotaMoves
  BY <1>10 DEF JobLoadFails, Fault, JobEnds, DropPool, TypedInv, RouterTypeOK, QuotaMoves, Quieter, Underway
<1>11. ASSUME JobGivesUp PROVE QuotaMoves
  BY <1>11 DEF JobGivesUp, Fault, TypedInv, RouterTypeOK, QuotaMoves, Quieter, Underway
<1>12. ASSUME JobCheck PROVE QuotaMoves
  BY <1>12 DEF JobCheck, Ours, Fault, TypedInv, RouterTypeOK, QuotaMoves, Quieter, Underway
<1>13. ASSUME JobStops PROVE QuotaMoves
  BY <1>13 DEF JobStops, JobGoto, TypedInv, RouterTypeOK, QuotaMoves, Quieter, Underway
<1>14. ASSUME JobBot PROVE QuotaMoves
  BY <1>14 DEF JobBot, Arrives, Fault, TypedInv, RouterTypeOK, QuotaMoves, Quieter, Underway
<1>15. ASSUME JobFallback PROVE QuotaMoves
  BY <1>15 DEF JobFallback, Enter, TypedInv, RouterTypeOK, QuotaMoves, Quieter, Underway
<1>16. ASSUME JobRouter PROVE QuotaMoves
  BY <1>16, WalkMoves DEF JobRouter, TypedInv
<1>17. ASSUME JobRouterReturns PROVE QuotaMoves
  BY <1>17 DEF JobRouterReturns, Leave, Returned, Fault, TypedInv, RouterTypeOK, QuotaMoves, Quieter, Underway
<1>18. ASSUME JobMark PROVE QuotaMoves
  BY <1>18 DEF JobMark, Ours, Fault, TypedInv, RouterTypeOK, QuotaMoves, Quieter, Underway
<1>19. ASSUME JobDecide PROVE QuotaMoves
  BY <1>19 DEF JobDecide, Ours, JobEnds, DropPool, TypedInv, RouterTypeOK, QuotaMoves, Quieter, Underway
<1>20. ASSUME JobClose PROVE QuotaMoves
  BY <1>20 DEF JobClose, Closable, JobEnds, DropPool, TypedInv, RouterTypeOK, QuotaMoves, Quieter, Underway
<1>21. ASSUME JobCloseFails PROVE QuotaMoves
  BY <1>21 DEF JobCloseFails, Fault, JobEnds, DropPool, TypedInv, RouterTypeOK, QuotaMoves, Quieter, Underway
<1>22. ASSUME NEW c \in Callers, ManualRouter(c) PROVE QuotaMoves
  <2>1. CASE RouterWalks(c) \/ SendSucceeds(c) \/ SendReplyLost(c)
    BY <2>1, WalkMoves DEF TypedInv
  <2>2. CASE Leave(c) /\ UNCHANGED faults
    BY <2>2 DEF Leave, TypedInv, RouterTypeOK, QuotaMoves, Quieter, Underway
  <2>3. QED
    BY <1>22, <2>1, <2>2 DEF ManualRouter
<1>23. ASSUME NEW c \in Callers, NEW a \in Actors, ManualSend(c, a) PROVE QuotaMoves
  BY <1>23 DEF ManualSend, LoadPool, Enter, TypedInv, RouterTypeOK, QuotaMoves, Quieter, Underway
<1>24. ASSUME NEW a \in Actors, TimePasses(a) \/ AccountChanges(a) PROVE QuotaMoves
  BY <1>24 DEF TimePasses, WindowMoves, PauseEnds, AccountChanges, HealthChanges, Fault, TypedInv, RouterTypeOK, QuotaMoves, Quieter, Underway
<1>25. ASSUME Restart PROVE QuotaMoves
  BY <1>25 DEF Restart, Fault, AllIdle, TypedInv, RouterTypeOK, QuotaMoves, Quieter, Underway
<1>26. ASSUME UNCHANGED vars PROVE QuotaMoves
  BY <1>26 DEF vars, TypedInv, RouterTypeOK, QuotaMoves, Quieter, Underway
<1>27. QED
  BY <1>1, <1>2, <1>3, <1>4, <1>5, <1>6, <1>7, <1>8, <1>9, <1>10, <1>11, <1>12, <1>13, <1>14, <1>15, <1>16, <1>17, <1>18, <1>19, <1>20, <1>21, <1>22, <1>23, <1>24, <1>25, <1>26 DEF Next, JobStep

LEMMA UnderwayFinite ==
  ASSUME NEW a \in Actors
  PROVE  /\ IsFiniteSet(Underway(a)) /\ Cardinality(Underway(a)) \in Nat
         /\ Cardinality(Underway(a)) <= Cardinality(Callers)
         /\ Cardinality(Callers) \in Nat /\ Cardinality(Callers) > 0
<1>1. IsFiniteSet(Underway(a)) /\ Cardinality(Underway(a)) <= Cardinality(Callers)
  BY FS_Subset DEF Underway
<1>2. Cardinality(Callers) # 0
  BY FS_EmptySet
<1>3. QED
  BY <1>1, <1>2, FS_CardinalityType

LEMMA QuotaStep ==
  TypedInv /\ QuotaOvershootBounded /\ TypedInv' /\ [Next]_vars => QuotaOvershootBounded'
<1> SUFFICES ASSUME TypedInv, QuotaOvershootBounded, TypedInv', [Next]_vars,
                    NEW a \in Actors
             PROVE  ledger'[a] + Cardinality(Underway(a)') < Cap + Cardinality(Callers)
  BY DEF QuotaOvershootBounded
<1>1. /\ Quieter(a) \/ Chosen(a) \/ Booked(a)
      /\ ledger[a] \in Nat /\ ledger'[a] \in Nat
      /\ ledger[a] + Cardinality(Underway(a)) < Cap + Cardinality(Callers)
  BY QuotaMoving DEF QuotaMoves, TypedInv, RouterTypeOK, QuotaOvershootBounded
<1>2. CASE Quieter(a)
  <2>1. Cardinality(Underway(a)') <= Cardinality(Underway(a)) /\ Cardinality(Underway(a)') \in Nat
    BY <1>2, UnderwayFinite, FS_Subset, FS_CardinalityType DEF Quieter
  <2>2. QED
    BY <1>1, <1>2, <2>1, UnderwayFinite DEF Quieter
<1>3. CASE Chosen(a)
  <2>1. Underway(a)' \subseteq Callers
    BY DEF Underway
  <2>2. Cardinality(Underway(a)') <= Cardinality(Callers) /\ Cardinality(Underway(a)') \in Nat
    BY <2>1, FS_Subset, FS_CardinalityType
  <2>3. QED
    <3>1. ledger'[a] < Cap
      BY <1>3 DEF Chosen
    <3>2. Cardinality(Callers) \in Nat /\ Cap \in Nat
      BY FS_CardinalityType, RouterConstants
    <3>3. QED
      BY <1>1, <2>2, <3>1, <3>2
<1>4. CASE Booked(a)
  <2>1. PICK c \in Underway(a) :
          ledger'[a] = ledger[a] + 1 /\ Underway(a)' = Underway(a) \ {c}
    BY <1>4 DEF Booked
  <2>2. Cardinality(Underway(a)') = Cardinality(Underway(a)) - 1
    <3>1. IsFiniteSet(Underway(a)) /\ c \in Underway(a)
      BY <2>1, UnderwayFinite
    <3>2. Cardinality(Underway(a) \ {c}) = Cardinality(Underway(a)) - 1
      BY <3>1, FS_RemoveElement
    <3>3. QED
      BY <2>1, <3>2
  <2>3. QED
    BY <1>1, <2>1, <2>2, UnderwayFinite
<1>5. QED
  BY <1>1, <1>2, <1>3, <1>4

\* A userbot's window goes over its cap by fewer sends than there are callers
\* of the router, however many calls count the quota at once.
THEOREM QuotaBounded == Spec => []QuotaOvershootBounded
<1>1. Init => QuotaOvershootBounded
  <2> SUFFICES ASSUME Init, NEW a \in Actors
               PROVE  ledger[a] + Cardinality(Underway(a)) < Cap + Cardinality(Callers)
    BY DEF QuotaOvershootBounded
  <2>1. Underway(a) = {} /\ ledger[a] = 0
    BY DEF Init, RouterInit, Underway
  <2>2. QED
    BY <2>1, FS_EmptySet, UnderwayFinite
<1>2. QED
  BY <1>1, TypedInit, TypedStep, QuotaStep, PTL DEF Spec
-----------------------------------------------------------------------------
(***************************************************************************)
(* Steps that leave the mailings alone.                                    *)
(***************************************************************************)
LEMMA Others ==
  ASSUME TypedInv,
         \/ \E c \in Callers : ManualRouter(c) \/ \E a \in Actors : ManualSend(c, a)
         \/ \E a \in Actors : TimePasses(a) \/ AccountChanges(a)
  PROVE  /\ UNCHANGED <<status, row, post, jobVars, historyVars>>
         /\ stage'[Job] = stage[Job]
         /\ faults \in Nat /\ faults' \in {faults, faults + 1}
<1>1. ASSUME NEW c \in Callers, ManualRouter(c)
      PROVE  /\ UNCHANGED <<status, row, post, jobVars, historyVars>>
             /\ stage'[Job] = stage[Job]
             /\ faults \in Nat /\ faults' \in {faults, faults + 1}
  <2>1. CASE RouterWalks(c)
    BY <1>1, <2>1, WalkShape DEF ManualRouter, TypedInv, RouterTypeOK
  <2>2. CASE ~RouterWalks(c)
    BY <1>1, <2>2 DEF ManualRouter, SendSucceeds, SendReplyLost, Leave, Fault, TypedInv, RouterTypeOK
  <2>3. QED
    BY <2>1, <2>2
<1>2. ASSUME NEW c \in Callers, NEW a \in Actors, ManualSend(c, a)
      PROVE  /\ UNCHANGED <<status, row, post, jobVars, historyVars>>
             /\ stage'[Job] = stage[Job]
             /\ faults \in Nat /\ faults' \in {faults, faults + 1}
  BY <1>2 DEF ManualSend, Enter, TypedInv, RouterTypeOK
<1>3. ASSUME NEW a \in Actors, TimePasses(a) \/ AccountChanges(a)
      PROVE  /\ UNCHANGED <<status, row, post, jobVars, historyVars>>
             /\ stage'[Job] = stage[Job]
             /\ faults \in Nat /\ faults' \in {faults, faults + 1}
  BY <1>3 DEF TimePasses, WindowMoves, PauseEnds, AccountChanges, HealthChanges, Fault, TypedInv, RouterTypeOK
<1>4. QED
  BY <1>1, <1>2, <1>3

-----------------------------------------------------------------------------
(***************************************************************************)
(* Closing.                                                                *)
(***************************************************************************)
\* Before its insert a campaign has no status.
PostInv == \A k \in Campaigns : post[k] \in {"no", "checked"} => status[k] = "none"

LEMMA PostInit == Init => PostInv
  BY DEF Init, PostInv

LEMMA PostStep == TypedInv /\ PostInv /\ [Next]_vars => PostInv'
<1> SUFFICES ASSUME TypedInv /\ PostInv, [Next]_vars PROVE PostInv'
  OBVIOUS
<1>1. ASSUME NEW k \in Campaigns, PostGuard(k) PROVE PostInv'
  BY <1>1 DEF PostGuard, TypedInv, MailingTyped, JobTyped, JobOK, PostInv
<1>2. ASSUME NEW k \in Campaigns, PostInsert(k) PROVE PostInv'
  BY <1>2 DEF PostInsert, TypedInv, MailingTyped, JobTyped, JobOK, PostInv
<1>3. ASSUME NEW k \in Campaigns, PostBatch(k) PROVE PostInv'
  BY <1>3 DEF PostBatch, TypedInv, MailingTyped, JobTyped, JobOK, PostInv
<1>4. ASSUME NEW k \in Campaigns, PostBatchFails(k) PROVE PostInv'
  BY <1>4 DEF PostBatchFails, Fault, TypedInv, MailingTyped, JobTyped, JobOK, PostInv
<1>5. ASSUME NEW k \in Campaigns, Cancel(k) PROVE PostInv'
  BY <1>5 DEF Cancel, TypedInv, MailingTyped, JobTyped, JobOK, PostInv
<1>6. ASSUME NEW k \in Campaigns, HeartbeatAges(k) PROVE PostInv'
  BY <1>6 DEF HeartbeatAges, TypedInv, MailingTyped, JobTyped, JobOK, PostInv
<1>7. ASSUME NEW k \in Campaigns, JobPick(k) PROVE PostInv'
  BY <1>7 DEF JobPick, Stale, TypedInv, MailingTyped, JobTyped, JobOK, PostInv
<1>8. ASSUME JobClaim PROVE PostInv'
  BY <1>8 DEF JobClaim, JobGoto, JobEnds, DropPool, TypedInv, MailingTyped, JobTyped, JobOK, PostInv
<1>9. ASSUME JobLoad PROVE PostInv'
  BY <1>9 DEF JobLoad, LoadPool, Pending, RowsOf, TypedInv, MailingTyped, JobTyped, JobOK, PostInv
<1>10. ASSUME JobLoadFails PROVE PostInv'
  BY <1>10 DEF JobLoadFails, Fault, JobEnds, DropPool, TypedInv, MailingTyped, JobTyped, JobOK, PostInv
<1>11. ASSUME JobGivesUp PROVE PostInv'
  BY <1>11 DEF JobGivesUp, Fault, TypedInv, MailingTyped, JobTyped, JobOK, PostInv
<1>12. ASSUME JobCheck PROVE PostInv'
  BY <1>12 DEF JobCheck, Ours, Fault, TypedInv, MailingTyped, JobTyped, JobOK, PostInv
<1>13. ASSUME JobStops PROVE PostInv'
  BY <1>13 DEF JobStops, JobGoto, TypedInv, MailingTyped, JobTyped, JobOK, PostInv
<1>14. ASSUME JobBot PROVE PostInv'
  BY <1>14 DEF JobBot, Arrives, Fault, TypedInv, MailingTyped, JobTyped, JobOK, PostInv
<1>15. ASSUME JobFallback PROVE PostInv'
  BY <1>15 DEF JobFallback, Enter, TypedInv, MailingTyped, JobTyped, JobOK, PostInv
<1>16. ASSUME JobRouter PROVE PostInv'
  BY <1>16 DEF JobRouter, Arrives, TypedInv, MailingTyped, JobTyped, JobOK, PostInv
<1>17. ASSUME JobRouterReturns PROVE PostInv'
  BY <1>17 DEF JobRouterReturns, Leave, Returned, Fault, TypedInv, MailingTyped, JobTyped, JobOK, PostInv
<1>18. ASSUME JobMark PROVE PostInv'
  BY <1>18 DEF JobMark, Ours, Fault, TypedInv, MailingTyped, JobTyped, JobOK, PostInv
<1>19. ASSUME JobDecide PROVE PostInv'
  BY <1>19 DEF JobDecide, Ours, JobEnds, DropPool, TypedInv, MailingTyped, JobTyped, JobOK, PostInv
<1>20. ASSUME JobClose PROVE PostInv'
  BY <1>20 DEF JobClose, Closable, JobEnds, DropPool, TypedInv, MailingTyped, JobTyped, JobOK, PostInv
<1>21. ASSUME JobCloseFails PROVE PostInv'
  BY <1>21 DEF JobCloseFails, Fault, JobEnds, DropPool, TypedInv, MailingTyped, JobTyped, JobOK, PostInv
<1>22. ASSUME NEW c \in Callers, ManualRouter(c) PROVE PostInv'
  BY <1>22, Others DEF PostInv
<1>23. ASSUME NEW c \in Callers, NEW a \in Actors, ManualSend(c, a) PROVE PostInv'
  BY <1>23, Others DEF PostInv
<1>24. ASSUME NEW a \in Actors, TimePasses(a) \/ AccountChanges(a) PROVE PostInv'
  BY <1>24, Others DEF PostInv
<1>25. ASSUME Restart PROVE PostInv'
  BY <1>25 DEF Restart, Fault, AllIdle, TypedInv, MailingTyped, JobTyped, JobOK, PostInv
<1>26. ASSUME UNCHANGED vars PROVE PostInv'
  BY <1>26 DEF vars, PostInv
<1>27. QED
  BY <1>1, <1>2, <1>3, <1>4, <1>5, <1>6, <1>7, <1>8, <1>9, <1>10, <1>11, <1>12, <1>13, <1>14, <1>15, <1>16, <1>17, <1>18, <1>19, <1>20, <1>21, <1>22, <1>23, <1>24, <1>25, <1>26 DEF Next, JobStep

LEMMA ClosedStep ==
  TypedInv /\ PostInv /\ [Next]_vars =>
    \A k \in Campaigns : status[k] \in Closed => status'[k] = status[k]
<1> SUFFICES ASSUME TypedInv, PostInv, [Next]_vars, NEW x \in Campaigns, status[x] \in Closed
             PROVE  status'[x] = status[x]
  OBVIOUS
<1>1. ASSUME NEW k \in Campaigns, PostGuard(k) PROVE status'[x] = status[x]
  BY <1>1 DEF PostGuard, TypedInv, MailingTyped, JobTyped, JobOK, PostInv
<1>2. ASSUME NEW k \in Campaigns, PostInsert(k) PROVE status'[x] = status[x]
  BY <1>2 DEF PostInsert, TypedInv, MailingTyped, JobTyped, JobOK, PostInv
<1>3. ASSUME NEW k \in Campaigns, PostBatch(k) PROVE status'[x] = status[x]
  BY <1>3 DEF PostBatch, TypedInv, MailingTyped, JobTyped, JobOK, PostInv
<1>4. ASSUME NEW k \in Campaigns, PostBatchFails(k) PROVE status'[x] = status[x]
  BY <1>4 DEF PostBatchFails, Fault, TypedInv, MailingTyped, JobTyped, JobOK, PostInv
<1>5. ASSUME NEW k \in Campaigns, Cancel(k) PROVE status'[x] = status[x]
  BY <1>5 DEF Cancel, TypedInv, MailingTyped, JobTyped, JobOK, PostInv
<1>6. ASSUME NEW k \in Campaigns, HeartbeatAges(k) PROVE status'[x] = status[x]
  BY <1>6 DEF HeartbeatAges, TypedInv, MailingTyped, JobTyped, JobOK, PostInv
<1>7. ASSUME NEW k \in Campaigns, JobPick(k) PROVE status'[x] = status[x]
  BY <1>7 DEF JobPick, Stale, TypedInv, MailingTyped, JobTyped, JobOK, PostInv
<1>8. ASSUME JobClaim PROVE status'[x] = status[x]
  BY <1>8 DEF JobClaim, JobGoto, JobEnds, DropPool, TypedInv, MailingTyped, JobTyped, JobOK, PostInv
<1>9. ASSUME JobLoad PROVE status'[x] = status[x]
  BY <1>9 DEF JobLoad, LoadPool, Pending, RowsOf, TypedInv, MailingTyped, JobTyped, JobOK, PostInv
<1>10. ASSUME JobLoadFails PROVE status'[x] = status[x]
  BY <1>10 DEF JobLoadFails, Fault, JobEnds, DropPool, TypedInv, MailingTyped, JobTyped, JobOK, PostInv
<1>11. ASSUME JobGivesUp PROVE status'[x] = status[x]
  BY <1>11 DEF JobGivesUp, Fault, TypedInv, MailingTyped, JobTyped, JobOK, PostInv
<1>12. ASSUME JobCheck PROVE status'[x] = status[x]
  BY <1>12 DEF JobCheck, Ours, Fault, TypedInv, MailingTyped, JobTyped, JobOK, PostInv
<1>13. ASSUME JobStops PROVE status'[x] = status[x]
  BY <1>13 DEF JobStops, JobGoto, TypedInv, MailingTyped, JobTyped, JobOK, PostInv
<1>14. ASSUME JobBot PROVE status'[x] = status[x]
  BY <1>14 DEF JobBot, Arrives, Fault, TypedInv, MailingTyped, JobTyped, JobOK, PostInv
<1>15. ASSUME JobFallback PROVE status'[x] = status[x]
  BY <1>15 DEF JobFallback, Enter, TypedInv, MailingTyped, JobTyped, JobOK, PostInv
<1>16. ASSUME JobRouter PROVE status'[x] = status[x]
  BY <1>16 DEF JobRouter, Arrives, TypedInv, MailingTyped, JobTyped, JobOK, PostInv
<1>17. ASSUME JobRouterReturns PROVE status'[x] = status[x]
  BY <1>17 DEF JobRouterReturns, Leave, Returned, Fault, TypedInv, MailingTyped, JobTyped, JobOK, PostInv
<1>18. ASSUME JobMark PROVE status'[x] = status[x]
  BY <1>18 DEF JobMark, Ours, Fault, TypedInv, MailingTyped, JobTyped, JobOK, PostInv
<1>19. ASSUME JobDecide PROVE status'[x] = status[x]
  BY <1>19 DEF JobDecide, Ours, JobEnds, DropPool, TypedInv, MailingTyped, JobTyped, JobOK, PostInv
<1>20. ASSUME JobClose PROVE status'[x] = status[x]
  BY <1>20 DEF JobClose, Closable, JobEnds, DropPool, TypedInv, MailingTyped, JobTyped, JobOK, PostInv
<1>21. ASSUME JobCloseFails PROVE status'[x] = status[x]
  BY <1>21 DEF JobCloseFails, Fault, JobEnds, DropPool, TypedInv, MailingTyped, JobTyped, JobOK, PostInv
<1>22. ASSUME NEW c \in Callers, ManualRouter(c) PROVE status'[x] = status[x]
  BY <1>22, Others
<1>23. ASSUME NEW c \in Callers, NEW a \in Actors, ManualSend(c, a) PROVE status'[x] = status[x]
  BY <1>23, Others
<1>24. ASSUME NEW a \in Actors, TimePasses(a) \/ AccountChanges(a) PROVE status'[x] = status[x]
  BY <1>24, Others
<1>25. ASSUME Restart PROVE status'[x] = status[x]
  BY <1>25 DEF Restart, Fault, AllIdle, TypedInv, MailingTyped, JobTyped, JobOK, PostInv
<1>26. ASSUME UNCHANGED vars PROVE status'[x] = status[x]
  BY <1>26 DEF vars
<1>27. QED
  BY <1>1, <1>2, <1>3, <1>4, <1>5, <1>6, <1>7, <1>8, <1>9, <1>10, <1>11, <1>12, <1>13, <1>14, <1>15, <1>16, <1>17, <1>18, <1>19, <1>20, <1>21, <1>22, <1>23, <1>24, <1>25, <1>26 DEF Next, JobStep

\* Whoever closes a campaign first, nobody opens it again or closes it
\* otherwise.
THEOREM ClosedForGood == Spec => ClosedStays
<1>1. TypedInv /\ PostInv /\ [Next]_vars =>
        [\A k \in Campaigns : status[k] \in Closed => status'[k] = status[k]]_vars
  BY ClosedStep
<1>2. QED
  BY <1>1, TypedInit, TypedStep, PostInit, PostStep, PTL DEF Spec, ClosedStays
-----------------------------------------------------------------------------
(***************************************************************************)
(* Cancelling.                                                             *)
(***************************************************************************)
\* The job has looked at the status of k and may still send to its row.
Armed(k) == /\ jobC = k
            /\ \/ jobAt \in {"bot", "fallback"}
               \/ jobAt = "router" /\ stage[Job] \in Walking

CancelInv ==
  \A k \in Campaigns :
    /\ status[k] # "cancelled" => late[k] = 0
    /\ late[k] + (IF Armed(k) THEN 1 ELSE 0) <= 1 + faults

LEMMA CancelInit == Init => CancelInv
  BY DEF Init, RouterInit, CancelInv, Armed

LEMMA CancelStep == TypedInv /\ PostInv /\ CancelInv /\ [Next]_vars => CancelInv'
<1> SUFFICES ASSUME TypedInv /\ PostInv /\ CancelInv, [Next]_vars PROVE CancelInv'
  OBVIOUS
<1>1. ASSUME NEW k \in Campaigns, PostGuard(k) PROVE CancelInv'
  BY <1>1 DEF PostGuard, TypedInv, RouterTypeOK, MailingTyped, JobTyped, JobOK, PostInv, CancelInv, Armed, Walking
<1>2. ASSUME NEW k \in Campaigns, PostInsert(k) PROVE CancelInv'
  BY <1>2 DEF PostInsert, TypedInv, RouterTypeOK, MailingTyped, JobTyped, JobOK, PostInv, CancelInv, Armed, Walking
<1>3. ASSUME NEW k \in Campaigns, PostBatch(k) PROVE CancelInv'
  BY <1>3 DEF PostBatch, TypedInv, RouterTypeOK, MailingTyped, JobTyped, JobOK, PostInv, CancelInv, Armed, Walking
<1>4. ASSUME NEW k \in Campaigns, PostBatchFails(k) PROVE CancelInv'
  BY <1>4 DEF PostBatchFails, Fault, TypedInv, RouterTypeOK, MailingTyped, JobTyped, JobOK, PostInv, CancelInv, Armed, Walking
<1>5. ASSUME NEW k \in Campaigns, Cancel(k) PROVE CancelInv'
  BY <1>5 DEF Cancel, TypedInv, RouterTypeOK, MailingTyped, JobTyped, JobOK, PostInv, CancelInv, Armed, Walking
<1>6. ASSUME NEW k \in Campaigns, HeartbeatAges(k) PROVE CancelInv'
  BY <1>6 DEF HeartbeatAges, TypedInv, RouterTypeOK, MailingTyped, JobTyped, JobOK, PostInv, CancelInv, Armed, Walking
<1>7. ASSUME NEW k \in Campaigns, JobPick(k) PROVE CancelInv'
  BY <1>7 DEF JobPick, Stale, TypedInv, RouterTypeOK, MailingTyped, JobTyped, JobOK, PostInv, CancelInv, Armed, Walking
<1>8. ASSUME JobClaim PROVE CancelInv'
  BY <1>8 DEF JobClaim, JobGoto, JobEnds, DropPool, TypedInv, RouterTypeOK, MailingTyped, JobTyped, JobOK, PostInv, CancelInv, Armed, Walking
<1>9. ASSUME JobLoad PROVE CancelInv'
  BY <1>9 DEF JobLoad, LoadPool, Pending, RowsOf, TypedInv, RouterTypeOK, MailingTyped, JobTyped, JobOK, PostInv, CancelInv, Armed, Walking
<1>10. ASSUME JobLoadFails PROVE CancelInv'
  BY <1>10 DEF JobLoadFails, Fault, JobEnds, DropPool, TypedInv, RouterTypeOK, MailingTyped, JobTyped, JobOK, PostInv, CancelInv, Armed, Walking
<1>11. ASSUME JobGivesUp PROVE CancelInv'
  BY <1>11 DEF JobGivesUp, Fault, TypedInv, RouterTypeOK, MailingTyped, JobTyped, JobOK, PostInv, CancelInv, Armed, Walking
<1>12. ASSUME JobCheck PROVE CancelInv'
  BY <1>12 DEF JobCheck, Ours, Fault, TypedInv, RouterTypeOK, MailingTyped, JobTyped, JobOK, PostInv, CancelInv, Armed, Walking
<1>13. ASSUME JobStops PROVE CancelInv'
  BY <1>13 DEF JobStops, JobGoto, TypedInv, RouterTypeOK, MailingTyped, JobTyped, JobOK, PostInv, CancelInv, Armed, Walking
<1>14. ASSUME JobBot PROVE CancelInv'
  BY <1>14 DEF JobBot, Arrives, Fault, TypedInv, RouterTypeOK, MailingTyped, JobTyped, JobOK, PostInv, CancelInv, Armed, Walking
<1>15. ASSUME JobFallback PROVE CancelInv'
  BY <1>15 DEF JobFallback, Enter, TypedInv, RouterTypeOK, MailingTyped, JobTyped, JobOK, PostInv, CancelInv, Armed, Walking
<1>16. ASSUME JobRouter PROVE CancelInv'
  <2>1. CASE RouterWalks(Job) /\ UNCHANGED historyVars
    BY <1>16, <2>1, WalkShape DEF JobRouter, TypedInv, RouterTypeOK, MailingTyped, JobTyped, JobOK, PostInv, CancelInv, Armed, Walking
  <2>2. CASE SendSucceeds(Job) /\ Arrives
    BY <1>16, <2>2 DEF JobRouter, SendSucceeds, Arrives, TypedInv, RouterTypeOK, MailingTyped, JobTyped, JobOK, PostInv, CancelInv, Armed, Walking
  <2>3. CASE SendReplyLost(Job) /\ Arrives
    BY <1>16, <2>3 DEF JobRouter, SendReplyLost, Arrives, Fault, TypedInv, RouterTypeOK, MailingTyped, JobTyped, JobOK, PostInv, CancelInv, Armed, Walking
  <2>4. QED
    BY <1>16, <2>1, <2>2, <2>3 DEF JobRouter
<1>17. ASSUME JobRouterReturns PROVE CancelInv'
  BY <1>17 DEF JobRouterReturns, Leave, Returned, Fault, TypedInv, RouterTypeOK, MailingTyped, JobTyped, JobOK, PostInv, CancelInv, Armed, Walking
<1>18. ASSUME JobMark PROVE CancelInv'
  BY <1>18 DEF JobMark, Ours, Fault, TypedInv, RouterTypeOK, MailingTyped, JobTyped, JobOK, PostInv, CancelInv, Armed, Walking
<1>19. ASSUME JobDecide PROVE CancelInv'
  BY <1>19 DEF JobDecide, Ours, JobEnds, DropPool, TypedInv, RouterTypeOK, MailingTyped, JobTyped, JobOK, PostInv, CancelInv, Armed, Walking
<1>20. ASSUME JobClose PROVE CancelInv'
  BY <1>20 DEF JobClose, Closable, JobEnds, DropPool, TypedInv, RouterTypeOK, MailingTyped, JobTyped, JobOK, PostInv, CancelInv, Armed, Walking
<1>21. ASSUME JobCloseFails PROVE CancelInv'
  BY <1>21 DEF JobCloseFails, Fault, JobEnds, DropPool, TypedInv, RouterTypeOK, MailingTyped, JobTyped, JobOK, PostInv, CancelInv, Armed, Walking
<1>22. ASSUME NEW c \in Callers, ManualRouter(c) PROVE CancelInv'
  BY <1>22, Others DEF TypedInv, MailingTyped, CancelInv, Armed
<1>23. ASSUME NEW c \in Callers, NEW a \in Actors, ManualSend(c, a) PROVE CancelInv'
  BY <1>23, Others DEF TypedInv, MailingTyped, CancelInv, Armed
<1>24. ASSUME NEW a \in Actors, TimePasses(a) \/ AccountChanges(a) PROVE CancelInv'
  BY <1>24, Others DEF TypedInv, MailingTyped, CancelInv, Armed
<1>25. ASSUME Restart PROVE CancelInv'
  BY <1>25 DEF Restart, Fault, AllIdle, TypedInv, RouterTypeOK, MailingTyped, JobTyped, JobOK, PostInv, CancelInv, Armed, Walking
<1>26. ASSUME UNCHANGED vars PROVE CancelInv'
  BY <1>26 DEF vars, CancelInv, Armed
<1>27. QED
  BY <1>1, <1>2, <1>3, <1>4, <1>5, <1>6, <1>7, <1>8, <1>9, <1>10, <1>11, <1>12, <1>13, <1>14, <1>15, <1>16, <1>17, <1>18, <1>19, <1>20, <1>21, <1>22, <1>23, <1>24, <1>25, <1>26 DEF Next, JobStep

\* A cancellation lets the message that was under way go out and stops the
\* mailing, but for one message per failed call.
THEOREM CancelHolds == Spec => []CancelStops
<1>1. TypedInv /\ CancelInv => CancelStops
  <2> SUFFICES ASSUME TypedInv, CancelInv, NEW k \in Campaigns PROVE late[k] <= 1 + faults
    BY DEF CancelStops
  <2>1. late[k] \in Nat /\ faults \in Nat
    BY DEF TypedInv, MailingTyped, RouterTypeOK
  <2>2. late[k] + (IF Armed(k) THEN 1 ELSE 0) <= 1 + faults
    BY DEF CancelInv
  <2>3. QED
    BY <2>1, <2>2
<1>2. QED
  BY <1>1, TypedInit, TypedStep, PostInit, PostStep, CancelInit, CancelStep, PTL DEF Spec
-----------------------------------------------------------------------------
(***************************************************************************)
(* One message each.                                                       *)
(***************************************************************************)
\* The message of r has gone out and its row is not marked yet.
Delivered(r) == /\ cur = r
                /\ \/ jobAt = "router" /\ stage[Job] \in {"record", "sent"}
                   \/ jobAt = "mark" /\ out = "sent"

OneInv ==
  /\ jobAt \in {"idle", "claim", "load", "check"} => cur = None
  /\ jobAt \in {"check", "bot", "fallback", "router", "mark"} =>
       \A r \in todo : row[r] = "pending" /\ r # cur /\ CampaignOf[r] = jobC
  /\ jobAt \in {"bot", "fallback", "router", "mark"} =>
       row[cur] = "pending" /\ CampaignOf[cur] = jobC
  /\ \A r \in Rows :
       /\ got[r] <= 1 + faults
       /\ row[r] \in {"absent", "pending"} /\ ~Delivered(r) => got[r] <= faults

LEMMA OneInit == Init => OneInv
  BY DEF Init, RouterInit, OneInv

LEMMA OneStep == TypedInv /\ OneInv /\ [Next]_vars => OneInv'
<1> SUFFICES ASSUME TypedInv /\ OneInv, [Next]_vars PROVE OneInv'
  OBVIOUS
<1>1. ASSUME NEW k \in Campaigns, PostGuard(k) PROVE OneInv'
  BY <1>1 DEF PostGuard, TypedInv, RouterTypeOK, MailingTyped, JobTyped, JobOK, OneInv, Delivered
<1>2. ASSUME NEW k \in Campaigns, PostInsert(k) PROVE OneInv'
  BY <1>2 DEF PostInsert, TypedInv, RouterTypeOK, MailingTyped, JobTyped, JobOK, OneInv, Delivered
<1>3. ASSUME NEW k \in Campaigns, PostBatch(k) PROVE OneInv'
  BY <1>3 DEF PostBatch, TypedInv, RouterTypeOK, MailingTyped, JobTyped, JobOK, OneInv, Delivered, NextBatch, Missing
<1>4. ASSUME NEW k \in Campaigns, PostBatchFails(k) PROVE OneInv'
  BY <1>4 DEF PostBatchFails, Fault, TypedInv, RouterTypeOK, MailingTyped, JobTyped, JobOK, OneInv, Delivered
<1>5. ASSUME NEW k \in Campaigns, Cancel(k) PROVE OneInv'
  BY <1>5 DEF Cancel, TypedInv, RouterTypeOK, MailingTyped, JobTyped, JobOK, OneInv, Delivered
<1>6. ASSUME NEW k \in Campaigns, HeartbeatAges(k) PROVE OneInv'
  BY <1>6 DEF HeartbeatAges, TypedInv, RouterTypeOK, MailingTyped, JobTyped, JobOK, OneInv, Delivered
<1>7. ASSUME NEW k \in Campaigns, JobPick(k) PROVE OneInv'
  BY <1>7 DEF JobPick, Stale, TypedInv, RouterTypeOK, MailingTyped, JobTyped, JobOK, OneInv, Delivered
<1>8. ASSUME JobClaim PROVE OneInv'
  BY <1>8 DEF JobClaim, JobGoto, JobEnds, DropPool, TypedInv, RouterTypeOK, MailingTyped, JobTyped, JobOK, OneInv, Delivered
<1>9. ASSUME JobLoad PROVE OneInv'
  BY <1>9 DEF JobLoad, LoadPool, Pending, RowsOf, TypedInv, RouterTypeOK, MailingTyped, JobTyped, JobOK, OneInv, Delivered
<1>10. ASSUME JobLoadFails PROVE OneInv'
  BY <1>10 DEF JobLoadFails, Fault, JobEnds, DropPool, TypedInv, RouterTypeOK, MailingTyped, JobTyped, JobOK, OneInv, Delivered
<1>11. ASSUME JobGivesUp PROVE OneInv'
  BY <1>11 DEF JobGivesUp, Fault, TypedInv, RouterTypeOK, MailingTyped, JobTyped, JobOK, OneInv, Delivered
<1>12. ASSUME JobCheck PROVE OneInv'
  BY <1>12 DEF JobCheck, Ours, Fault, TypedInv, RouterTypeOK, MailingTyped, JobTyped, JobOK, OneInv, Delivered
<1>13. ASSUME JobStops PROVE OneInv'
  BY <1>13 DEF JobStops, JobGoto, TypedInv, RouterTypeOK, MailingTyped, JobTyped, JobOK, OneInv, Delivered
<1>14. ASSUME JobBot PROVE OneInv'
  <2>1. CASE Arrives /\ out' = "sent" /\ jobAt' = "mark" /\ UNCHANGED faults
    BY <1>14, <2>1 DEF JobBot, Arrives, Fault, TypedInv, RouterTypeOK, MailingTyped, JobTyped, JobOK, OneInv, Delivered
  <2>2. CASE Arrives /\ Fault /\ jobAt' = "fallback" /\ UNCHANGED out
    BY <1>14, <2>2 DEF JobBot, Arrives, Fault, TypedInv, RouterTypeOK, MailingTyped, JobTyped, JobOK, OneInv, Delivered
  <2>3. CASE jobAt' = "fallback" /\ UNCHANGED <<out, faults, historyVars>>
    BY <1>14, <2>3 DEF JobBot, Arrives, Fault, TypedInv, RouterTypeOK, MailingTyped, JobTyped, JobOK, OneInv, Delivered
  <2>4. QED
    BY <1>14, <2>1, <2>2, <2>3 DEF JobBot
<1>15. ASSUME JobFallback PROVE OneInv'
  BY <1>15 DEF JobFallback, Enter, TypedInv, RouterTypeOK, MailingTyped, JobTyped, JobOK, OneInv, Delivered
<1>16. ASSUME JobRouter PROVE OneInv'
  <2>1. CASE RouterWalks(Job) /\ UNCHANGED historyVars
    <3>1. /\ UNCHANGED <<status, row, jobAt, jobC, todo, cur, out, got>>
          /\ faults \in Nat /\ faults' \in {faults, faults + 1}
          /\ stage[Job] = "record" /\ stage'[Job] # "sent" => faults' = faults + 1
          /\ stage[Job] = "record" \/ stage'[Job] \notin {"record", "sent"}
          /\ stage[Job] # "sent" /\ jobAt = "router"
      <4>1. jobAt = "router" /\ UNCHANGED <<status, row, jobAt, jobC, todo, cur, out, got>>
        BY <1>16, <2>1 DEF JobRouter, mailingVars, jobVars, historyVars
      <4>2. Job \in Callers /\ RouterTypeOK /\ faults \in Nat
        BY BroadcastConstants DEF TypedInv, RouterTypeOK
      <4>3. /\ faults' \in {faults, faults + 1}
            /\ \/ stage[Job] = "record" /\ stage'[Job] = "sent"
               \/ stage[Job] = "record" /\ stage'[Job] = "threw" /\ faults' = faults + 1
               \/ /\ stage[Job] \in Walking
                  /\ stage'[Job] \in Walking \cup {"exhausted", "threw"}
        BY <2>1, <4>2, WalkShape
      <4>4. QED
        BY <4>1, <4>2, <4>3 DEF Walking
    <3>2. got \in [Rows -> Nat]
      BY DEF TypedInv, MailingTyped
    <3>3. QED
      BY <3>1, <3>2 DEF OneInv, Delivered
  <2>2. CASE SendSucceeds(Job) /\ Arrives
    BY <1>16, <2>2 DEF JobRouter, SendSucceeds, Arrives, TypedInv, RouterTypeOK, MailingTyped, JobTyped, JobOK, OneInv, Delivered
  <2>3. CASE SendReplyLost(Job) /\ Arrives
    BY <1>16, <2>3 DEF JobRouter, SendReplyLost, Arrives, Fault, TypedInv, RouterTypeOK, MailingTyped, JobTyped, JobOK, OneInv, Delivered
  <2>4. QED
    BY <1>16, <2>1, <2>2, <2>3 DEF JobRouter
<1>17. ASSUME JobRouterReturns PROVE OneInv'
  BY <1>17 DEF JobRouterReturns, Leave, Returned, Fault, TypedInv, RouterTypeOK, MailingTyped, JobTyped, JobOK, OneInv, Delivered
<1>18. ASSUME JobMark PROVE OneInv'
  BY <1>18 DEF JobMark, Ours, Fault, TypedInv, RouterTypeOK, MailingTyped, JobTyped, JobOK, OneInv, Delivered
<1>19. ASSUME JobDecide PROVE OneInv'
  BY <1>19 DEF JobDecide, Ours, JobEnds, DropPool, TypedInv, RouterTypeOK, MailingTyped, JobTyped, JobOK, OneInv, Delivered
<1>20. ASSUME JobClose PROVE OneInv'
  BY <1>20 DEF JobClose, Closable, JobEnds, DropPool, TypedInv, RouterTypeOK, MailingTyped, JobTyped, JobOK, OneInv, Delivered
<1>21. ASSUME JobCloseFails PROVE OneInv'
  BY <1>21 DEF JobCloseFails, Fault, JobEnds, DropPool, TypedInv, RouterTypeOK, MailingTyped, JobTyped, JobOK, OneInv, Delivered
<1>22. ASSUME NEW c \in Callers, ManualRouter(c) PROVE OneInv'
  BY <1>22, Others DEF TypedInv, MailingTyped, OneInv, Delivered
<1>23. ASSUME NEW c \in Callers, NEW a \in Actors, ManualSend(c, a) PROVE OneInv'
  BY <1>23, Others DEF TypedInv, MailingTyped, OneInv, Delivered
<1>24. ASSUME NEW a \in Actors, TimePasses(a) \/ AccountChanges(a) PROVE OneInv'
  BY <1>24, Others DEF TypedInv, MailingTyped, OneInv, Delivered
<1>25. ASSUME Restart PROVE OneInv'
  BY <1>25 DEF Restart, Fault, AllIdle, TypedInv, RouterTypeOK, MailingTyped, JobTyped, JobOK, OneInv, Delivered
<1>26. ASSUME UNCHANGED vars PROVE OneInv'
  BY <1>26 DEF vars, OneInv, Delivered
<1>27. QED
  BY <1>1, <1>2, <1>3, <1>4, <1>5, <1>6, <1>7, <1>8, <1>9, <1>10, <1>11, <1>12, <1>13, <1>14, <1>15, <1>16, <1>17, <1>18, <1>19, <1>20, <1>21, <1>22, <1>23, <1>24, <1>25, <1>26 DEF Next, JobStep

\* Each recipient receives the mailing once, and once more per failure at most:
\* the reaper, a restart or a second channel do not repeat a message by
\* themselves.
THEOREM OneMessage == Spec => []OneMessageEach
<1>1. TypedInv /\ OneInv => OneMessageEach
  BY DEF OneInv, OneMessageEach
<1>2. QED
  BY <1>1, TypedInit, TypedStep, OneInit, OneStep, PTL DEF Spec
-----------------------------------------------------------------------------
(***************************************************************************)
(* What a closed campaign says of its rows.                                *)
(***************************************************************************)
First(r) == \A q \in Rows : CampaignOf[q] = CampaignOf[r] => BatchOf[r] <= BatchOf[q]

\* The batches come in order; a campaign closed by its rows is not worked on;
\* the outcome that is about to be written was read from the rows.
DecidedInv ==
  /\ \A r, q \in Rows :
       CampaignOf[r] = CampaignOf[q] /\ BatchOf[q] <= BatchOf[r] /\ row[q] = "absent"
         => row[r] = "absent" \/ BatchOf[q] = BatchOf[r]
  /\ \A r, q \in Rows :
       CampaignOf[r] = CampaignOf[q] /\ BatchOf[q] = BatchOf[r] /\ row[q] = "absent"
         => row[r] = "absent"
  /\ \A k \in Campaigns : jobC = k => status[k] \notin {"sent", "errors"}
  /\ jobAt = "close" /\ out \in {"sent", "errors"} =>
       \A r \in Rows : CampaignOf[r] = jobC =>
         /\ First(r) => row[r] \in {"sent", "failed"}
         /\ out = "sent" => row[r] # "failed"
  /\ \A k \in Campaigns, r \in Rows : CampaignOf[r] = k =>
       /\ status[k] \in {"sent", "errors"} /\ First(r) => row[r] \in {"sent", "failed"}
       /\ status[k] = "sent" => row[r] # "failed"

LEMMA DecidedInit == Init => DecidedInv
  BY DEF Init, DecidedInv

LEMMA DecidedStep == TypedInv /\ PostInv /\ OneInv /\ DecidedInv /\ [Next]_vars => DecidedInv'
<1> SUFFICES ASSUME TypedInv /\ PostInv /\ OneInv /\ DecidedInv, [Next]_vars PROVE DecidedInv'
  OBVIOUS
<1>1. ASSUME NEW k \in Campaigns, PostGuard(k) PROVE DecidedInv'
  BY <1>1 DEF PostGuard, TypedInv, MailingTyped, JobTyped, JobOK, OneInv, PostInv, DecidedInv
<1>2. ASSUME NEW k \in Campaigns, PostInsert(k) PROVE DecidedInv'
  BY <1>2 DEF PostInsert, TypedInv, MailingTyped, JobTyped, JobOK, OneInv, PostInv, DecidedInv
<1>3. ASSUME NEW k \in Campaigns, PostBatch(k) PROVE DecidedInv'
  BY <1>3 DEF PostBatch, TypedInv, MailingTyped, JobTyped, JobOK, OneInv, PostInv, DecidedInv, NextBatch, Missing, RowsOf
<1>4. ASSUME NEW k \in Campaigns, PostBatchFails(k) PROVE DecidedInv'
  BY <1>4 DEF PostBatchFails, Fault, TypedInv, MailingTyped, JobTyped, JobOK, OneInv, PostInv, DecidedInv
<1>5. ASSUME NEW k \in Campaigns, Cancel(k) PROVE DecidedInv'
  BY <1>5 DEF Cancel, TypedInv, MailingTyped, JobTyped, JobOK, OneInv, PostInv, DecidedInv
<1>6. ASSUME NEW k \in Campaigns, HeartbeatAges(k) PROVE DecidedInv'
  BY <1>6 DEF HeartbeatAges, TypedInv, MailingTyped, JobTyped, JobOK, OneInv, PostInv, DecidedInv
<1>7. ASSUME NEW k \in Campaigns, JobPick(k) PROVE DecidedInv'
  BY <1>7 DEF JobPick, Stale, TypedInv, MailingTyped, JobTyped, JobOK, OneInv, PostInv, DecidedInv
<1>8. ASSUME JobClaim PROVE DecidedInv'
  BY <1>8 DEF JobClaim, JobGoto, JobEnds, DropPool, TypedInv, MailingTyped, JobTyped, JobOK, OneInv, PostInv, DecidedInv
<1>9. ASSUME JobLoad PROVE DecidedInv'
  BY <1>9 DEF JobLoad, LoadPool, Pending, RowsOf, TypedInv, MailingTyped, JobTyped, JobOK, OneInv, PostInv, DecidedInv
<1>10. ASSUME JobLoadFails PROVE DecidedInv'
  BY <1>10 DEF JobLoadFails, Fault, JobEnds, DropPool, TypedInv, MailingTyped, JobTyped, JobOK, OneInv, PostInv, DecidedInv
<1>11. ASSUME JobGivesUp PROVE DecidedInv'
  BY <1>11 DEF JobGivesUp, Fault, TypedInv, MailingTyped, JobTyped, JobOK, OneInv, PostInv, DecidedInv
<1>12. ASSUME JobCheck PROVE DecidedInv'
  BY <1>12 DEF JobCheck, Ours, Fault, TypedInv, MailingTyped, JobTyped, JobOK, OneInv, PostInv, DecidedInv
<1>13. ASSUME JobStops PROVE DecidedInv'
  BY <1>13 DEF JobStops, JobGoto, TypedInv, MailingTyped, JobTyped, JobOK, OneInv, PostInv, DecidedInv
<1>14. ASSUME JobBot PROVE DecidedInv'
  BY <1>14 DEF JobBot, Arrives, Fault, TypedInv, MailingTyped, JobTyped, JobOK, OneInv, PostInv, DecidedInv
<1>15. ASSUME JobFallback PROVE DecidedInv'
  BY <1>15 DEF JobFallback, Enter, TypedInv, MailingTyped, JobTyped, JobOK, OneInv, PostInv, DecidedInv
<1>16. ASSUME JobRouter PROVE DecidedInv'
  BY <1>16 DEF JobRouter, Arrives, TypedInv, MailingTyped, JobTyped, JobOK, OneInv, PostInv, DecidedInv
<1>17. ASSUME JobRouterReturns PROVE DecidedInv'
  BY <1>17 DEF JobRouterReturns, Leave, Returned, Fault, TypedInv, MailingTyped, JobTyped, JobOK, OneInv, PostInv, DecidedInv
<1>18. ASSUME JobMark PROVE DecidedInv'
  BY <1>18 DEF JobMark, Ours, Fault, TypedInv, MailingTyped, JobTyped, JobOK, OneInv, PostInv, DecidedInv
<1>19. ASSUME JobDecide PROVE DecidedInv'
  BY <1>19 DEF JobDecide, Ours, JobEnds, DropPool, TypedInv, MailingTyped, JobTyped, JobOK, OneInv, PostInv, DecidedInv, InsertAwaited, RowsOf, First
<1>20. ASSUME JobClose PROVE DecidedInv'
  BY <1>20 DEF JobClose, Closable, JobEnds, DropPool, TypedInv, MailingTyped, JobTyped, JobOK, OneInv, PostInv, DecidedInv
<1>21. ASSUME JobCloseFails PROVE DecidedInv'
  BY <1>21 DEF JobCloseFails, Fault, JobEnds, DropPool, TypedInv, MailingTyped, JobTyped, JobOK, OneInv, PostInv, DecidedInv
<1>22. ASSUME NEW c \in Callers, ManualRouter(c) PROVE DecidedInv'
  BY <1>22, Others DEF DecidedInv
<1>23. ASSUME NEW c \in Callers, NEW a \in Actors, ManualSend(c, a) PROVE DecidedInv'
  BY <1>23, Others DEF DecidedInv
<1>24. ASSUME NEW a \in Actors, TimePasses(a) \/ AccountChanges(a) PROVE DecidedInv'
  BY <1>24, Others DEF DecidedInv
<1>25. ASSUME Restart PROVE DecidedInv'
  BY <1>25 DEF Restart, Fault, AllIdle, TypedInv, MailingTyped, JobTyped, JobOK, OneInv, PostInv, DecidedInv
<1>26. ASSUME UNCHANGED vars PROVE DecidedInv'
  BY <1>26 DEF vars, DecidedInv
<1>27. QED
  BY <1>1, <1>2, <1>3, <1>4, <1>5, <1>6, <1>7, <1>8, <1>9, <1>10, <1>11, <1>12, <1>13, <1>14, <1>15, <1>16, <1>17, <1>18, <1>19, <1>20, <1>21, <1>22, <1>23, <1>24, <1>25, <1>26 DEF Next, JobStep

\* A campaign closed by its rows has decided its first batch, and it is 'sent'
\* only when no row has failed.
THEOREM ClosedWhenDecided == Spec => []ClosedIsDecided
<1>1. DecidedInv => ClosedIsDecided
  BY DEF DecidedInv, ClosedIsDecided, First, RowsOf
<1>2. QED
  BY <1>1, TypedInit, TypedStep, PostInit, PostStep, OneInit, OneStep, DecidedInit,
     DecidedStep, PTL DEF Spec
-----------------------------------------------------------------------------
(***************************************************************************)
(* The contract of the mailing.                                            *)
(***************************************************************************)
\* The campaign the job works on is sending or has just been cancelled; /send
\* adds rows to a campaign that exists; 'errors' was read from a failed row.
AtWorkInv ==
  /\ jobAt \notin {"idle", "claim"} => status[jobC] \in {"sending", "cancelled"}
  /\ \A k \in Campaigns : post[k] = "rows" => status[k] # "none"
  /\ jobAt = "close" /\ out = "errors" =>
       \E r \in Rows : CampaignOf[r] = jobC /\ row[r] = "failed"

LEMMA AtWorkInit == Init => AtWorkInv
  BY DEF Init, AtWorkInv

LEMMA AtWorkStep == TypedInv /\ PostInv /\ AtWorkInv /\ [Next]_vars => AtWorkInv'
<1> SUFFICES ASSUME TypedInv /\ PostInv /\ AtWorkInv, [Next]_vars PROVE AtWorkInv'
  OBVIOUS
<1>1. ASSUME NEW k \in Campaigns, PostGuard(k) PROVE AtWorkInv'
  BY <1>1 DEF PostGuard, TypedInv, MailingTyped, JobTyped, JobOK, PostInv, AtWorkInv
<1>2. ASSUME NEW k \in Campaigns, PostInsert(k) PROVE AtWorkInv'
  BY <1>2 DEF PostInsert, TypedInv, MailingTyped, JobTyped, JobOK, PostInv, AtWorkInv
<1>3. ASSUME NEW k \in Campaigns, PostBatch(k) PROVE AtWorkInv'
  BY <1>3 DEF PostBatch, NextBatch, Missing, RowsOf, TypedInv, MailingTyped, JobTyped, JobOK, PostInv, AtWorkInv
<1>4. ASSUME NEW k \in Campaigns, PostBatchFails(k) PROVE AtWorkInv'
  BY <1>4 DEF PostBatchFails, Fault, TypedInv, MailingTyped, JobTyped, JobOK, PostInv, AtWorkInv
<1>5. ASSUME NEW k \in Campaigns, Cancel(k) PROVE AtWorkInv'
  BY <1>5 DEF Cancel, TypedInv, MailingTyped, JobTyped, JobOK, PostInv, AtWorkInv
<1>6. ASSUME NEW k \in Campaigns, HeartbeatAges(k) PROVE AtWorkInv'
  BY <1>6 DEF HeartbeatAges, TypedInv, MailingTyped, JobTyped, JobOK, PostInv, AtWorkInv
<1>7. ASSUME NEW k \in Campaigns, JobPick(k) PROVE AtWorkInv'
  BY <1>7 DEF JobPick, Stale, TypedInv, MailingTyped, JobTyped, JobOK, PostInv, AtWorkInv
<1>8. ASSUME JobClaim PROVE AtWorkInv'
  BY <1>8 DEF JobClaim, JobGoto, JobEnds, DropPool, TypedInv, MailingTyped, JobTyped, JobOK, PostInv, AtWorkInv
<1>9. ASSUME JobLoad PROVE AtWorkInv'
  BY <1>9 DEF JobLoad, LoadPool, TypedInv, MailingTyped, JobTyped, JobOK, PostInv, AtWorkInv
<1>10. ASSUME JobLoadFails PROVE AtWorkInv'
  BY <1>10 DEF JobLoadFails, Fault, JobEnds, DropPool, TypedInv, MailingTyped, JobTyped, JobOK, PostInv, AtWorkInv
<1>11. ASSUME JobGivesUp PROVE AtWorkInv'
  BY <1>11 DEF JobGivesUp, Fault, TypedInv, MailingTyped, JobTyped, JobOK, PostInv, AtWorkInv
<1>12. ASSUME JobCheck PROVE AtWorkInv'
  BY <1>12 DEF JobCheck, Ours, Fault, TypedInv, MailingTyped, JobTyped, JobOK, PostInv, AtWorkInv
<1>13. ASSUME JobStops PROVE AtWorkInv'
  BY <1>13 DEF JobStops, JobGoto, TypedInv, MailingTyped, JobTyped, JobOK, PostInv, AtWorkInv
<1>14. ASSUME JobBot PROVE AtWorkInv'
  BY <1>14 DEF JobBot, Arrives, Fault, TypedInv, MailingTyped, JobTyped, JobOK, PostInv, AtWorkInv
<1>15. ASSUME JobFallback PROVE AtWorkInv'
  BY <1>15 DEF JobFallback, Enter, TypedInv, MailingTyped, JobTyped, JobOK, PostInv, AtWorkInv
<1>16. ASSUME JobRouter PROVE AtWorkInv'
  BY <1>16 DEF JobRouter, Arrives, TypedInv, MailingTyped, JobTyped, JobOK, PostInv, AtWorkInv
<1>17. ASSUME JobRouterReturns PROVE AtWorkInv'
  BY <1>17 DEF JobRouterReturns, TypedInv, MailingTyped, JobTyped, JobOK, PostInv, AtWorkInv
<1>18. ASSUME JobMark PROVE AtWorkInv'
  BY <1>18 DEF JobMark, Fault, TypedInv, MailingTyped, JobTyped, JobOK, PostInv, AtWorkInv
<1>19. ASSUME JobDecide PROVE AtWorkInv'
  BY <1>19 DEF JobDecide, JobEnds, RowsOf, TypedInv, MailingTyped, JobTyped, JobOK, PostInv, AtWorkInv
<1>20. ASSUME JobClose PROVE AtWorkInv'
  BY <1>20 DEF JobClose, Closable, JobEnds, TypedInv, MailingTyped, JobTyped, JobOK, PostInv, AtWorkInv
<1>21. ASSUME JobCloseFails PROVE AtWorkInv'
  BY <1>21 DEF JobCloseFails, Fault, JobEnds, TypedInv, MailingTyped, JobTyped, JobOK, PostInv, AtWorkInv
<1>22. ASSUME NEW c \in Callers, ManualRouter(c) PROVE AtWorkInv'
  BY <1>22, Others DEF AtWorkInv
<1>23. ASSUME NEW c \in Callers, NEW a \in Actors, ManualSend(c, a) PROVE AtWorkInv'
  BY <1>23, Others DEF AtWorkInv
<1>24. ASSUME NEW a \in Actors, TimePasses(a) \/ AccountChanges(a) PROVE AtWorkInv'
  BY <1>24, Others DEF AtWorkInv
<1>25. ASSUME Restart PROVE AtWorkInv'
  BY <1>25 DEF Restart, Fault, AllIdle, TypedInv, MailingTyped, JobTyped, JobOK, PostInv, AtWorkInv
<1>26. ASSUME UNCHANGED vars PROVE AtWorkInv'
  BY <1>26 DEF vars, AtWorkInv
<1>27. QED
  BY <1>1, <1>2, <1>3, <1>4, <1>5, <1>6, <1>7, <1>8, <1>9, <1>10, <1>11, <1>12, <1>13, <1>14, <1>15, <1>16, <1>17, <1>18, <1>19, <1>20, <1>21, <1>22, <1>23, <1>24, <1>25, <1>26 DEF Next, JobStep

LEMMA MailInit == Init => Mail!Init
  BY DEF Init, Mail!Init

\* Every step keeps the contract.
LEMMA MailStep ==
  TypedInv /\ PostInv /\ OneInv /\ DecidedInv /\ AtWorkInv /\ [Next]_vars
    => [Mail!Next]_Mail!vars
<1> SUFFICES ASSUME TypedInv, PostInv, OneInv, DecidedInv, AtWorkInv, [Next]_vars
             PROVE  [Mail!Next]_Mail!vars
  OBVIOUS
<1>0. UNCHANGED <<status, row>> => [Mail!Next]_Mail!vars
  BY DEF Mail!vars
<1>1. ASSUME NEW k \in Campaigns, PostInsert(k) PROVE Mail!Next
  <2>1. Mail!Queue(k)
    BY <1>1 DEF PostInsert, PostInv, Mail!Queue, Mail!Moves
  <2>2. QED
    BY <2>1 DEF Mail!Next
<1>2. ASSUME NEW k \in Campaigns, PostBatch(k) PROVE Mail!Next
  <2>1. NextBatch(k) = Mail!Earliest(Mail!Missing(k))
    BY DEF NextBatch, Missing, RowsOf, Mail!Earliest, Mail!Missing, Mail!RowsOf
  <2>2. Mail!AddBatch(k)
    BY <1>2, <2>1 DEF PostBatch, AtWorkInv, Mail!AddBatch
  <2>3. QED
    BY <2>2 DEF Mail!Next
<1>3. ASSUME NEW k \in Campaigns, PostBatchFails(k) PROVE [Mail!Next]_Mail!vars
  <2>1. CASE status[k] = "queued"
    <3>1. status' = [status EXCEPT ![k] = "failed"] /\ row' = row
      BY <1>3, <2>1 DEF PostBatchFails
    <3>2. Mail!Drop(k)
      BY <2>1, <3>1 DEF Mail!Drop, Mail!Moves
    <3>3. QED
      BY <3>2 DEF Mail!Next
  <2>2. CASE status[k] # "queued"
    <3>1. status' = status /\ row' = row
      BY <1>3, <2>2 DEF PostBatchFails, TypedInv, MailingTyped
    <3>2. QED
      BY <3>1, <1>0
  <2>3. QED
    BY <2>1, <2>2
<1>4. ASSUME NEW k \in Campaigns, Cancel(k) PROVE Mail!Next
  <2>1. Mail!Cancel(k)
    BY <1>4 DEF Cancel, Mail!Cancel, Mail!Moves
  <2>2. QED
    BY <2>1 DEF Mail!Next
<1>5. ASSUME JobClaim PROVE [Mail!Next]_Mail!vars
  <2>1. CASE status[jobC] \in Active
    <3>1. jobC \in Campaigns
      BY <1>5 DEF JobClaim, TypedInv, JobOK
    <3>2. status' = [status EXCEPT ![jobC] = "sending"] /\ row' = row
      BY <1>5, <2>1 DEF JobClaim
    <3>3. Mail!Take(jobC)
      BY <2>1, <3>1, <3>2 DEF Mail!Take, Mail!Moves
    <3>4. QED
      BY <3>1, <3>3 DEF Mail!Next
  <2>2. CASE status[jobC] \notin Active
    BY <1>0, <1>5, <2>2 DEF JobClaim
  <2>3. QED
    BY <2>1, <2>2
<1>6. ASSUME JobGivesUp PROVE [Mail!Next]_Mail!vars
  <2>1. CASE UNCHANGED row
    BY <1>0, <1>6, <2>1 DEF JobGivesUp
  <2>2. CASE row' = [r \in Rows |-> IF CampaignOf[r] = jobC /\ row[r] = "pending"
                                     THEN "failed" ELSE row[r]]
    <3>1. jobC \in Campaigns /\ status[jobC] \in {"sending", "cancelled"} /\ status' = status
      BY <1>6 DEF JobGivesUp, TypedInv, JobOK, AtWorkInv
    <3>2. Mail!GiveUp(jobC)
      BY <2>2, <3>1 DEF Mail!GiveUp, Mail!AtWork, Mail!RowsOf
    <3>3. QED
      BY <3>1, <3>2 DEF Mail!Next
  <2>3. QED
    BY <1>6, <2>1, <2>2 DEF JobGivesUp
<1>7. ASSUME JobMark PROVE [Mail!Next]_Mail!vars
  <2>1. CASE UNCHANGED row
    BY <1>0, <1>7, <2>1 DEF JobMark
  <2>2. CASE row' = [row EXCEPT ![cur] = out]
    <3>1. /\ cur \in Rows /\ row[cur] = "pending" /\ CampaignOf[cur] = jobC
          /\ out \in {"sent", "failed"} /\ status[jobC] \in {"sending", "cancelled"}
          /\ status' = status
      BY <1>7 DEF JobMark, TypedInv, JobOK, OneInv, AtWorkInv
    <3>2. Mail!Decide(cur, out)
      BY <2>2, <3>1 DEF Mail!Decide, Mail!AtWork
    <3>3. QED
      BY <3>1, <3>2 DEF Mail!Next
  <2>3. QED
    BY <1>7, <2>1, <2>2 DEF JobMark
<1>8. ASSUME JobClose PROVE [Mail!Next]_Mail!vars
  <2>1. jobC \in Campaigns /\ out \in {"sent", "failed", "errors"} /\ row' = row
        /\ jobAt = "close"
    BY <1>8 DEF JobClose, TypedInv, JobOK, JobTyped
  <2>2. CASE status[jobC] # "sending"
    <3>1. status' = status
      BY <1>8, <2>1, <2>2 DEF JobClose, Closable, TypedInv, MailingTyped
    <3>2. QED
      BY <1>0, <2>1, <3>1
  <2>3. CASE status[jobC] = "sending"
    <3>1. Mail!Moves(jobC, {"sending"}, out)
      <4>1. status' = [status EXCEPT ![jobC] = out]
        BY <1>8, <2>3 DEF JobClose, Closable
      <4>2. QED
        BY <2>1, <2>3, <4>1 DEF Mail!Moves
    <3>2. out \in {"sent", "errors"} => \A r \in Mail!Earliest(Mail!RowsOf(jobC)) : Mail!Decided(r)
      BY <2>1 DEF DecidedInv, First, Mail!Earliest, Mail!RowsOf, Mail!Decided
    <3>3. /\ out = "sent" => \A r \in Mail!RowsOf(jobC) : row[r] # "failed"
          /\ out = "errors" => \E r \in Mail!RowsOf(jobC) : row[r] = "failed"
      BY <2>1 DEF DecidedInv, AtWorkInv, Mail!RowsOf
    <3>4. Mail!Close(jobC)
      BY <2>1, <3>1, <3>2, <3>3, Zenon DEF Mail!Close
    <3>5. QED
      BY <2>1, <3>4 DEF Mail!Next
  <2>4. QED
    BY <2>2, <2>3
<1>9. ASSUME \/ \E k \in Campaigns : PostGuard(k) \/ HeartbeatAges(k) \/ JobPick(k)
             \/ JobLoad \/ JobLoadFails \/ JobCheck \/ JobStops \/ JobBot \/ JobFallback
             \/ JobRouter \/ JobRouterReturns \/ JobDecide \/ JobCloseFails \/ Restart
      PROVE  UNCHANGED <<status, row>>
  BY <1>9
  DEF PostGuard, HeartbeatAges, JobPick, JobLoad, JobLoadFails, JobCheck, JobStops,
      JobBot, JobFallback, JobRouter, JobRouterReturns, JobDecide, JobCloseFails, Restart
<1>10. ASSUME \/ \E c \in Callers : ManualRouter(c) \/ \E a \in Actors : ManualSend(c, a)
              \/ \E a \in Actors : TimePasses(a) \/ AccountChanges(a)
       PROVE  UNCHANGED <<status, row>>
  BY <1>10, Others
<1>11. ASSUME UNCHANGED vars PROVE UNCHANGED <<status, row>>
  BY <1>11 DEF vars
<1>12. QED
  BY <1>0, <1>1, <1>2, <1>3, <1>4, <1>5, <1>6, <1>7, <1>8, <1>9, <1>10, <1>11
  DEF Next, JobStep

LEMMA MailAlways == Spec => Mail!Init /\ [][Mail!Next]_Mail!vars
  BY TypedInit, TypedStep, PostInit, PostStep, OneInit, OneStep, DecidedInit, DecidedStep,
     AtWorkInit, AtWorkStep, MailInit, MailStep, PTL DEF Spec

\* The mailing keeps its contract whatever the job, the requests of the owner,
\* the reaper and restarts do side by side, for any campaigns, rows and batches.
THEOREM MailingImplemented == Spec => MailingKept
  BY MailAlways, PTL DEF MailingKept, Mail!Spec

\* A row is decided once: nothing turns a sent row into a failed one, or back,
\* and no reaper makes it pending again.
THEOREM DecidedForGood == Spec => Mail!DecidedIsKept
<1>1. TypedInv /\ Mail!Next => \A r \in Rows : Mail!Decided(r) => row'[r] = row[r]
  <2> SUFFICES ASSUME TypedInv, Mail!Next, NEW r \in Rows, Mail!Decided(r)
               PROVE  row'[r] = row[r]
    OBVIOUS
  <2>1. ASSUME NEW k \in Campaigns,
               Mail!Queue(k) \/ Mail!Drop(k) \/ Mail!Cancel(k) \/ Mail!Take(k) \/ Mail!Close(k)
        PROVE  row' = row
    BY <2>1 DEF Mail!Queue, Mail!Drop, Mail!Cancel, Mail!Take, Mail!Close, Mail!Moves
  <2>2. ASSUME NEW k \in Campaigns, Mail!AddBatch(k)
        PROVE  row'[r] = row[r]
    BY <2>2 DEF Mail!AddBatch, Mail!Earliest, Mail!Missing, Mail!Decided
  <2>3. ASSUME NEW k \in Campaigns, Mail!GiveUp(k)
        PROVE  row'[r] = row[r]
    BY <2>3 DEF Mail!GiveUp, Mail!Decided
  <2>4. ASSUME NEW q \in Rows, Mail!Decide(q, "sent") \/ Mail!Decide(q, "failed")
        PROVE  row'[r] = row[r]
    BY <2>4 DEF Mail!Decide, Mail!Decided, TypedInv, MailingTyped
  <2>5. QED
    BY <2>1, <2>2, <2>3, <2>4 DEF Mail!Next
<1>2. QED
  BY <1>1, MailAlways, TypedInit, TypedStep, PTL DEF Mail!DecidedIsKept, Spec

\* Once a campaign is closed by its rows, the only thing that still happens to
\* a row is that a late batch of /send inserts it: nothing is sent or given up.
THEOREM ClosedRowsForGood == Spec => Mail!ClosedRowsAreKept
<1> DEFINE Quiet(r) == status[CampaignOf[r]] \in {"none", "queued", "sent", "errors", "failed"}
           Late(r)  == row'[r] = row[r] \/ (row[r] = "absent" /\ row'[r] = "pending")
<1>1. TypedInv /\ Mail!Next => \A r \in Rows : Quiet(r) => Late(r)
  <2> SUFFICES ASSUME TypedInv, Mail!Next, NEW r \in Rows, Quiet(r)
               PROVE  Late(r)
    OBVIOUS
  <2>1. ASSUME NEW k \in Campaigns,
               Mail!Queue(k) \/ Mail!Drop(k) \/ Mail!Cancel(k) \/ Mail!Take(k) \/ Mail!Close(k)
        PROVE  row' = row
    BY <2>1 DEF Mail!Queue, Mail!Drop, Mail!Cancel, Mail!Take, Mail!Close, Mail!Moves
  <2>2. ASSUME NEW k \in Campaigns, Mail!AddBatch(k)
        PROVE  Late(r)
    BY <2>2 DEF Mail!AddBatch, Mail!Earliest, Mail!Missing
  <2>3. ASSUME NEW k \in Campaigns, Mail!GiveUp(k)
        PROVE  Late(r)
    BY <2>3 DEF Mail!GiveUp, Mail!AtWork, Mail!RowsOf
  <2>4. ASSUME NEW q \in Rows, Mail!Decide(q, "sent") \/ Mail!Decide(q, "failed")
        PROVE  Late(r)
    BY <2>4 DEF Mail!Decide, Mail!AtWork, TypedInv, MailingTyped
  <2>5. QED
    BY <2>1, <2>2, <2>3, <2>4 DEF Mail!Next
<1>2. QED
  BY <1>1, MailAlways, TypedInit, TypedStep, PTL DEF Mail!ClosedRowsAreKept, Spec
=============================================================================
