--------------------------- MODULE MessagingRouter ---------------------------
(***************************************************************************)
(* The one outlet for private messages sent through userbots               *)
(* (services/messaging-router.service.js).  Several callers are inside     *)
(* deliver() at once: the broadcast job, the route of manual messages and  *)
(* the reminder jobs.  A call walks over its pool of userbots, passes over *)
(* those that are paused in the call's own copy of the accounts or whose   *)
(* quota is used up, sends through the first one left and books the        *)
(* attempt in userbot_send_log, from which the quotas are counted.         *)
(*                                                                         *)
(* The hourly and the daily cap are one window with one Cap, and a pool is *)
(* walked in any order (the code's order is a preference).  Telegram is a  *)
(* choice: the message arrives, it is refused, or it arrives and the reply *)
(* is lost.  The two kinds of pause are kept apart: the broadcast job      *)
(* waits out a flood pause and gives up on any other.  A pause has a       *)
(* deadline; what the checks of the account find has none.                 *)
(*                                                                         *)
(* What a user of the router adds (its own variables, who may call and     *)
(* with which pool) is in the module that extends this one.                *)
(***************************************************************************)
EXTENDS Integers, FiniteSets

CONSTANTS
  Actors,       \* the userbots
  Callers,      \* the concurrent users of deliver()
  Cap,          \* sends a userbot may make in a window
  MaxFaults     \* bound: failed calls, lost replies, pauses and restarts

ASSUME RouterConstants ==
  /\ IsFiniteSet(Callers) /\ Callers # {}
  /\ Cap \in Nat /\ MaxFaults \in Nat
  /\ "none" \notin Actors

VARIABLES
  ledger,       \* ledger[a]: the 'sent' rows of actor a inside the window
  paused,       \* paused[a]: dm_paused_until and its reason in tg_accounts
  health,       \* health[a]: "blocked" (runtime_status restricted, expired,
                \* error or frozen), "gone" (sold, reserved, not activated or
                \* with a dead proxy) or "well"
  seen,         \* seen[c][a]: what the caller's copy of the account says
  stage,        \* stage[c]: where the call of c stands
  left,         \* left[c]: actors of the pool not tried yet
  actor,        \* actor[c]: the actor of the current attempt
  kind,         \* kind[c]: the pause the current attempt's error asks for
  faults        \* faults so far

calls      == <<stage, left, actor, kind>>
accounts   == <<ledger, paused, health>>
routerVars == <<accounts, seen, calls, faults>>

NoActor == "none"
Pauses  == {"no", "flood", "flagged"}
Unwell  == {"blocked", "gone"}
Returned == {"sent", "exhausted", "threw"}
Stages == {"idle", "pick", "send", "record", "refused", "pause"} \cup Returned

RouterTypeOK ==
  /\ ledger \in [Actors -> Nat]
  /\ paused \in [Actors -> Pauses]
  /\ health \in [Actors -> {"well"} \cup Unwell]
  /\ seen   \in [Callers -> [Actors -> Pauses \cup Unwell]]
  /\ stage  \in [Callers -> Stages]
  /\ left   \in [Callers -> SUBSET Actors]
  /\ actor  \in [Callers -> Actors \cup {NoActor}]
  /\ kind   \in [Callers -> Pauses]
  /\ faults \in 0 .. MaxFaults

\* A restart of the process ends every call.
AllIdle ==
  /\ stage' = [c \in Callers |-> "idle"]
  /\ left'  = [c \in Callers |-> {}]
  /\ actor' = [c \in Callers |-> NoActor]
  /\ kind'  = [c \in Callers |-> "no"]
  /\ seen'  = [c \in Callers |-> [a \in Actors |-> "no"]]

RouterInit ==
  /\ ledger = [a \in Actors |-> 0]
  /\ paused = [a \in Actors |-> "no"]
  /\ health = [a \in Actors |-> "well"]
  /\ seen   = [c \in Callers |-> [a \in Actors |-> "no"]]
  /\ stage  = [c \in Callers |-> "idle"]
  /\ left   = [c \in Callers |-> {}]
  /\ actor  = [c \in Callers |-> NoActor]
  /\ kind   = [c \in Callers |-> "no"]
  /\ faults = 0

Fault == faults < MaxFaults /\ faults' = faults + 1
-----------------------------------------------------------------------------
\* The accounts are read from tg_accounts.
LoadPool(c) == seen' = [seen EXCEPT ![c] =
  [a \in Actors |-> IF health[a] = "well" THEN paused[a] ELSE health[a]]]

\* isActorEligible, on the caller's copy: neither unwell nor paused.
Eligible(c, a) == seen[c][a] = "no"

UnderQuotaMutant(a) == ledger[a] <= Cap   \* the send that reaches the cap is forgotten

\* isUnderQuota, on the ledger.
UnderQuota(a) == ledger[a] < Cap

\* deliver() is entered with a pool.
Enter(c, pool) ==
  /\ stage[c] = "idle"
  /\ left'  = [left EXCEPT ![c] = pool]
  /\ stage' = [stage EXCEPT ![c] = "pick"]
  /\ UNCHANGED <<accounts, actor, kind, faults>>

\* An actor is passed over without an attempt.
PassOver(c, a) ==
  /\ stage[c] = "pick" /\ a \in left[c]
  /\ ~(Eligible(c, a) /\ UnderQuota(a))
  /\ left' = [left EXCEPT ![c] = @ \ {a}]
  /\ UNCHANGED <<accounts, seen, stage, actor, kind, faults>>

\* The quota was counted and leaves room; the message goes out later.
Choose(c, a) ==
  /\ stage[c] = "pick" /\ a \in left[c]
  /\ Eligible(c, a) /\ UnderQuota(a)
  /\ actor' = [actor EXCEPT ![c] = a]
  /\ left'  = [left EXCEPT ![c] = @ \ {a}]
  /\ stage' = [stage EXCEPT ![c] = "send"]
  /\ UNCHANGED <<accounts, seen, kind, faults>>

SendSucceeds(c) ==
  /\ stage[c] = "send"
  /\ stage' = [stage EXCEPT ![c] = "record"]
  /\ UNCHANGED <<accounts, seen, left, actor, kind, faults>>

\* The send throws.  An error that pauses the account is a fault of the
\* environment; any other concerns this recipient only ("no" pause).
SendFails(c, k) ==
  /\ stage[c] = "send"
  /\ kind'  = [kind EXCEPT ![c] = k]
  /\ stage' = [stage EXCEPT ![c] = "refused"]
  /\ IF k = "no" THEN UNCHANGED faults ELSE Fault
  /\ UNCHANGED <<accounts, seen, left, actor>>

\* The send throws although the message arrived.
SendReplyLost(c) ==
  /\ stage[c] = "send"
  /\ stage' = [stage EXCEPT ![c] = "refused"]
  /\ Fault
  /\ UNCHANGED <<accounts, seen, left, actor, kind>>

\* recordSend: the attempt is booked.
RecordSent(c) ==
  /\ stage[c] = "record"
  /\ ledger' = [ledger EXCEPT ![actor[c]] = @ + 1]
  /\ stage'  = [stage EXCEPT ![c] = "sent"]
  /\ actor'  = [actor EXCEPT ![c] = NoActor]
  /\ UNCHANGED <<paused, health, seen, left, kind, faults>>

NextActor(c) ==
  /\ stage' = [stage EXCEPT ![c] = "pick"]
  /\ actor' = [actor EXCEPT ![c] = NoActor]
  /\ kind'  = [kind EXCEPT ![c] = "no"]

RecordRefused(c) ==
  /\ stage[c] = "refused"
  /\ IF kind[c] = "no"
     THEN NextActor(c)
     ELSE /\ stage' = [stage EXCEPT ![c] = "pause"]
          /\ UNCHANGED <<actor, kind>>
  /\ UNCHANGED <<accounts, seen, left, faults>>

\* pauseActor, and its mirror in the caller's copy of the account.
PauseActor(c) ==
  /\ stage[c] = "pause"
  /\ paused' = [paused EXCEPT ![actor[c]] = kind[c]]
  /\ seen'   = [seen EXCEPT ![c][actor[c]] = kind[c]]
  /\ NextActor(c)
  /\ UNCHANGED <<ledger, health, left, faults>>

\* A write of the journal or of the pause fails and leaves deliver(), also
\* when the message has been sent.
Throws(c) ==
  /\ stage[c] \in {"record", "refused", "pause"}
  /\ Fault
  /\ stage' = [stage EXCEPT ![c] = "threw"]
  /\ actor' = [actor EXCEPT ![c] = NoActor]
  /\ kind'  = [kind EXCEPT ![c] = "no"]
  /\ UNCHANGED <<accounts, seen, left>>

Exhausted(c) ==
  /\ stage[c] = "pick" /\ left[c] = {}
  /\ stage' = [stage EXCEPT ![c] = "exhausted"]
  /\ UNCHANGED <<accounts, seen, left, actor, kind, faults>>

\* The caller takes the result; when it is done it drops its copy.
Leave(c) ==
  /\ stage[c] \in Returned
  /\ stage' = [stage EXCEPT ![c] = "idle"]
  /\ left'  = [left EXCEPT ![c] = {}]
  /\ UNCHANGED <<accounts, actor, kind>>

DropPool(c) == seen' = [seen EXCEPT ![c] = [a \in Actors |-> "no"]]

\* Time: the oldest send leaves the window, a pause runs out (every copy that
\* knows of it holds its deadline).
WindowMoves(a) ==
  /\ ledger[a] > 0
  /\ ledger' = [ledger EXCEPT ![a] = @ - 1]
  /\ UNCHANGED <<paused, health, seen, calls, faults>>

PauseEnds(a) ==
  /\ paused[a] # "no"
  /\ paused' = [paused EXCEPT ![a] = "no"]
  /\ seen'   = [c \in Callers |->
       [seen[c] EXCEPT ![a] = IF @ \in Unwell THEN @ ELSE "no"]]
  /\ UNCHANGED <<ledger, health, calls, faults>>

\* A check of the account or of its proxy, a sale, an activation: an account
\* falls out, which is a fault, and nothing says that it will recover.
HealthChanges(a) ==
  /\ \E h \in {"well"} \cup Unwell :
       /\ h # health[a]
       /\ health' = [health EXCEPT ![a] = h]
       /\ IF h = "well" THEN UNCHANGED faults ELSE Fault
  /\ UNCHANGED <<ledger, paused, seen, calls>>

\* The steps of deliver() at whose end no message has just arrived.
RouterWalks(c) ==
  \/ \E a \in Actors : PassOver(c, a) \/ Choose(c, a)
  \/ \E k \in Pauses : SendFails(c, k)
  \/ RecordSent(c)
  \/ RecordRefused(c)
  \/ PauseActor(c)
  \/ Throws(c)
  \/ Exhausted(c)
-----------------------------------------------------------------------------
\* Calls that have counted the quota of actor a and not booked their send yet.
Underway(a) == {c \in Callers : stage[c] \in {"send", "record"} /\ actor[c] = a}

\* The count of the quota and the booking of the send are two steps of calls
\* that run side by side (deliver()): an actor's window may go over the cap,
\* but never by as many sends as there are callers.
QuotaOvershootBounded ==
  \A a \in Actors : ledger[a] + Cardinality(Underway(a)) < Cap + Cardinality(Callers)
=============================================================================
