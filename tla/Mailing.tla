------------------------------- MODULE Mailing -------------------------------
(***************************************************************************)
(* What a mass mailing promises its owner, whatever job, request, restart  *)
(* or reaper moves it: the rows come in batches, each is decided once and  *)
(* only while the campaign is at work, the campaign is closed by its rows  *)
(* only when the first batch is decided, and a closed campaign stays as it *)
(* is.  Broadcast implements it.                                           *)
(***************************************************************************)
EXTENDS Naturals

CONSTANTS Campaigns, Rows, CampaignOf, BatchOf

VARIABLES
  status,   \* broadcast_campaigns.status
  row       \* row[r]: broadcast_deliveries.delivery_status

vars == <<status, row>>

RowsOf(k)  == {r \in Rows : CampaignOf[r] = k}
Missing(k) == {r \in RowsOf(k) : row[r] = "absent"}
Decided(r) == row[r] \in {"sent", "failed"}
Closed     == {"sent", "errors", "failed", "cancelled"}

\* The rows of k that come first of those in S.
Earliest(S) == {r \in S : \A q \in S : BatchOf[r] <= BatchOf[q]}

Init ==
  /\ status = [k \in Campaigns |-> "none"]
  /\ row    = [r \in Rows |-> "absent"]

Moves(k, from, to) ==
  /\ status[k] \in from
  /\ status' = [status EXCEPT ![k] = to]
  /\ UNCHANGED row

Queue(k)  == Moves(k, {"none"}, "queued")
Drop(k)   == Moves(k, {"queued"}, "failed")       \* a batch was refused
Cancel(k) == Moves(k, {"queued", "sending"}, "cancelled")
Take(k)   == Moves(k, {"queued", "sending"}, "sending")

AddBatch(k) ==
  /\ status[k] # "none"
  /\ row' = [r \in Rows |-> IF r \in Earliest(Missing(k)) THEN "pending" ELSE row[r]]
  /\ UNCHANGED status

AtWork(k) == status[k] \in {"sending", "cancelled"}

\* The message under way goes out even if the owner has just cancelled.
Decide(r, result) ==
  /\ AtWork(CampaignOf[r]) /\ row[r] = "pending"
  /\ row' = [row EXCEPT ![r] = result]
  /\ UNCHANGED status

\* There is nobody left to send.
GiveUp(k) ==
  /\ AtWork(k)
  /\ row' = [r \in Rows |-> IF r \in RowsOf(k) /\ row[r] = "pending" THEN "failed"
                            ELSE row[r]]
  /\ UNCHANGED status

Close(k) ==
  \/ Moves(k, {"sending"}, "failed")
  \/ /\ \A r \in Earliest(RowsOf(k)) : Decided(r)
     /\ \/ (\A r \in RowsOf(k) : row[r] # "failed") /\ Moves(k, {"sending"}, "sent")
        \/ (\E r \in RowsOf(k) : row[r] = "failed") /\ Moves(k, {"sending"}, "errors")

Next ==
  \/ \E k \in Campaigns : \/ Queue(k) \/ Drop(k) \/ Cancel(k) \/ Take(k)
                          \/ AddBatch(k) \/ GiveUp(k) \/ Close(k)
  \/ \E r \in Rows : Decide(r, "sent") \/ Decide(r, "failed")

Spec == Init /\ [][Next]_vars
-----------------------------------------------------------------------------
\* A closed campaign is not opened again and not closed otherwise.
ClosedIsKept ==
  [][\A k \in Campaigns : status[k] \in Closed => status'[k] = status[k]]_vars

\* A row is decided once: no retry turns a sent row into a failed one, or back.
DecidedIsKept == [][\A r \in Rows : Decided(r) => row'[r] = row[r]]_vars

\* The rows of a campaign that is closed by its rows, or was never taken up,
\* are not touched any more, but for the batches that still come.
ClosedRowsAreKept ==
  [][\A r \in Rows : status[CampaignOf[r]] \in {"none", "queued", "sent", "errors", "failed"} =>
       row'[r] = row[r] \/ (row[r] = "absent" /\ row'[r] = "pending")]_vars
=============================================================================
