---------------------------- MODULE MCBroadcast ----------------------------
(* Model values for Broadcast: the rows of a campaign come in two batches. *)
EXTENDS Broadcast

CONSTANTS k1, r1, r2, a1

MCCampaignOf == [r \in Rows |-> k1]
MCBatchOf    == [r \in Rows |-> IF r = r2 THEN 2 ELSE 1]
MCPoolOf     == [k \in Campaigns |-> Actors]
=============================================================================
