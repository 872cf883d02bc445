-------------------------- MODULE MCReferralPayout --------------------------
(***************************************************************************)
(* Small instances of ReferralPayout.                                      *)
(***************************************************************************)
EXTENDS ReferralPayout, TLC

CONSTANTS p1, p2, r1, r2

\* One partner with a single request.
OnlyRequest == [r \in {r1} |-> p1]

\* Two partners with a request each: their senders share the wallet's seqno.
TwoPartners == (r1 :> p1) @@ (r2 :> p2)

SenderSymmetry == Permutations(Senders)
=============================================================================
