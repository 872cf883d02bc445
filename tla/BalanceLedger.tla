--------------------------- MODULE BalanceLedger ---------------------------
(***************************************************************************)
(* What the balance of a referral partner promises: a reward adds to it,   *)
(* a payout takes an amount it covers, and what a payout took may be given *)
(* back, each in one indivisible step.  The handlers of the payouts only   *)
(* write values computed from an earlier read; ReferralPayout implements   *)
(* this contract with them.                                                *)
(***************************************************************************)
EXTENDS Integers

CONSTANTS Partners, RewardSizes

VARIABLES
  balance,  \* what the partner can ask for
  earned,   \* all the partner was credited
  paidOut   \* what was taken and not given back

vars == <<balance, earned, paidOut>>

Init ==
  /\ balance = [p \in Partners |-> 0]
  /\ earned  = [p \in Partners |-> 0]
  /\ paidOut = [p \in Partners |-> 0]

Earn(p) == \E n \in RewardSizes :
  /\ balance' = [balance EXCEPT ![p] = @ + n]
  /\ earned'  = [earned EXCEPT ![p] = @ + n]
  /\ UNCHANGED paidOut

Move(p, n) ==
  /\ balance' = [balance EXCEPT ![p] = @ - n]
  /\ paidOut' = [paidOut EXCEPT ![p] = @ + n]
  /\ UNCHANGED earned

\* No more is taken than there is ...
Take(p) == \E n \in 0 .. balance[p] : Move(p, n)

\* ... and no more given back than was taken.
GiveBack(p) == \E n \in 0 .. paidOut[p] : Move(p, -n)

Next == \E p \in Partners : Earn(p) \/ Take(p) \/ GiveBack(p)

Spec == Init /\ [][Next]_vars
=============================================================================
