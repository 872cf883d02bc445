--------------------------- MODULE ReferralPayout ---------------------------
(***************************************************************************)
(* Payouts of the referral programme: a partner earns TON, asks for a      *)
(* payout, and the request is settled either by the automatic sender       *)
(* (backend/services/referral-payout-sender.service.js), which really      *)
(* moves TON from the reserve wallet, or by an administrator who marks it  *)
(* as paid (backend/routes/referral/payout-ops.js).                        *)
(*                                                                         *)
(* Every database call is a step of its own: the code holds no             *)
(* transaction, only conditional UPDATEs, so anything may happen between   *)
(* two calls of one handler.  Amounts are integers (micro-TON in the code).*)
(* A handler that throws, or whose process dies, simply stops where it is. *)
(***************************************************************************)
EXTENDS Integers, Sequences, FiniteSets

CONSTANTS
  Partners,       \* referral_profiles of one owner
  Requests,       \* rows that referral_partner_payouts may come to hold
  PartnerOf,      \* the partner whose row a request is
  Senders,        \* concurrent calls of sendReferralPayoutRequest
  Markers,        \* concurrent calls of markReferralPayout
  RewardSizes,    \* amounts one referral_apply_reward call may credit
  MinPayout,      \* economics.minPayoutTon
  MaxAutoPayout,  \* REFERRAL_PAYOUT_SENDER_MAX_AMOUNT_TON
  MaxEarned,      \* bound: what one partner earns in a behaviour
  MaxTransfers    \* bound: external messages the wallet contract executes

ASSUME PayoutConstants ==
  /\ PartnerOf \in [Requests -> Partners]
  /\ RewardSizes \subseteq Nat \ {0}
  /\ MinPayout \in Nat \ {0}
  /\ MaxAutoPayout \in Nat
  /\ MaxEarned \in Nat
  /\ MaxTransfers \in Nat

\* Calls in progress are finitely many (only SentIsDebited needs it: a count).
ASSUME FiniteCalls == IsFiniteSet(Senders) /\ IsFiniteSet(Markers)

VARIABLES
  balance,    \* referral_profiles.balance_ton
  earned,     \* referral_profiles.total_earned_ton
  status,     \* referral_partner_payouts.status, "none" before the INSERT
  amount,     \* referral_partner_payouts.amount_ton
  ref,        \* chain_tx_hash as 'ton:<wallet>:<seqno>': the seqno, or NoRef
  confirmed,  \* chain_tx_hash as a real hash: the seqno executed, or NoRef
  journal,    \* 'payout_marked' rows of referral_events for the request
  asking,     \* balance a requestReferralPartnerPayout call has read, 0: none
  sPc, sReq, sBal, sSeq,            \* the senders' local state
  mPc, mWho, mBal, mReq, mAmt, mWas, \* the markers' local state
  mempool,    \* external messages accepted by the RPC node
  chain,      \* requests whose transfer the wallet executed, by seqno
  paidOut,    \* history: net debits of the partner's balance
  debits,     \* history: net debits made for the request
  claimed,    \* history: requests a sender has claimed
  reopened,   \* history: claimed requests made sendable again
  undone      \* history: closed requests whose marker went on to roll back

rowVars    == <<balance, earned, status, amount, ref, confirmed, journal>>
senderVars == <<sPc, sReq, sBal, sSeq>>
markerVars == <<mPc, mWho, mBal, mReq, mAmt, mWas>>
chainVars  == <<mempool, chain>>
history    == <<paidOut, debits, claimed, reopened, undone>>
vars == <<rowVars, asking, senderVars, markerVars, chainVars, history>>

NoRef == -1
Nothing == "nothing"   \* no request, no partner
ASSUME NothingIsNoName == Nothing \notin Requests \cup Partners

Sendable == {"requested", "queued"}
Active   == {"requested", "queued", "sending"}
Final    == {"sent", "failed", "cancelled"}
Status   == {"none"} \cup Active \cup Final
AdminTargets == {"queued", "sending", "failed", "cancelled"}

SenderPc == {"idle", "profile", "claim", "seqno", "broadcast", "debit", "close",
             "journal"}
MarkerPc == {"idle", "request", "debit", "close", "journal", "undoBalance",
             "undoBoth", "undoRequest"}

RowsTyped ==
  /\ balance   \in [Partners -> Nat]
  /\ earned    \in [Partners -> Nat]
  /\ status    \in [Requests -> Status]
  /\ amount    \in [Requests -> Nat]
  /\ ref       \in [Requests -> Nat \cup {NoRef}]
  /\ confirmed \in [Requests -> Nat \cup {NoRef}]
  /\ journal   \in [Requests -> Nat]
  /\ asking    \in [Partners -> Nat]

SendersTyped ==
  /\ sPc  \in [Senders -> SenderPc]
  /\ sReq \in [Senders -> Requests \cup {Nothing}]
  /\ sBal \in [Senders -> Nat]
  /\ sSeq \in [Senders -> Nat]

MarkersTyped ==
  /\ mPc  \in [Markers -> MarkerPc]
  /\ mWho \in [Markers -> Partners \cup {Nothing}]
  /\ mBal \in [Markers -> Nat]
  /\ mReq \in [Markers -> Requests \cup {Nothing}]
  /\ mAmt \in [Markers -> Nat]
  /\ mWas \in [Markers -> Status]

ChainTyped ==
  /\ mempool \subseteq [req : Requests, seq : Nat]
  /\ chain \in Seq(Requests)

HistoryTyped ==
  /\ paidOut \in [Partners -> Int]
  /\ debits  \in [Requests -> Int]
  /\ claimed  \subseteq Requests
  /\ reopened \subseteq Requests
  /\ undone   \subseteq Requests

TypeOK == RowsTyped /\ SendersTyped /\ MarkersTyped /\ ChainTyped /\ HistoryTyped

Init ==
  /\ balance   = [p \in Partners |-> 0]
  /\ earned    = [p \in Partners |-> 0]
  /\ status    = [r \in Requests |-> "none"]
  /\ amount    = [r \in Requests |-> 0]
  /\ ref       = [r \in Requests |-> NoRef]
  /\ confirmed = [r \in Requests |-> NoRef]
  /\ journal   = [r \in Requests |-> 0]
  /\ asking    = [p \in Partners |-> 0]
  /\ sPc  = [w \in Senders |-> "idle"]
  /\ sReq = [w \in Senders |-> Nothing]
  /\ sBal = [w \in Senders |-> 0]
  /\ sSeq = [w \in Senders |-> 0]
  /\ mPc  = [a \in Markers |-> "idle"]
  /\ mWho = [a \in Markers |-> Nothing]
  /\ mBal = [a \in Markers |-> 0]
  /\ mReq = [a \in Markers |-> Nothing]
  /\ mAmt = [a \in Markers |-> 0]
  /\ mWas = [a \in Markers |-> "none"]
  /\ mempool = {}
  /\ chain = <<>>
  /\ paidOut  = [p \in Partners |-> 0]
  /\ debits   = [r \in Requests |-> 0]
  /\ claimed  = {}
  /\ reopened = {}
  /\ undone   = {}

-----------------------------------------------------------------------------
(***************************************************************************)
(* Rewards and payout requests.                                            *)
(***************************************************************************)

\* The SQL function referral_apply_reward adds to the balance in place.
ApplyReward(p) ==
  \E n \in RewardSizes :
    /\ earned[p] + n <= MaxEarned
    /\ balance' = [balance EXCEPT ![p] = @ + n]
    /\ earned'  = [earned EXCEPT ![p] = @ + n]
    /\ UNCHANGED <<status, amount, ref, confirmed, journal, asking,
                   senderVars, markerVars, chainVars, history>>

\* requestReferralPartnerPayout: the balance is read first ...
AskForPayout(p) ==
  /\ asking[p] = 0
  /\ balance[p] >= MinPayout
  /\ asking' = [asking EXCEPT ![p] = balance[p]]
  /\ UNCHANGED <<rowVars, senderVars, markerVars, chainVars, history>>

HasActive(p) == \E q \in Requests : PartnerOf[q] = p /\ status[q] \in Active

\* ... and is the amount of the row inserted later, unless the unique index
\* on active requests (or the check before it) refuses the row.
InsertRequest(p) ==
  /\ asking[p] > 0
  /\ asking' = [asking EXCEPT ![p] = 0]
  /\ \/ /\ HasActive(p)
        /\ UNCHANGED <<status, amount>>
     \/ /\ ~HasActive(p)
        /\ \E r \in Requests :
             /\ PartnerOf[r] = p
             /\ status[r] = "none"
             /\ status' = [status EXCEPT ![r] = "requested"]
             /\ amount' = [amount EXCEPT ![r] = asking[p]]
  /\ UNCHANGED <<balance, earned, ref, confirmed, journal,
                 senderVars, markerVars, chainVars, history>>

\* History of a status write: a claimed request that can be sent again.
Reopening(r, s) ==
  IF r \in claimed /\ s \in Sendable THEN reopened \cup {r} ELSE reopened

\* Definitions named ...Mutant are faulty variants of the one below them; no
\* specification uses them, they show that the properties can fail.
CanSetStatusMutant(r) == status[r] # "none"
CanSetStatus(r)       == status[r] \in Active

\* updateReferralPayoutRequestStatus: any active status to any of four.
SetStatus(r, s) ==
  /\ CanSetStatus(r)
  /\ status' = [status EXCEPT ![r] = s]
  /\ reopened' = Reopening(r, s)
  /\ UNCHANGED <<balance, earned, amount, ref, confirmed, journal, asking,
                 senderVars, markerVars, chainVars,
                 paidOut, debits, claimed, undone>>

-----------------------------------------------------------------------------
(***************************************************************************)
(* sendReferralPayoutRequest, called by the batch job and by the admin.    *)
(***************************************************************************)

\* The call returns or throws; nothing it did is undone.
SenderStops(w) ==
  /\ sPc'  = [sPc EXCEPT ![w] = "idle"]
  /\ sReq' = [sReq EXCEPT ![w] = Nothing]
  /\ sBal' = [sBal EXCEPT ![w] = 0]
  /\ sSeq' = [sSeq EXCEPT ![w] = 0]

SenderGoes(w, pc) ==
  /\ sPc' = [sPc EXCEPT ![w] = pc]
  /\ UNCHANGED sReq

\* The conditional UPDATE of the balance: is it still the one read before?
BalanceStillMutant(p, b) == TRUE
BalanceStill(p, b)       == balance[p] = b

CoversMutant(b, r) == TRUE
Covers(b, r)       == amount[r] <= b

CanStartMutant(r) == status[r] = "requested" /\ amount[r] <= MaxAutoPayout
CanStart(r)       == status[r] \in Sendable /\ amount[r] <= MaxAutoPayout

\* The request is read: it must be sendable and small enough.
SendStart(w, r) ==
  /\ sPc[w] = "idle"
  /\ CanStart(r)
  /\ sPc'  = [sPc EXCEPT ![w] = "profile"]
  /\ sReq' = [sReq EXCEPT ![w] = r]
  /\ UNCHANGED <<rowVars, asking, sBal, sSeq, markerVars, chainVars, history>>

\* The partner's balance is read: it must cover the request.
SendReadProfile(w) ==
  LET r == sReq[w]
      b == balance[PartnerOf[r]]
  IN
  /\ sPc[w] = "profile"
  /\ \/ /\ Covers(b, r)
        /\ SenderGoes(w, "claim")
        /\ sBal' = [sBal EXCEPT ![w] = b]
        /\ UNCHANGED sSeq
     \/ /\ ~Covers(b, r)
        /\ SenderStops(w)
  /\ UNCHANGED <<rowVars, asking, markerVars, chainVars, history>>

CanClaimMutant(r) == TRUE
CanClaim(r)       == status[r] \in Sendable

\* The claim: a conditional UPDATE to 'sending', from a sendable status only.
SendClaim(w) ==
  LET r == sReq[w] IN
  /\ sPc[w] = "claim"
  /\ \/ /\ CanClaim(r)
        /\ status'  = [status EXCEPT ![r] = "sending"]
        /\ claimed' = claimed \cup {r}
        /\ SenderGoes(w, "seqno")
        /\ UNCHANGED <<sBal, sSeq>>
     \/ /\ ~CanClaim(r)
        /\ SenderStops(w)
        /\ UNCHANGED <<status, claimed>>
  /\ UNCHANGED <<balance, earned, amount, ref, confirmed, journal, asking,
                 markerVars, chainVars, paidOut, debits, reopened, undone>>

\* sendTonFromReserve reads the seqno of the wallet contract ...
SendReadSeqno(w) ==
  /\ sPc[w] = "seqno"
  /\ Len(chain) < MaxTransfers
  /\ SenderGoes(w, "broadcast")
  /\ sSeq' = [sSeq EXCEPT ![w] = Len(chain)]
  /\ UNCHANGED <<rowVars, asking, sBal, markerVars, chainVars, history>>

\* ... and hands the signed message to the node.  The call may time out after
\* the node took the message: it throws, the request stays 'sending'.
SendBroadcast(w) ==
  /\ sPc[w] = "broadcast"
  /\ mempool' = mempool \cup {[req |-> sReq[w], seq |-> sSeq[w]]}
  /\ \/ SenderGoes(w, "debit") /\ UNCHANGED <<sBal, sSeq>>
     \/ SenderStops(w)
  /\ UNCHANGED <<rowVars, asking, markerVars, chain, history>>

\* A balance that moved meanwhile ends the call, the request stays 'sending'.
DebitMissedMutant(w) == SenderGoes(w, "close") /\ UNCHANGED <<sBal, sSeq>>
DebitMissed(w)       == SenderStops(w)

\* The debit writes the value computed from the balance read at the start,
\* on condition that the balance is still that one.
SendDebit(w) ==
  LET r == sReq[w]
      p == PartnerOf[r]
  IN
  /\ sPc[w] = "debit"
  /\ \/ /\ BalanceStill(p, sBal[w])
        /\ balance' = [balance EXCEPT ![p] = sBal[w] - amount[r]]
        /\ paidOut' = [paidOut EXCEPT ![p] = @ + amount[r]]
        /\ debits'  = [debits EXCEPT ![r] = @ + 1]
        /\ SenderGoes(w, "close")
        /\ UNCHANGED <<sBal, sSeq>>
     \/ /\ ~BalanceStill(p, sBal[w])
        /\ DebitMissed(w)
        /\ UNCHANGED <<balance, paidOut, debits>>
  /\ UNCHANGED <<earned, status, amount, ref, confirmed, journal, asking,
                 markerVars, chainVars, claimed, reopened, undone>>

RefIsFree(n) == \A q \in Requests : ref[q] # n

CanCloseMutant(r) == TRUE
CanClose(r)       == status[r] = "sending"

\* 'sending' becomes 'sent' with the transfer reference, which is unique.
SendClose(w) ==
  LET r == sReq[w]
      closes == CanClose(r) /\ RefIsFree(sSeq[w])
  IN
  /\ sPc[w] = "close"
  /\ \/ /\ closes
        /\ status' = [status EXCEPT ![r] = "sent"]
        /\ ref'    = [ref EXCEPT ![r] = sSeq[w]]
        /\ SenderGoes(w, "journal")
        /\ UNCHANGED <<sBal, sSeq>>
     \/ /\ ~closes
        /\ SenderStops(w)
        /\ UNCHANGED <<status, ref>>
  /\ UNCHANGED <<balance, earned, amount, confirmed, journal, asking,
                 markerVars, chainVars, history>>

\* The event row; a failed INSERT is only logged.
SendJournal(w) ==
  /\ sPc[w] = "journal"
  /\ \/ journal' = [journal EXCEPT ![sReq[w]] = @ + 1]
     \/ UNCHANGED journal
  /\ SenderStops(w)
  /\ UNCHANGED <<balance, earned, status, amount, ref, confirmed, asking,
                 markerVars, chainVars, history>>

\* A database or network call throws, or the process dies.
SendAbort(w) ==
  /\ sPc[w] # "idle"
  /\ SenderStops(w)
  /\ UNCHANGED <<rowVars, asking, markerVars, chainVars, history>>

-----------------------------------------------------------------------------
(***************************************************************************)
(* markReferralPayout: the admin paid by hand and books it, TON branch.    *)
(* The network fee row of the reserve ledger is not part of this module.   *)
(***************************************************************************)

MarkerStops(a) ==
  /\ mPc'  = [mPc EXCEPT ![a] = "idle"]
  /\ mWho' = [mWho EXCEPT ![a] = Nothing]
  /\ mBal' = [mBal EXCEPT ![a] = 0]
  /\ mReq' = [mReq EXCEPT ![a] = Nothing]
  /\ mAmt' = [mAmt EXCEPT ![a] = 0]
  /\ mWas' = [mWas EXCEPT ![a] = "none"]

MarkerGoes(a, pc) ==
  /\ mPc' = [mPc EXCEPT ![a] = pc]
  /\ UNCHANGED <<mWho, mBal, mReq, mAmt, mWas>>

\* The profile is read.
MarkStart(a, p) ==
  /\ mPc[a] = "idle"
  /\ mPc'  = [mPc EXCEPT ![a] = "request"]
  /\ mWho' = [mWho EXCEPT ![a] = p]
  /\ mBal' = [mBal EXCEPT ![a] = balance[p]]
  /\ UNCHANGED <<rowVars, asking, senderVars, mReq, mAmt, mWas, chainVars,
                 history>>

\* The partner's active request is read; the amount must be exactly its own.
\* Without one any amount may be booked.  The balance read must cover it.
MarkReadRequest(a) ==
  /\ mPc[a] = "request"
  /\ \/ \E r \in Requests :
          /\ PartnerOf[r] = mWho[a]
          /\ status[r] \in Active
          /\ Covers(mBal[a], r)
          /\ mPc'  = [mPc EXCEPT ![a] = "debit"]
          /\ mReq' = [mReq EXCEPT ![a] = r]
          /\ mAmt' = [mAmt EXCEPT ![a] = amount[r]]
          /\ mWas' = [mWas EXCEPT ![a] = status[r]]
          /\ UNCHANGED <<mWho, mBal>>
     \/ \E n \in 1..mBal[a] :
          /\ ~HasActive(mWho[a])
          /\ mPc'  = [mPc EXCEPT ![a] = "debit"]
          /\ mAmt' = [mAmt EXCEPT ![a] = n]
          /\ UNCHANGED <<mWho, mBal, mReq, mWas>>
  /\ UNCHANGED <<rowVars, asking, senderVars, chainVars, history>>

\* History: a debit (d = 1) or its restoration (d = -1) by a marker.
MarkerBooks(a, d) ==
  /\ paidOut' = [paidOut EXCEPT ![mWho[a]] = @ + d * mAmt[a]]
  /\ debits'  = IF mReq[a] = Nothing THEN debits
                ELSE [debits EXCEPT ![mReq[a]] = @ + d]

BookingMissedMutant(a) ==
  IF mReq[a] = Nothing THEN MarkerStops(a) ELSE MarkerGoes(a, "close")
BookingMissed(a) == MarkerStops(a)

\* The balance is debited first, on condition that it is still the one read.
MarkDebit(a) ==
  LET p == mWho[a] IN
  /\ mPc[a] = "debit"
  /\ \/ /\ BalanceStill(p, mBal[a])
        /\ balance' = [balance EXCEPT ![p] = mBal[a] - mAmt[a]]
        /\ MarkerBooks(a, 1)
        /\ MarkerGoes(a, IF mReq[a] = Nothing THEN "journal" ELSE "close")
     \/ /\ ~BalanceStill(p, mBal[a])
        /\ BookingMissed(a)
        /\ UNCHANGED <<balance, paidOut, debits>>
  /\ UNCHANGED <<earned, status, amount, ref, confirmed, journal, asking,
                 senderVars, chainVars, claimed, reopened, undone>>

\* The request is closed from any active status; when that misses or fails
\* the debit is undone.
MarkClose(a) ==
  LET r == mReq[a] IN
  /\ mPc[a] = "close"
  /\ \/ /\ status[r] \in Active
        /\ status' = [status EXCEPT ![r] = "sent"]
        /\ MarkerGoes(a, "journal")
     \/ /\ MarkerGoes(a, "undoBalance")
        /\ UNCHANGED status
  /\ UNCHANGED <<balance, earned, amount, ref, confirmed, journal, asking,
                 senderVars, chainVars, history>>

\* The event row.  When the INSERT fails both writes are undone in turn.
MarkJournal(a) ==
  LET r == mReq[a] IN
  /\ mPc[a] = "journal"
  /\ \/ /\ journal' = IF r = Nothing THEN journal
                      ELSE [journal EXCEPT ![r] = @ + 1]
        /\ MarkerStops(a)
        /\ UNCHANGED undone
     \/ /\ MarkerGoes(a, IF r = Nothing THEN "undoBalance" ELSE "undoBoth")
        /\ undone' = undone \cup ({r} \cap Requests)
        /\ UNCHANGED journal
  /\ UNCHANGED <<balance, earned, status, amount, ref, confirmed, asking,
                 senderVars, chainVars, paidOut, debits, claimed, reopened>>

\* restoreReferralBalance: writes the old balance back, on condition that the
\* balance is still the one this call wrote.  A miss or a failure is ignored.
MarkUndoBalance(a) ==
  LET p == mWho[a] IN
  /\ mPc[a] \in {"undoBalance", "undoBoth"}
  /\ \/ /\ BalanceStill(p, mBal[a] - mAmt[a])
        /\ balance' = [balance EXCEPT ![p] = mBal[a]]
        /\ MarkerBooks(a, -1)
     \/ UNCHANGED <<balance, paidOut, debits>>
  /\ IF mPc[a] = "undoBoth" THEN MarkerGoes(a, "undoRequest") ELSE MarkerStops(a)
  /\ UNCHANGED <<earned, status, amount, ref, confirmed, journal, asking,
                 senderVars, chainVars, claimed, reopened, undone>>

\* The request gets back the status it had when this call read it, unless it
\* is no longer 'sent' or the partner has another active request by now (the
\* unique index refuses the row); a failure is ignored.
MarkUndoRequest(a) ==
  LET r == mReq[a] IN
  /\ mPc[a] = "undoRequest"
  /\ \/ /\ status[r] = "sent"
        /\ ~HasActive(PartnerOf[r])
        /\ status' = [status EXCEPT ![r] = mWas[a]]
        /\ reopened' = Reopening(r, mWas[a])
     \/ UNCHANGED <<status, reopened>>
  /\ MarkerStops(a)
  /\ UNCHANGED <<balance, earned, amount, ref, confirmed, journal, asking,
                 senderVars, chainVars, paidOut, debits, claimed, undone>>

\* A check refuses the call, a database call throws, or the process dies.
MarkAbort(a) ==
  /\ mPc[a] # "idle"
  /\ MarkerStops(a)
  /\ UNCHANGED <<rowVars, asking, senderVars, chainVars, history>>

-----------------------------------------------------------------------------
(***************************************************************************)
(* The TON wallet contract and the confirmation job.                       *)
(***************************************************************************)

\* The contract executes a message whose seqno is its own, and no other.
ChainExecute(m) ==
  /\ m.seq = Len(chain)
  /\ chain' = Append(chain, m.req)
  /\ mempool' = mempool \ {m}
  /\ UNCHANGED <<rowVars, asking, senderVars, markerVars, history>>

CarriesMemoMutant(n, r) == n < Len(chain)
CarriesMemo(n, r)       == n < Len(chain) /\ chain[n + 1] = r

\* confirmAutoPayouts: a 'sent' request whose reference still is a seqno gets
\* the hash of the transfer that carries its memo under that seqno.
ConfirmPayout(r) ==
  /\ status[r] = "sent"
  /\ ref[r] # NoRef
  /\ CarriesMemo(ref[r], r)
  /\ ref'       = [ref EXCEPT ![r] = NoRef]
  /\ confirmed' = [confirmed EXCEPT ![r] = ref[r]]
  /\ UNCHANGED <<balance, earned, status, amount, journal, asking,
                 senderVars, markerVars, chainVars, history>>

-----------------------------------------------------------------------------
PartnerStep(p) == ApplyReward(p) \/ AskForPayout(p) \/ InsertRequest(p)

SenderContinues(w) ==
  \/ SendReadProfile(w) \/ SendClaim(w) \/ SendReadSeqno(w)
  \/ SendBroadcast(w) \/ SendDebit(w) \/ SendClose(w) \/ SendJournal(w)
  \/ SendAbort(w)

SenderStep(w) ==
  \/ \E r \in Requests : SendStart(w, r)
  \/ SenderContinues(w)

MarkerStep(a) ==
  \/ \E p \in Partners : MarkStart(a, p)
  \/ MarkReadRequest(a) \/ MarkDebit(a) \/ MarkClose(a) \/ MarkJournal(a)
  \/ MarkUndoBalance(a) \/ MarkUndoRequest(a) \/ MarkAbort(a)

Next ==
  \/ \E p \in Partners : PartnerStep(p)
  \/ \E w \in Senders : SenderStep(w)
  \/ \E a \in Markers : MarkerStep(a)
  \/ \E r \in Requests, s \in AdminTargets : SetStatus(r, s)
  \/ \E m \in mempool : ChainExecute(m)
  \/ \E r \in Requests : ConfirmPayout(r)

Spec == Init /\ [][Next]_vars
-----------------------------------------------------------------------------
(***************************************************************************)
(* Properties.                                                             *)
(***************************************************************************)

\* The wallet executes at most one transfer for a request, whatever senders,
\* administrators, crashes and timeouts do to it, unless the request was made
\* sendable again after a sender had claimed it (by an administrator, or by
\* the rollback of a manual booking).  This is what the conditional claim in
\* sendReferralPayoutRequest buys.
AtMostOneTransfer ==
  \A i, j \in 1..Len(chain) :
    chain[i] = chain[j] /\ chain[i] \notin reopened => i = j

\* The same without the exception: what the comment above the claim promises
\* ("a second sendTonFromReserve does not start").
NoSecondTransfer == \A i, j \in 1..Len(chain) : chain[i] = chain[j] => i = j

\* No reward is lost and none is paid twice out of thin air: all handlers but
\* the reward write the balance as an absolute value computed from an earlier
\* read, and yet it always is what was earned less the net debits.
NoLostReward == \A p \in Partners : balance[p] + paidOut[p] = earned[p]

Ledger == INSTANCE BalanceLedger

\* The read, computed and conditionally written balance keeps the contract of
\* BalanceLedger, as if every handler changed it in place: no reward is lost,
\* no payout overdraws it, and a rollback gives back no more than was taken,
\* though the balance may have come back to the value a handler remembers.
LedgerKept == Ledger!Spec

\* A request closed as 'sent' was taken from the partner's balance, by the
\* sender or by the marker, unless a marker that closed it started to roll
\* back after its event row failed.
SentIsDebited ==
  \A r \in Requests : status[r] = "sent" /\ r \notin undone => debits[r] >= 1

\* The journal has at most one 'payout_marked' row for a request, and only for
\* a request that is, and will stay, 'sent': the dashboards add these rows up.
JournaledOnce ==
  \A r \in Requests :
    journal[r] <= 1 /\ (journal[r] = 1 => status[r] = "sent")

\* A real transaction hash is only ever attached to a request the wallet paid
\* under that seqno: two senders may have signed with the same seqno, and only
\* one of the two transfers was executed.
ConfirmedIsPaid ==
  \A r \in Requests : confirmed[r] # NoRef =>
    /\ status[r] = "sent"
    /\ confirmed[r] < Len(chain)
    /\ chain[confirmed[r] + 1] = r

\* A settled request stays settled: 'failed' and 'cancelled' are never left,
\* 'sent' only by the rollback of a manual booking that has no event row.
SettledStays ==
  [][\A r \in Requests :
       /\ status[r] \in {"failed", "cancelled"} => status'[r] = status[r]
       /\ status[r] = "sent" /\ status'[r] # "sent" =>
            r \in undone /\ journal[r] = 0 /\ ref[r] = NoRef]_vars

-----------------------------------------------------------------------------
(***************************************************************************)
(* The strengthening that makes the two main invariants inductive.         *)
(***************************************************************************)

\* What the local copies of a running call are known to satisfy.
SenderLocal(w) ==
  /\ sPc[w] # "idle" => sReq[w] \in Requests /\ status[sReq[w]] # "none"
  /\ sPc[w] \in {"claim", "seqno", "broadcast", "debit"} =>
       amount[sReq[w]] <= sBal[w]

MarkerLocal(a) ==
  /\ mPc[a] # "idle" => mWho[a] \in Partners
  /\ mPc[a] \in {"idle", "request"} => mReq[a] = Nothing /\ mAmt[a] = 0
  /\ mPc[a] \in {"close", "undoBoth", "undoRequest"} => mReq[a] # Nothing
  /\ mReq[a] # Nothing => mWas[a] \in Active
  /\ mAmt[a] <= mBal[a]

LocalsOK ==
  /\ \A w \in Senders : SenderLocal(w)
  /\ \A a \in Markers : MarkerLocal(a)

\* What a marker remembers of a balance never exceeds what was earned, so that
\* writing it back takes no payout below zero.
LedgerInv ==
  /\ \A p \in Partners : paidOut[p] >= 0
  /\ \A a \in Markers : mPc[a] # "idle" => mBal[a] <= earned[mWho[a]]

\* A sender that has claimed the request and not yet handed over its message.
Holds(w, r) == sPc[w] \in {"seqno", "broadcast"} /\ sReq[w] = r

InMempool(r) == \E m \in mempool : m.req = r
OnChain(r)   == \E i \in 1..Len(chain) : chain[i] = r

\* As long as a request is not reopened there is one claim, hence one holder,
\* one message or one executed transfer, and never two of these.
ClaimInv(r) ==
  /\ status[r] \in Sendable \cup {"none"} => r \notin claimed
  /\ r \notin claimed => /\ \A w \in Senders : ~Holds(w, r)
                         /\ ~InMempool(r)
                         /\ ~OnChain(r)
  /\ \A v, w \in Senders : Holds(v, r) /\ Holds(w, r) => v = w
  /\ \A w \in Senders : Holds(w, r) => ~InMempool(r) /\ ~OnChain(r)
  /\ \A m, n \in mempool : m.req = r /\ n.req = r => m = n
  /\ InMempool(r) => ~OnChain(r)
  /\ \A i, j \in 1..Len(chain) : chain[i] = r /\ chain[j] = r => i = j

SingleClaim == \A r \in Requests : r \notin reopened => ClaimInv(r)

-----------------------------------------------------------------------------
(***************************************************************************)
(* Liveness.  Every call ends, since each network call has a timeout (weak  *)
(* fairness of its steps, the abort included).  The batch job comes back   *)
(* every minute and takes requests in order of age, so each step up to the *)
(* claim is taken again and again however often a call aborts (strong      *)
(* fairness of these steps).                                               *)
(***************************************************************************)
SenderFairness ==
  \A w \in Senders :
    /\ WF_vars(SenderContinues(w))
    /\ \A r \in Requests : /\ SF_vars(SendStart(w, r))
                          /\ SF_vars(sReq[w] = r /\ SendReadProfile(w))
                          /\ SF_vars(sReq[w] = r /\ SendClaim(w))

FairSpec == Spec /\ SenderFairness

\* A request small enough for the automatic sender does not wait for ever: it
\* is claimed or settled, or the balance no longer covers it.
RequestIsTaken ==
  \A r \in Requests :
    (status[r] \in Sendable /\ amount[r] <= MaxAutoPayout)
      ~> (status[r] \notin Sendable \/ balance[PartnerOf[r]] < amount[r])
=============================================================================
